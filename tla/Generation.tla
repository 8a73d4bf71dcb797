----------------------------- MODULE Generation -----------------------------
(***************************************************************************)
(* OutputGenerator::HandleTranslationUnit with the generator that          *)
(* CreateASTConsumer made: the visitor fills the lists, the header of the  *)
(* file is written, the backend's run() appends to the buffer, and write() *)
(* puts the buffer into the file.                                          *)
(*                                                                         *)
(* The collector and the backends are instances over shared variables: the *)
(* lists that Collector fills are the ones the backends read.              *)
(***************************************************************************)
EXTENDS OutputGenerator

CONSTANTS
    NoDecl, Name, NameOf, Defined, ErrnoLocation, Builtin, BuiltinPrefixed,
    InStdNamespace, ExternallyVisible, CtorsOf, DtorOf, InternalBlacklist,
    Pattern, Malformed, Glob, TranslationUnits, Configurations,
                                    \* see Collector
    GlobalNamespaceName, WriteMain, \* see GMock
    Pointee, TypedefName, Settings, \* see FFF
    OutputParameters,               \* see CMocka
    Access, TagKind,                \* see Raw
    UnitsFor                        \* the translation units for each backend

\* The values of Mocking.Backend.
Backend == {"gmock", "fff", "cmocka", "raw"}

ASSUME UnitsAssumption == UnitsFor \in [Backend -> SUBSET TranslationUnits]

VARIABLES
    exprs, Mocking, collecting, entry, visit, call,
    Blacklist, GlobBlacklist, Visited,    \* the visitor; collecting is its pc
    stack, order,                         \* GMock and Raw
    parm, TypedefMap,                     \* FFF
    CurrentAccess, scopes,                \* Raw
    backend,                              \* Mocking.Backend
    writable,                             \* whether the output can be opened
    file,                                 \* what the output file holds
    outcome                               \* how far the run has come

C == INSTANCE Collector
    WITH pc <- collecting, ParamEmpty <- {f \in FunctionDecl : Len(Parameters[f]) = 0}
G == INSTANCE GMock
F == INSTANCE FFF
K == INSTANCE CMocka
R == INSTANCE Raw

\* The instances assume of the constants what their modules do.
ASSUME VisitorAssumption ==
    C!DeclAssumption /\ C!FunctionAssumption /\ C!ClassAssumption /\ C!InputAssumption
ASSUME WalkAssumption == G!KindAssumption /\ G!MemberAssumption

ASSUME RawAssumption == R!ContextKinds /\ R!AccessOfMembers

visitorVars == <<exprs, Mocking, collecting, entry, visit, call,
                 Blacklist, GlobBlacklist, Visited>>
backendVars == <<index, child, parent, Map, pc, next, out, stack, order,
                 parm, TypedefMap, CurrentAccess, scopes>>
environment == <<backend, writable>>

vars == <<visitorVars, lists, backendVars, environment, file, outcome>>

-----------------------------------------------------------------------------
\* A generator is created with empty lists and nothing in its buffer.
Init ==
    /\ C!Init
    /\ InitContexts /\ InitGenerator /\ F!InitFFF /\ R!InitRaw
    /\ stack = <<>> /\ order = <<>>
    /\ pc = "idle"
    /\ backend \in Backend /\ exprs \in UnitsFor[backend]
    /\ writable \in BOOLEAN
    /\ file = <<>> /\ outcome = "running"

\* ASTVisitor::run
Collect ==
    /\ collecting \notin {"done", "exit"}
    /\ C!Next
    /\ UNCHANGED <<backendVars, environment, file, outcome>>

\* The first part of each backend's run().
FirstPart == [gmock |-> "map", raw |-> "map", fff |-> "settings", cmocka |-> "includes"]

\* writeFileHeader, and the call of run().
WriteFileHeader ==
    /\ collecting = "done" /\ pc = "idle"
    /\ out' = <<Item({<<"header", backend>>}, {})>>
    /\ pc' = FirstPart[backend]
    /\ UNCHANGED <<visitorVars, lists, index, child, parent, Map, next, stack, order,
                   parm, TypedefMap, CurrentAccess, scopes, environment, file, outcome>>

Running(b) == backend = b /\ pc \notin {"idle", "done", "aborted"}

RunGMock ==
    /\ Running("gmock")
    /\ G!Next
    /\ UNCHANGED <<visitorVars, parm, TypedefMap, CurrentAccess, scopes,
                   environment, file, outcome>>

RunFFF ==
    /\ Running("fff")
    /\ F!Next
    /\ UNCHANGED <<visitorVars, stack, order, CurrentAccess, scopes,
                   environment, file, outcome>>

RunCMocka ==
    /\ Running("cmocka")
    /\ K!Next
    /\ UNCHANGED <<visitorVars, stack, order, parm, TypedefMap, CurrentAccess, scopes,
                   environment, file, outcome>>

RunRaw ==
    /\ Running("raw")
    /\ R!Next
    /\ UNCHANGED <<visitorVars, order, parm, TypedefMap, environment, file, outcome>>

\* run() has returned.
Finished == pc = "done"

\* write(): the output is opened, which may fail, and gets the whole buffer.
WriteOutput ==
    /\ Finished /\ outcome = "running" /\ writable
    /\ file' = out
    /\ outcome' = "written"
    /\ UNCHANGED <<visitorVars, lists, backendVars, environment>>

FailToOpen ==
    /\ Finished /\ outcome = "running" /\ ~writable
    /\ outcome' = "failed"
    /\ UNCHANGED <<visitorVars, lists, backendVars, environment, file>>

\* std::exit in the visitor.
ExitEarly ==
    /\ collecting = "exit" /\ outcome = "running"
    /\ outcome' = "failed"
    /\ UNCHANGED <<visitorVars, lists, backendVars, environment, file>>

\* The process ends inside run(); the buffer is lost.
StopInBackend ==
    /\ pc = "aborted" /\ outcome = "running"
    /\ outcome' = "failed"
    /\ UNCHANGED <<visitorVars, lists, backendVars, environment, file>>

Terminated == outcome # "running" /\ UNCHANGED vars

Next ==
    \/ Collect \/ WriteFileHeader
    \/ RunGMock \/ RunFFF \/ RunCMocka \/ RunRaw
    \/ WriteOutput \/ FailToOpen \/ ExitEarly \/ StopInBackend
    \/ Terminated

\* The program is sequential and no step waits for anything outside it.
Spec == Init /\ [][Next]_vars /\ WF_vars(Next)

-----------------------------------------------------------------------------
(***************************************************************************)
(* Properties.                                                             *)
(***************************************************************************)
\* The visitor's state is well typed, and so is the backend's, which reads the
\* visitor's lists: the table of typedefs maps types to typedefs that have been
\* written, and every access that Raw remembers is one of the language.
TypeOK ==
    /\ C!TypeOK
    /\ outcome \in {"running", "written", "failed"}
    /\ backend \in Backend
    /\ Range(TypedefMap) \subseteq Declared
    /\ {CurrentAccess} \cup Range(scopes) \subseteq {"none", "private", "protected", "public"}
    /\ backend = "raw" => Len(scopes) = Len(stack)

\* What the items of a file provide: definitions, or with the backend raw
\* declarations.  A fake has to be on the list that resets it.
Provided(items) ==
    LET symbols == UNION {items[n].declares : n \in DOMAIN items}
    IN  {f \in FunctionDecl :
            CASE backend = "raw" -> R!Declaration(f) \in symbols
              [] backend = "fff" -> {Body(f), F!Listed(f)} \subseteq symbols
              [] OTHER -> Body(f) \in symbols}
        \cup {v \in VarDecl : Variable(v) \in symbols}

\* Raw writes no variables, and no function of a context it passes over.  The
\* others define all functions, and the variables that can be defined.
Providable ==
    IF backend = "raw" THEN {f \in FunctionDecl : R!Walked[R!PrimaryParent(f)]}
    ELSE FunctionDecl \cup {v \in VarDecl : VarForm[v] \in {"other", "function pointer"}}

\* The names of contexts without one: GMock asks for them.
NamelessContext ==
    backend = "gmock" /\ \E f \in C!Needed \cap FunctionDecl : Parent[f] \notin G!NamedContext

Promise == INSTANCE MockFile
    WITH wanted <- C!Needed \cap Providable,
         obstacle <- C!Obstacle \/ ~writable,
         undefined <- NamelessContext,
         file <- Provided(file)

\* From the source to the file: whichever backend runs, the file appears at
\* the end in one step and provides exactly the entities the translation unit
\* needs and the backend can provide; and it appears unless the options, a
\* function or the file system forbid it, or a context without a name leads
\* GMock to an invalid cast.
PublishesMocks == Promise!Spec

\* What the text uses is declared above it, and nothing is declared twice,
\* whichever backend writes it; the names of contexts without one, which GMock
\* would write, are left out.
UsesDeclared == (backend = "gmock" => G!AllNamed) => DeclaredBeforeUse
DeclaresOnce == (backend = "gmock" => G!AllNamed) => DeclaredOnce

\* The access rule of Raw for the functions the visitor collected.
AccessFaithful == R!AccessFaithful

\* The typedefs of FFF for the functions the visitor collected.
FunctionPointersNamed == F!FunctionPointersNamed
=============================================================================
