------------------------------ MODULE MCGMock ------------------------------
(***************************************************************************)
(* A small tree of declaration contexts for the GMock backend: functions   *)
(* of the translation unit, of a namespace that is opened twice, of a      *)
(* record in it and a record in that, and of a record of its own; and a    *)
(* linkage specification with a function and a third declaration of the    *)
(* namespace in it.  The list of collected functions is any of up to       *)
(* MaxFunctions of them, and four longer lists.  Parameters have names,    *)
(* have none, or both in one list.                                         *)
(***************************************************************************)
EXTENDS GMock

CONSTANTS
    tu, none,          \* the translation unit, and no context
    ns, nsAgain, nsLinked,   \* three declarations of one namespace
    ext,               \* a linkage specification, around the last of them
    Rec, Inner,        \* a record of the namespace, and one in it
    Single,            \* a record of the translation unit
    Special,           \* a specialization of a class template
    f, fOverload,      \* overloaded functions of the translation unit
    log,               \* a variadic function of the translation unit
    g,                 \* a function of the namespace
    start, stop,       \* functions of the linkage specification and, in it,
                       \* of the namespace
    method, destructor, constructor, special,
    increment, advance,  \* prefix and postfix ++
    int, ptr,          \* types
    counter, handler, table, obj,  \* variables
    MaxFunctions,      \* bound on the number of collected functions
    Functions          \* the functions collected

MCContext == {tu, ns, nsAgain, nsLinked, ext, Rec, Inner, Single, Special}
MCFunctionDecl ==
    {f, fOverload, log, g, start, stop, method, destructor, constructor, special,
     increment, advance}
MCDeclContext == MCContext \cup MCFunctionDecl

MCParent ==
    [c \in MCDeclContext |->
        CASE c = tu -> none
          [] c = g -> nsAgain
          [] c \in {start, nsLinked} -> ext
          [] c = stop -> nsLinked
          [] c = Rec -> ns
          [] c \in {method, increment, advance, Inner} -> Rec
          [] c = destructor -> Inner
          [] c = constructor -> Single
          [] c = special -> Special
          [] OTHER -> tu]
MCPrimary == [c \in MCContext |-> IF c \in {nsAgain, nsLinked} THEN ns ELSE c]
MCKind ==
    [c \in MCDeclContext |->
        CASE c = tu -> "TranslationUnit"
          [] c \in {ns, nsAgain, nsLinked} -> "Namespace"
          [] c = ext -> "LinkageSpec"
          [] c \in {Rec, Inner, Single} -> "CXXRecord"
          [] c = Special -> "ClassTemplateSpecialization"
          [] c \in {method, special, increment, advance} -> "CXXMethod"
          [] c = destructor -> "CXXDestructor"
          [] c = constructor -> "CXXConstructor"
          [] OTHER -> "Function"]
\* Names, in which only a redeclared context and an overload repeat.
MCIdentifier ==
    [c \in MCDeclContext |->
        CASE c \in {nsAgain, nsLinked} -> ns
          [] c = fOverload -> f
          [] OTHER -> c]
MCOperator ==
    [c \in MCFunctionDecl |-> IF c \in {increment, advance} THEN "PlusPlus" ELSE "None"]

Parameter(name, base) == [name |-> name, type |-> [base |-> base, const |-> FALSE]]

MCParameters ==
    [c \in MCFunctionDecl |->
        CASE c = f -> <<Parameter("x", int), Parameter(NoName, ptr)>>
          [] c = fOverload -> <<Parameter(NoName, ptr)>>
          [] c = log -> <<Parameter("level", int), Parameter(NoName, ptr)>>
          [] c = advance -> <<Parameter(NoName, int)>>
          [] OTHER -> <<>>]
MCVariadic == {log}

MCVarDecl == {counter, handler, table, obj}
MCVarForm ==
    [v \in MCVarDecl |->
        CASE v = counter -> "other"
          [] v = handler -> "function pointer"
          [] v = table -> "array"
          [] v = obj -> "record without default"]
MCVariableLists == {<<>>, <<counter, handler, table, obj>>}

MCFunctionLists ==
    {s \in BoundedSeq(Functions, MaxFunctions) : IsInjective(s)}
        \cup {<<f, g, log>>, <<destructor, log, method>>, <<method, f, constructor>>,
            <<method, increment, advance>>}

OrdinaryFunctions == MCFunctionDecl \ {special}
NamedFunctions == MCFunctionDecl \ {start, stop}

-----------------------------------------------------------------------------
\* The keys of the context map are translation units, namespaces and records,
\* as two comments in the fixture's functions say.
KeysAreClasses == \A k \in DOMAIN Map : Kind[k] \in ClassKind
=============================================================================
