---------------------------- MODULE MCGeneration ----------------------------
(***************************************************************************)
(* A few translation units for the whole generator.  The C ones have       *)
(* function pointers as parameters, in several functions and with a        *)
(* typedef of the source, and variables of each form; the C++ ones have    *)
(* records of each kind with members of each access, in a namespace, in    *)
(* another record and on their own, and a linkage specification.           *)
(***************************************************************************)
EXTENDS Generation

CONSTANTS
    none,                                    \* no declaration, no context
    tu, ns, Rec, Inner, Single, Union, ext,  \* contexts
    sort, each, visitAll, log, bad,          \* functions of C
    pub, priv, ctor, dtor, inner, prot, member, free, start,   \* functions of C++
    counter, handler, table, obj,            \* variables
    int, ptr, constPtr, compare, act, act_t, \* types
    anyS                                     \* the pattern s*

MCContext == {tu, ns, Rec, Inner, Single, Union, ext}
CFunction == {sort, each, visitAll, log, bad}
CXXFunction == {pub, priv, ctor, dtor, inner, prot, member, free, start}
MCFunctionDecl == CFunction \cup CXXFunction
MCVarDecl == {counter, handler, table, obj}
MCDecl == MCFunctionDecl \cup MCVarDecl

MCParent ==
    [c \in MCContext \cup MCFunctionDecl |->
        CASE c = tu -> none
          [] c \in {Rec, free} -> ns
          [] c \in {pub, priv, ctor, dtor, Inner} -> Rec
          [] c = inner -> Inner
          [] c = prot -> Single
          [] c = member -> Union
          [] c = start -> ext
          [] OTHER -> tu]
MCPrimary == [c \in MCContext |-> c]
MCKind ==
    [c \in MCContext \cup MCFunctionDecl |->
        CASE c = tu -> "TranslationUnit"
          [] c = ns -> "Namespace"
          [] c = ext -> "LinkageSpec"
          [] c \in MCContext -> "CXXRecord"
          [] c \in {pub, priv, inner, prot, member} -> "CXXMethod"
          [] c = ctor -> "CXXConstructor"
          [] c = dtor -> "CXXDestructor"
          [] OTHER -> "Function"]
MCIdentifier == [c \in MCContext \cup MCFunctionDecl |-> c]
MCOperator == [f \in MCFunctionDecl |-> "None"]
MCAccess ==
    [f \in MCFunctionDecl |->
        CASE f \in {pub, ctor, dtor, inner, member} -> "public"
          [] f = priv -> "private"
          [] f = prot -> "protected"
          [] OTHER -> "none"]
MCTagKind ==
    [c \in {Rec, Inner, Single, Union} |->
        CASE c = Single -> "struct" [] c = Union -> "union" [] OTHER -> "class"]

Parameter(name, base, const) ==
    [name |-> name, type |-> [base |-> base, const |-> const]]

\* sort and each share a type; visitAll has its own and one with a typedef.
MCParameters ==
    [f \in MCFunctionDecl |->
        CASE f = sort -> <<Parameter("base", ptr, FALSE), Parameter(NoName, compare, FALSE)>>
          [] f = each -> <<Parameter("less", compare, TRUE), Parameter(NoName, ptr, FALSE)>>
          [] f = visitAll ->
                <<Parameter(NoName, compare, FALSE), Parameter("a", act, FALSE),
                  Parameter(NoName, act_t, FALSE)>>
          [] f = log -> <<Parameter("level", int, TRUE), Parameter(NoName, constPtr, FALSE)>>
          [] f = priv -> <<Parameter(NoName, int, FALSE)>>
          [] OTHER -> <<>>]
MCPointee ==
    [t \in {int, ptr, constPtr, compare, act, act_t} |->
        CASE t = int -> "none"
          [] t = ptr -> "other"
          [] t = constPtr -> "const"
          [] OTHER -> "function"]
MCVariadic == {log, bad}
MCVarForm ==
    [v \in MCVarDecl |->
        CASE v = counter -> "other"
          [] v = handler -> "function pointer"
          [] v = table -> "array"
          [] v = obj -> "record without default"]

\* The lists are empty when the generator is created.
MCNoLists == {<<>>}

-----------------------------------------------------------------------------
(***************************************************************************)
(* What the visitor looks at.                                              *)
(***************************************************************************)
MCName == MCDecl
MCNameOf == [d \in MCDecl |-> d]
MCCtorsOf == [v \in MCVarDecl |-> IF v = obj THEN <<ctor>> ELSE <<>>]
MCDtorOf == [c \in {ctor} |-> dtor]
MCPattern == {anyS, "operator[]"}
MCMalformed == {"operator[]"}
MCGlob == [p \in {anyS} |-> {sort}]

CallOf(f) == [kind |-> "call", decl |-> f, inMainFile |-> TRUE]
Ref(v) == [kind |-> "declref", decl |-> v, inMainFile |-> TRUE]
Construct == [kind |-> "construct", decl |-> ctor, inMainFile |-> TRUE]

CUnits ==
    {<<>>,
     <<CallOf(sort), CallOf(each), Ref(counter), CallOf(sort)>>,
     <<CallOf(visitAll), CallOf(each), CallOf(sort), Ref(handler)>>,
     <<Ref(table), CallOf(log), Ref(counter)>>,
     <<CallOf(log), CallOf(bad)>>}
CXXUnits ==
    {<<CallOf(pub), CallOf(priv), CallOf(prot), CallOf(free)>>,
     <<Construct, CallOf(inner), CallOf(priv)>>,
     <<Ref(obj), CallOf(member), CallOf(start), CallOf(prot)>>}

\* The backend that iterates over the whole map several times, in every order,
\* gets fewer contexts; the run GMock has them all.
GMockUnits ==
    CUnits \cup {<<CallOf(pub), CallOf(free)>>, <<Construct, Ref(obj), CallOf(sort)>>,
                  <<CallOf(start), CallOf(sort)>>}

MCTranslationUnits == CUnits \cup CXXUnits \cup GMockUnits
MCUnitsFor ==
    [gmock |-> GMockUnits, raw |-> CXXUnits \cup CUnits, fff |-> CUnits, cmocka |-> CUnits]

MCConfigurations ==
    [Blacklist : {<<>>, <<anyS, counter>>, <<priv, "operator[]">>},
     MockBuiltins : {FALSE}, MockCStdLib : {FALSE}, MockCXXStdLib : {FALSE},
     MockVariadicFunctions : BOOLEAN]
=============================================================================
