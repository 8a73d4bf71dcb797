-------------------------------- MODULE Raw --------------------------------
(***************************************************************************)
(* Raw::run of Raw.cpp: the declarations of the collected functions in     *)
(* their namespaces and records.  An access specifier is written when the  *)
(* access of a function differs from the one remembered in CurrentAccess,  *)
(* which is a single variable for all records.                             *)
(***************************************************************************)
EXTENDS ContextWalk

CONSTANTS
    Access,     \* FunctionDecl::getAccess
    TagKind     \* "class", "struct" or "union" for a record

VARIABLES
    CurrentAccess,    \* the specifier written last
    scopes            \* per active call, the access a C++ compiler gives to
                      \* the member that is declared next; not in the code

vars == <<generatorVars, stack, CurrentAccess, scopes>>

Opened(c) == <<"open", c>>
Declaration(f) == <<"declaration", f>>

\* The function is declared where the access in effect is a.
Granted(f, a) == <<"access", f, a>>

InitRaw == CurrentAccess = "none" /\ scopes = <<>>

Init ==
    /\ InitContexts
    /\ InitGenerator
    /\ InitRaw
    /\ pc = "map" /\ stack = <<>>

-----------------------------------------------------------------------------
MapStep ==
    /\ pc = "map"
    /\ CreateContextMap
    /\ UNCHANGED <<VarDecls, AnyVariadic, pc, next, out, stack, CurrentAccess, scopes>>

VisitTranslationUnit ==
    /\ StartWalk
    /\ scopes' = <<"none">>
    /\ Write(Item({Opened(TranslationUnit)}, {}))
    /\ UNCHANGED CurrentAccess

\* The access of the first member of a record, as the language has it.
InitialAccess(c) ==
    IF Kind[c] # "CXXRecord" THEN "none"
    ELSE IF TagKind[c] = "class" THEN "private" ELSE "public"

VisitContext ==
    /\ InClass
    /\ \E c \in Active.children :
        /\ Enter(c)
        /\ scopes' = Append(scopes, InitialAccess(c))
        /\ Write(Item({Opened(c)}, {Opened(Active.context)}))
    /\ UNCHANGED CurrentAccess

\* The access in effect behind the specifier that is written for f, if any.
InEffect(f) ==
    IF Access[f] # CurrentAccess /\ Access[f] # "none" THEN Access[f] ELSE Last(scopes)

VisitFunction ==
    /\ InClass
    /\ \E f \in Active.children :
        /\ Visit(f) /\ Kind[f] \in FunctionKind
        /\ Write(Item({Declaration(f), Granted(f, InEffect(f))}, {Opened(Active.context)}))
        /\ scopes' = Front(scopes) \o <<InEffect(f)>>
        /\ CurrentAccess' = Access[f]

\* Contexts of other kinds are passed over.
VisitOther ==
    /\ InClass
    /\ \E c \in Active.children : Visit(c) /\ Kind[c] \notin FunctionKind
    /\ UNCHANGED <<out, CurrentAccess, scopes>>

\* A slip: the access is remembered across records.
AccessAfterNever(c) == CurrentAccess

\* A record forgets the access; a namespace does not.
AccessAfter(c) == IF Kind[c] = "CXXRecord" THEN "none" ELSE CurrentAccess

CloseContext ==
    /\ Leave
    /\ CurrentAccess' = AccessAfter(Active.context)
    /\ scopes' = Front(scopes)
    /\ UNCHANGED out

Finish ==
    /\ pc = "class" /\ stack = <<>>
    /\ pc' = "done"
    /\ UNCHANGED <<contextVars, VarDecls, AnyVariadic, next, out, stack>>
    /\ UNCHANGED <<CurrentAccess, scopes>>

Next ==
    \/ MapStep \/ VisitTranslationUnit \/ VisitContext \/ VisitFunction
    \/ VisitOther \/ CloseContext \/ Finish

\* The program is sequential and no step waits for anything outside it.
Spec == Init /\ [][Next]_vars /\ WF_vars(Next)

-----------------------------------------------------------------------------
(***************************************************************************)
(* What clang guarantees of the constants.                                 *)
(***************************************************************************)
\* A function is not a context; a namespace does not stand in a record.  A
\* member of a record is one in each of its declarations.
ContextKinds ==
    \A c \in Context :
        /\ Kind[Primary[c]] = Kind[c] /\ Kind[c] \notin FunctionKind
        /\ Kind[c] = "TranslationUnit" <=> c = TranslationUnit
        /\ Kind[c] = "Namespace" => Kind[Parent[c]] # "CXXRecord"
        /\ c # TranslationUnit =>
              (Kind[Parent[Primary[c]]] = "CXXRecord" <=> Kind[Parent[c]] = "CXXRecord")

\* Members of a record have an access, other functions have none.
AccessOfMembers ==
    \A f \in FunctionDecl :
        /\ Access[f] \in {"none", "private", "protected", "public"}
        /\ Kind[Parent[f]] \in {"TranslationUnit", "Namespace"} => Access[f] = "none"
        /\ Kind[Parent[f]] = "CXXRecord" => Access[f] # "none"

-----------------------------------------------------------------------------
(***************************************************************************)
(* Properties.                                                             *)
(***************************************************************************)
\* The walk comes to an entry of the map unless one around it is of another
\* kind, such as a linkage specification.
Walked[c \in Context] ==
    Kind[c] \in ClassKind /\ (c = TranslationUnit \/ Walked[PrimaryParent(c)])

\* A member of a record that stands in a record.
Nested(f) == Kind[Parent[f]] = "CXXRecord" /\ Kind[Parent[Parent[f]]] = "CXXRecord"

\* Read by a compiler, the output gives every function the access it has in
\* the source, in whichever order the members are visited.  Members of nested
\* records are excepted: CurrentAccess still has the outer record's specifier
\* when the first of them is written.
AccessFaithful ==
    \A f \in Range(FunctionDecls) : \A a \in {"none", "private", "protected", "public"} :
        Granted(f, a) \in Declared /\ ~Nested(f) => a = Access[f]
=============================================================================
