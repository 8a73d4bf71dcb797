---------------------------- MODULE ContextWalk ----------------------------
(***************************************************************************)
(* The recursion over the context map that GMock::writeMockClass and       *)
(* Raw::visit have in common.  A call looks its context up in the map with *)
(* operator[] and iterates over the entry, a DenseSet, whose order depends *)
(* on addresses: every order is considered.                                *)
(***************************************************************************)
EXTENDS OutputGenerator, SequencesExt

VARIABLE stack    \* the active calls that iterate over children

\* The contexts that the recursion descends into.
ClassKind == {"TranslationUnit", "Namespace", "CXXRecord"}

\* A function is of one of the kinds of functions; there are no calls of
\* deduction guides.
ASSUME KindAssumption == \A f \in FunctionDecl : Kind[f] \in FunctionKind

\* A new call.  Its lookup creates an entry for a context without one.
Frame(c) == [context |-> c, children |-> Children(c)]

\* The active call, and the stack once its loop has taken a child.
Active == stack[Len(stack)]
WithoutChild(c) == [stack EXCEPT ![Len(stack)].children = @ \ {c}]

InClass == pc = "class" /\ stack # <<>>

\* The first call, for the translation unit, once the map is complete.
StartWalk ==
    /\ pc = "map" /\ Built
    /\ Map' = LookedUp(TranslationUnit)
    /\ stack' = <<Frame(TranslationUnit)>>
    /\ pc' = "class"
    /\ UNCHANGED <<lists, index, child, parent, next>>

\* The call for a child that is a namespace or a record.
Enter(c) ==
    /\ c \in Active.children /\ Kind[c] \in ClassKind
    /\ Map' = LookedUp(c)
    /\ stack' = Append(WithoutChild(c), Frame(c))
    /\ UNCHANGED <<lists, index, child, parent, pc, next>>

\* The call for any other child, which returns at once.
Visit(c) ==
    /\ c \in Active.children /\ Kind[c] \notin ClassKind
    /\ stack' = WithoutChild(c)
    /\ UNCHANGED <<contextVars, VarDecls, AnyVariadic, pc, next>>

\* A call's loop is over.
Leave ==
    /\ InClass /\ Active.children = {}
    /\ stack' = Front(stack)
    /\ UNCHANGED <<contextVars, VarDecls, AnyVariadic, pc, next>>

-----------------------------------------------------------------------------
\* A call keeps a reference into the map while it recurses: no call below
\* creates an entry, which would move the set it iterates over.
RecursionCreatesNothing ==
    pc = "class" =>
        \A i \in DOMAIN stack : \A c \in stack[i].children :
            Kind[c] \in ClassKind => c \in DOMAIN Map
=============================================================================
