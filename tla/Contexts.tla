------------------------------ MODULE Contexts ------------------------------
(***************************************************************************)
(* createContextMap of OutputGenerator.hpp: from every collected function  *)
(* it climbs to the translation unit and records each declaration context  *)
(* on the way as a child of the next.  The class tree and the mock         *)
(* pointers of the GMock backend are read off this map.                    *)
(*                                                                         *)
(* A namespace or record may have several declarations; they share one     *)
(* primary context, which is the one the map holds.                        *)
(***************************************************************************)
EXTENDS Integers, Sequences, Functions

CONSTANTS
    FunctionDecl,      \* function declarations
    Context,           \* the contexts declarations stand in
    TranslationUnit,   \* the outermost context
    NoContext,         \* the null context pointer
    Parent,            \* DeclContext::getParent
    Primary,           \* DeclContext::getPrimaryContext
    Kind,              \* Decl::getDeclKind
    FunctionLists      \* the lists of collected functions considered

DeclContext == Context \cup FunctionDecl

ASSUME ContextAssumption ==
    /\ NoContext \notin DeclContext
    /\ Context \cap FunctionDecl = {}
    /\ TranslationUnit \in Context
    /\ Parent \in [DeclContext -> Context \cup {NoContext}]
    /\ \A c \in DeclContext : Parent[c] = NoContext <=> c = TranslationUnit

\* Declarations of one entity have one primary context.  A function, as a
\* context, is its own.
ASSUME PrimaryAssumption ==
    /\ Primary \in [Context -> Context]
    /\ Primary[TranslationUnit] = TranslationUnit
    /\ \A c \in Context : Primary[Primary[c]] = Primary[c]

\* Contexts that are no NamedDecl: they group declarations of the context
\* around them.
IsUnnamed(c) == c # TranslationUnit /\ Kind[c] \in {"LinkageSpec", "Export"}

\* They stand in one entity, too, unless one of them is in a group of its own,
\* as a namespace that is reopened inside extern "C++".  Only the translation
\* unit is one with itself.
ASSUME RedeclarationAssumption ==
    \A c \in Context \ {TranslationUnit} :
        /\ Primary[c] # TranslationUnit
        /\ \/ IsUnnamed(Parent[c]) \/ IsUnnamed(Parent[Primary[c]])
           \/ Primary[Parent[Primary[c]]] = Primary[Parent[c]]

\* The contexts form a tree: no context is inside itself, nor inside an entity
\* that is inside it.
ASSUME TreeAssumption ==
    \A S \in SUBSET Context : S # {} =>
        \E c \in S :
            Parent[c] \notin S /\ (c # TranslationUnit => Primary[Parent[c]] \notin S)

ASSUME ListAssumption == FunctionLists \subseteq Seq(FunctionDecl)

VARIABLES
    FunctionDecls,   \* getFunctionDecls(): the input
    index,           \* the function that is next
    child,           \* Context: the context to be recorded as a child
    parent,          \* Parent: the context to record it under, or NoContext
    Map              \* from contexts to the sets of their children

contextVars == <<FunctionDecls, index, child, parent, Map>>

InitContexts ==
    /\ FunctionDecls \in FunctionLists
    /\ index = 1
    /\ child = NoContext /\ parent = NoContext
    /\ Map = [c \in {} |-> {}]

\* Map[k], which creates an empty entry for a new key.
Children(k) == IF k \in DOMAIN Map THEN Map[k] ELSE {}

\* Map[k].insert(c)
Inserted(k, c) ==
    [x \in DOMAIN Map \cup {k} |-> Children(x) \cup IF x = k THEN {c} ELSE {}]

\* A slip: the lookup does not create an entry.
LookedUpOnly(k) == Map

\* The map after a lookup of k.
LookedUp(k) == [x \in DOMAIN Map \cup {k} |-> Children(x)]

NextFunction ==
    /\ parent = NoContext /\ index <= Len(FunctionDecls)
    /\ child' = FunctionDecls[index]
    /\ parent' = Parent[FunctionDecls[index]]
    /\ index' = index + 1
    /\ UNCHANGED <<FunctionDecls, Map>>

\* A slip: contexts are recorded as they were declared.
ClimbDeclared ==
    /\ parent # NoContext
    /\ Map' = Inserted(parent, child)
    /\ child' = parent
    /\ parent' = Parent[parent]
    /\ UNCHANGED <<FunctionDecls, index>>

\* A slip: a key is a primary context, a child is not.
ClimbHalfDeclared ==
    /\ parent # NoContext
    /\ Map' = Inserted(Primary[parent], child)
    /\ child' = parent
    /\ parent' = Parent[parent]
    /\ UNCHANGED <<FunctionDecls, index>>

\* A slip: climbing ends below the translation unit.
ClimbTooLow ==
    /\ parent # NoContext
    /\ Map' = Inserted(Primary[parent], child)
    /\ child' = Primary[parent]
    /\ parent' = LET up == Parent[Primary[parent]]
                 IN  IF up = TranslationUnit THEN NoContext ELSE up
    /\ UNCHANGED <<FunctionDecls, index>>

\* A slip: the parent of the parent is forgotten.
ClimbInPlace ==
    /\ parent # NoContext
    /\ Map' = Inserted(Primary[parent], child)
    /\ child' = Primary[parent]
    /\ parent' = Primary[parent]
    /\ UNCHANGED <<FunctionDecls, index>>

Climb ==
    /\ parent # NoContext
    /\ Map' = Inserted(Primary[parent], child)
    /\ child' = Primary[parent]
    /\ parent' = Parent[Primary[parent]]
    /\ UNCHANGED <<FunctionDecls, index>>

Built == parent = NoContext /\ index > Len(FunctionDecls)

CreateContextMap == NextFunction \/ Climb

-----------------------------------------------------------------------------
(***************************************************************************)
(* Properties.                                                             *)
(***************************************************************************)
ContextsTypeOK ==
    /\ FunctionDecls \in FunctionLists
    /\ index \in Nat \ {0}
    /\ parent \in Context \cup {NoContext}
    /\ child \in DeclContext \/ (child = NoContext /\ parent = NoContext)
    /\ DOMAIN Map \subseteq Context
    /\ \A k \in DOMAIN Map : Map[k] \subseteq DeclContext

\* The context a declaration is a child of.
PrimaryParent(c) == Primary[Parent[c]]

\* The finished map holds every collected function and, for each context with
\* children, the chain of contexts up to the translation unit, under exactly
\* one parent each, and nothing else.
MapExact ==
    Built =>
        /\ \A f \in Range(FunctionDecls) :
              PrimaryParent(f) \in DOMAIN Map /\ f \in Map[PrimaryParent(f)]
        /\ \A k \in DOMAIN Map \ {TranslationUnit} :
              PrimaryParent(k) \in DOMAIN Map /\ k \in Map[PrimaryParent(k)]
        /\ \A k \in DOMAIN Map : \A c \in Map[k] :
              /\ c \in DOMAIN Map \cup Range(FunctionDecls)
              /\ k = PrimaryParent(c)
=============================================================================
