-------------------------- MODULE OutputGenerator --------------------------
(***************************************************************************)
(* What the four backends inherit from OutputGenerator: the collected      *)
(* lists, the buffer they write to, the macro CCMOCK_LINKAGE and the       *)
(* definitions of the collected variables.                                 *)
(*                                                                         *)
(* The output is a sequence of items.  An item is a piece of text that     *)
(* belongs together, with the symbols that it declares and the symbols of  *)
(* the generated file that it uses.                                        *)
(***************************************************************************)
EXTENDS OutputWriter

CONSTANTS
    VarDecl,          \* variable declarations
    VariableLists,    \* the lists of collected variables considered
    VarForm           \* what the type of a variable is made of

ASSUME VariableAssumption ==
    /\ VarForm \in
          [VarDecl -> {"function pointer", "array", "record without default", "other"}]
    /\ VariableLists \subseteq Seq(VarDecl)

VARIABLES
    VarDecls,       \* getVarDecls(): an input
    AnyVariadic,    \* anyVariadic(): whether some function is variadic
    pc,             \* the part of the backend's run() being executed
    next,           \* the iteration of the current loop that is next
    out             \* the items written so far

lists == <<FunctionDecls, VarDecls, AnyVariadic>>
generatorVars == <<contextVars, VarDecls, AnyVariadic, pc, next, out>>

\* The state before the lists are known; run() starts at pc.
InitGenerator ==
    /\ VarDecls \in VariableLists
    /\ AnyVariadic = \E f \in Range(FunctionDecls) : f \in Variadic
    /\ next = 1 /\ out = <<>>

-----------------------------------------------------------------------------
Item(declares, uses) == [declares |-> declares, uses |-> uses]

Write(item) == out' = Append(out, item)

\* Symbols of a generated file that all backends may have.
VaList == <<"va_list">>
Linkage == <<"CCMOCK_LINKAGE">>
Framework == <<"framework">>
Body(f) == <<"body", f>>
Local(f, name) == <<"local", f, name>>
Variable(v) == <<"variable", v>>

\* The parameters that the definition of a function declares.
ParameterLocals(f) == {Local(f, name) : name \in ParameterNames(f)}

\* writeMacroDefinitions
MacroItem == Item({Linkage}, {})

\* A slip: an object of a class without a default constructor is defined.
UninstantiableNever(v) == FALSE

Uninstantiable(v) == VarForm[v] = "record without default"

\* The text of an array type goes before the name as a whole, which defines
\* no variable.
GlobalVariableItem(v) ==
    Item(IF VarForm[v] = "array" THEN {} ELSE {Variable(v)}, {})

\* One iteration of writeGlobalVariables.
WriteGlobalVariable ==
    /\ pc = "globals" /\ next <= Len(VarDecls)
    /\ IF Uninstantiable(VarDecls[next]) THEN UNCHANGED out
       ELSE Write(GlobalVariableItem(VarDecls[next]))
    /\ next' = next + 1
    /\ UNCHANGED <<contextVars, VarDecls, AnyVariadic, pc>>

\* writeGlobalVariables returns to run(), which goes on with p.
EndGlobalVariables(p) ==
    /\ pc = "globals" /\ next > Len(VarDecls)
    /\ pc' = p
    /\ next' = 1
    /\ UNCHANGED <<contextVars, VarDecls, AnyVariadic, out>>

-----------------------------------------------------------------------------
(***************************************************************************)
(* Properties.                                                             *)
(***************************************************************************)
DeclaredBy(n) == UNION {out[m].declares : m \in 1 .. n}
Declared == DeclaredBy(Len(out))

\* Members of a class may be used in its functions before they are declared;
\* everything else is declared first.
FixtureMember(symbol) == symbol[1] = "member"

\* Every class, mock method, pointer, macro, parameter and type that the
\* generated text uses is declared above it, although each part of a backend
\* derives the names on its own.
DeclaredBeforeUse ==
    \A n \in DOMAIN out : \A symbol \in out[n].uses :
        FixtureMember(symbol) \/ symbol \in DeclaredBy(n)

\* Nothing is declared or defined twice.
DeclaredOnce ==
    \A m, n \in DOMAIN out : m # n => out[m].declares \cap out[n].declares = {}
=============================================================================
