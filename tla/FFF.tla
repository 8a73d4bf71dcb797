-------------------------------- MODULE FFF --------------------------------
(***************************************************************************)
(* FFF::run of FFF.cpp.  The macros of the Fake Function Framework take    *)
(* the type of each parameter as an argument and declare a variable by     *)
(* putting a name behind it, which is wrong for a function pointer: such a *)
(* type gets a typedef first, once for all functions that share it.        *)
(***************************************************************************)
EXTENDS OutputGenerator

CONSTANTS
    Pointee,        \* getPointeeType of a type: what kind it is, or "none"
    TypedefName,    \* types that are written as the name of a typedef
    Settings        \* the macros that options of the configuration define

VARIABLES
    parm,           \* the parameter that is next in writeTypedefs
    TypedefMap      \* from types to the names of their typedefs

vars == <<generatorVars, parm, TypedefMap>>

\* createTypedefName: <function>_fn<position>_t
Typedef(f, i) == <<"typedef", Identifier[f], i>>
Setting(s) == <<"setting", s>>
Listed(f) == <<"FFF_FAKE_LIST", f>>

\* What a fake has for a parameter: the name of a typedef, or a type.
Printed(f, i, text) == <<"parameter", f, i, text>>

IsFunctionPointer(type) == Pointee[type.base] = "function"

InitFFF == parm = 1 /\ TypedefMap = [base \in {} |-> <<>>]

Init ==
    /\ InitContexts
    /\ InitGenerator
    /\ InitFFF
    /\ pc = "settings"

-----------------------------------------------------------------------------
\* A slip: fff.h is included before the macros it looks at are defined.
PreambleUnset ==
    <<Item({Framework}, {Setting(s) : s \in Settings}),
      Item({Setting(s) : s \in Settings}, {})>>

\* writeSettings, writeIncludeDirectives: fff.h looks at the settings.
Preamble ==
    <<Item({Setting(s) : s \in Settings}, {}),
      Item({Framework}, {Setting(s) : s \in Settings})>>

WriteSettings ==
    /\ pc = "settings"
    /\ out' = out \o Preamble
    /\ pc' = "list"
    /\ UNCHANGED <<contextVars, VarDecls, AnyVariadic, next, parm, TypedefMap>>

\* writeMacros: the fakes that the tests can reset with one macro.
WriteListEntry ==
    /\ pc = "list" /\ next <= Len(FunctionDecls)
    /\ Write(Item({Listed(FunctionDecls[next])}, {}))
    /\ next' = next + 1
    /\ UNCHANGED <<contextVars, VarDecls, AnyVariadic, pc, parm, TypedefMap>>

EndLoop(from, to) ==
    /\ pc = from /\ next > Len(FunctionDecls)
    /\ pc' = to
    /\ next' = 1
    /\ UNCHANGED <<contextVars, VarDecls, AnyVariadic, out, parm, TypedefMap>>

\* The parameter that writeTypedefs looks at.
AtParameter ==
    /\ pc = "typedefs" /\ next <= Len(FunctionDecls)
    /\ parm <= Len(Parameters[FunctionDecls[next]])

ParameterType == Parameters[FunctionDecls[next]][parm].type

NeedsTypedef(type) ==
    /\ IsFunctionPointer(type)
    /\ type.base \notin TypedefName
    /\ type.base \notin DOMAIN TypedefMap

\* TypedefMap_.insert, which cannot fail: count has just missed the type.
Stored(base, name) ==
    [b \in DOMAIN TypedefMap \cup {base} |-> IF b = base THEN name ELSE TypedefMap[b]]

\* A slip: the first typedef of a function is its only one.
ParameterAfterLast == parm' = Len(Parameters[FunctionDecls[next]]) + 1

ParameterAfter == parm' = parm + 1

SkipParameter ==
    /\ AtParameter /\ ~NeedsTypedef(ParameterType)
    /\ parm' = parm + 1
    /\ UNCHANGED <<generatorVars, TypedefMap>>

\* The typedef is stored without the const of this parameter and written with
\* it.
CreateTypedef ==
    /\ AtParameter /\ NeedsTypedef(ParameterType)
    /\ LET name == Typedef(FunctionDecls[next], parm)
       IN  /\ TypedefMap' = Stored(ParameterType.base, name)
           /\ Write(Item({name}, {}))
    /\ ParameterAfter
    /\ UNCHANGED <<contextVars, VarDecls, AnyVariadic, pc, next>>

EndParameters ==
    /\ pc = "typedefs" /\ next <= Len(FunctionDecls)
    /\ parm > Len(Parameters[FunctionDecls[next]])
    /\ next' = next + 1
    /\ parm' = 1
    /\ UNCHANGED <<contextVars, VarDecls, AnyVariadic, pc, out, TypedefMap>>

-----------------------------------------------------------------------------
\* A slip: a typedef is named after the parameter it is used for.
PrintedTypeByName(f, i) ==
    LET type == Parameters[f][i].type
    IN  IF type.base \in DOMAIN TypedefMap THEN Typedef(f, i)
        ELSE <<"type", type.base>>

\* What writeMocks has for a parameter.  A type without a typedef is written
\* without its const.
PrintedType(f, i) ==
    LET type == Parameters[f][i].type
    IN  IF type.base \in DOMAIN TypedefMap THEN TypedefMap[type.base]
        ELSE <<"type", type.base>>

IsTypedef(text) == text[1] = "typedef"

FakeItem(f) ==
    LET printed == {PrintedType(f, i) : i \in DOMAIN Parameters[f]}
    IN  Item({Body(f)} \cup {Printed(f, i, PrintedType(f, i)) : i \in DOMAIN Parameters[f]},
             {Framework} \cup {text \in printed : IsTypedef(text)})

WriteFake ==
    /\ pc = "fakes" /\ next <= Len(FunctionDecls)
    /\ Write(FakeItem(FunctionDecls[next]))
    /\ next' = next + 1
    /\ UNCHANGED <<contextVars, VarDecls, AnyVariadic, pc, parm, TypedefMap>>

WriteGlobals ==
    /\ WriteGlobalVariable \/ EndGlobalVariables("done")
    /\ UNCHANGED <<parm, TypedefMap>>

Next ==
    \/ WriteSettings \/ WriteListEntry \/ EndLoop("list", "typedefs")
    \/ SkipParameter \/ CreateTypedef \/ EndParameters
    \/ EndLoop("typedefs", "fakes")
    \/ WriteFake \/ EndLoop("fakes", "globals") \/ WriteGlobals

\* The program is sequential and no step waits for anything outside it.
Spec == Init /\ [][Next]_vars /\ WF_vars(Next)

-----------------------------------------------------------------------------
(***************************************************************************)
(* Properties.                                                             *)
(***************************************************************************)
\* The declaration writes out a type that the macros cannot take.
SpelledOut(type) == IsFunctionPointer(type) /\ type.base \notin TypedefName

\* In a fake, a parameter whose declaration spells out a function pointer has
\* the name of a typedef in its place, and that typedef was made from a
\* parameter of the same type, whichever function it came with.
FunctionPointersNamed ==
    \A n \in DOMAIN out : \A symbol \in out[n].declares :
        symbol[1] = "parameter" /\ SpelledOut(Parameters[symbol[2]][symbol[3]].type) =>
            \E g \in Range(FunctionDecls) : \E j \in DOMAIN Parameters[g] :
                /\ symbol[4] = Typedef(g, j)
                /\ Parameters[g][j].type.base = Parameters[symbol[2]][symbol[3]].type.base
=============================================================================
