------------------------------- MODULE CMocka -------------------------------
(***************************************************************************)
(* CMocka::run of CMocka.cpp.  A mock function checks its arguments,       *)
(* copies what a test gave for its output parameters through the local     *)
(* variable mock_ptr, and returns what the test gave.                      *)
(***************************************************************************)
EXTENDS OutputGenerator

CONSTANTS
    Pointee,            \* getPointeeType of a type: what kind it is, or "none"
    OutputParameters    \* an option of the configuration

vars == generatorVars

Init ==
    /\ InitContexts
    /\ InitGenerator
    /\ pc = "includes"

-----------------------------------------------------------------------------
WriteIncludeDirectives ==
    /\ pc = "includes"
    /\ out' = out \o <<Item({Framework}, {}), MacroItem>>
    /\ pc' = "globals"
    /\ UNCHANGED <<contextVars, VarDecls, AnyVariadic, next>>

WriteGlobals == WriteGlobalVariable \/ EndGlobalVariables("functions")

\* A pointer or reference to something that is no function, not void and not
\* const.
IsOutParam(type) == Pointee[type.base] = "other"

OutParams(f) == {i \in DOMAIN Parameters[f] : IsOutParam(Parameters[f][i].type)}

\* A slip: only the first parameter is looked at.
DeclaresMockPtrFirst(f) == OutputParameters /\ 1 \in OutParams(f)

\* The variable is declared if the function has an output parameter.
DeclaresMockPtr(f) == OutputParameters /\ OutParams(f) # {}

\* The names that the body gives to the parameters it checks and copies to.
Argument(f, i) ==
    LET name == Parameters[f][i].name
    IN  Local(f, IF name = NoName THEN ArgName(i) ELSE name)

\* The copies use mock_ptr, one for each output parameter.
CopyUses(f) ==
    IF OutputParameters
    THEN UNION {{Local(f, "mock_ptr"), Argument(f, i)} : i \in OutParams(f)} ELSE {}

FunctionItem(f) ==
    Item({Body(f)} \cup ParameterLocals(f)
             \cup IF DeclaresMockPtr(f) THEN {Local(f, "mock_ptr")} ELSE {},
         {Framework, Linkage} \cup {Argument(f, i) : i \in DOMAIN Parameters[f]}
             \cup CopyUses(f))

WriteFunction ==
    /\ pc = "functions" /\ next <= Len(FunctionDecls)
    /\ Write(FunctionItem(FunctionDecls[next]))
    /\ next' = next + 1
    /\ UNCHANGED <<contextVars, VarDecls, AnyVariadic, pc>>

Finish ==
    /\ pc = "functions" /\ next > Len(FunctionDecls)
    /\ pc' = "done"
    /\ UNCHANGED <<contextVars, VarDecls, AnyVariadic, next, out>>

Next ==
    \/ WriteIncludeDirectives \/ WriteGlobals \/ WriteFunction \/ Finish

\* The program is sequential and no step waits for anything outside it.
Spec == Init /\ [][Next]_vars /\ WF_vars(Next)
=============================================================================
