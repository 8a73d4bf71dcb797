---------------------------- MODULE OutputWriter ----------------------------
(***************************************************************************)
(* OutputWriter.cpp, as far as other parts of the generated file depend on *)
(* it: the names of mock methods and the names and types of parameters.    *)
(* A type is its base, which is a clang::Type and has no qualifiers, and   *)
(* whether it is const itself.  How a type is spelled is left out.         *)
(***************************************************************************)
EXTENDS Contexts, TLC

CONSTANTS
    Identifier,    \* NamedDecl::getName, of functions and contexts; for a
                   \* context without a name what the memory read holds
    Operator,      \* getOverloadedOperator, "None" for other functions
    Parameters,    \* the parameters of a function: their names and types
    Variadic       \* functions declared with an ellipsis

\* Declarations of one entity have one name.
ASSUME NameAssumption == \A c \in Context : Identifier[Primary[c]] = Identifier[c]

\* The parameters of a function form a list.
ASSUME ParameterAssumption ==
    \A f \in FunctionDecl :
        Len(Parameters[f]) \in Nat /\ DOMAIN Parameters[f] = 1 .. Len(Parameters[f])

\* The name of a parameter that has none.
NoName == ""

\* The kinds of declarations that are functions.
FunctionKind ==
    {"Function", "CXXMethod", "CXXConstructor", "CXXDestructor", "CXXConversion"}

\* The part of a mock method's name that stands for an operator.  co_await
\* has none.
OperatorName ==
    [Plus |-> "op_plus", Minus |-> "op_minus", Star |-> "op_star",
     Slash |-> "op_slash", Percent |-> "op_percent", Caret |-> "op_caret",
     Amp |-> "op_amp", Pipe |-> "op_pipe", Tilde |-> "op_tilde",
     Exclaim |-> "op_exclaim", Equal |-> "op_equal", Less |-> "op_less",
     Greater |-> "op_greater", PlusEqual |-> "op_plus_equal",
     MinusEqual |-> "op_minus_equal", StarEqual |-> "op_star_equal",
     SlashEqual |-> "op_slash_equal", PercentEqual |-> "op_percent_equal",
     CaretEqual |-> "op_caret_equal", AmpEqual |-> "op_amp_equal",
     PipeEqual |-> "op_pipe_equal", LessLess |-> "op_less_less",
     GreaterGreater |-> "op_greater_greater",
     LessLessEqual |-> "op_less_less_equal",
     GreaterGreaterEqual |-> "op_greater_greater_equal",
     EqualEqual |-> "op_equal_equal", ExclaimEqual |-> "op_exclaim_equal",
     LessEqual |-> "op_less_equal", GreaterEqual |-> "op_greater_equal",
     Spaceship |-> "op_spaceship", AmpAmp |-> "op_amp_amp",
     PipePipe |-> "op_pipe_pipe", PlusPlus |-> "op_plus_plus",
     MinusMinus |-> "op_minus_minus", Comma |-> "op_comma",
     ArrowStar |-> "op_arrow_star", Arrow |-> "op_arrow", Call |-> "op_call",
     Subscript |-> "op_subscript", New |-> "op_new", Delete |-> "op_delete",
     Array_New |-> "op_array_new", Array_Delete |-> "op_array_delete"]

\* writeMockName.  Conversions are not implemented.
MockName(f) ==
    CASE Kind[f] = "CXXConstructor" -> "constructor"
      [] Kind[f] = "CXXDestructor" -> "destructor"
      [] Kind[f] = "CXXConversion" -> ""
      [] OTHER -> IF Operator[f] = "None" THEN Identifier[f]
                  ELSE OperatorName[Operator[f]]

\* The name made up for a parameter without one.
ArgName(i) == "arg" \o ToString(i)

\* The names in the parameter list of a function's definition.
ParameterName(f, i) ==
    LET name == Parameters[f][i].name IN IF name = NoName THEN ArgName(i) ELSE name

ParameterNames(f) == {ParameterName(f, i) : i \in DOMAIN Parameters[f]}

ParameterTypes(f) == [i \in DOMAIN Parameters[f] |-> Parameters[f][i].type.base]

\* An empty list is written at once, before a look at the ellipsis.
HasVaList(f) == f \in Variadic /\ Parameters[f] # <<>>

\* A slip: the parameters are left out.
SignatureByName(f) == <<MockName(f), <<>>, FALSE>>

\* What tells the mock methods of a class apart: the name, the types of the
\* parameters, whose own const does not count, and a last va_list.
\* MOCK_METHOD is written without the qualifiers of the function.
Signature(f) == <<MockName(f), ParameterTypes(f), HasVaList(f)>>
=============================================================================
