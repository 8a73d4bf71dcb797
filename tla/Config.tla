------------------------------- MODULE Config -------------------------------
(***************************************************************************)
(* The configuration of Config.hpp and Config.cpp, and the ways it takes   *)
(* its values: the constructors' defaults, YAML files that are read one    *)
(* over the other, and the command line.                                   *)
(*                                                                         *)
(* A configuration maps every option to its value.  A document is what a   *)
(* file holds: the options it mentions, with their values.  A path is      *)
(* empty, <<name>> (relative) or <<directory, name>> (absolute).           *)
(***************************************************************************)
EXTENDS Integers, Sequences

CONSTANTS
    Directory,        \* directories that exist
    Text,             \* std::string
    MarkedName,       \* names that contain an underscore
    IndexWidth        \* bits of an unsigned int

\* The number of values is a positive number, which the provers cannot derive.
ASSUME WidthAssumption ==
    IndexWidth \in Nat \ {0} /\ 2 ^ IndexWidth \in Nat \ {0}

\* Options whose value is a sequence of strings.
List == {"ExtraArguments", "RemoveArguments", "Blacklist"}

\* Options the command line sets if it gives a value that is not empty.
SetByValue == {"ResourceDirectory", "BaseDirectory", "Input", "Output"}

\* Options the command line sets whatever the value is.
SetByOccurrence ==
    {"Backend", "CompileCommandIndex", "CompileCommands", "Verbose", "Quiet"}

CommandLineOption == List \cup SetByValue \cup SetByOccurrence

GMockDefault ==
    [MockType |-> "StrictMock", ClassName |-> "ccmock_",
     GlobalNamespaceName |-> "_", TestFixtureName |-> "CCMockFixture",
     WriteMain |-> TRUE]

FFFDefault ==
    [CallingConvention |-> "", GCCFunctionAttributes |-> "",
     ArgHistoryLen |-> -1, CallHistoryLen |-> -1]

CMockaDefault == [OutputParameters |-> TRUE, StrictMocks |-> TRUE]

MockingDefault ==
    [Blacklist |-> <<>>, Backend |-> "gmock", MockBuiltins |-> FALSE,
     MockCStdLib |-> FALSE, MockCXXStdLib |-> FALSE,
     MockVariadicFunctions |-> TRUE]

GeneralDefault ==
    [BaseDirectory |-> <<>>, Input |-> <<>>, Output |-> <<>>,
     ColorMode |-> "auto", Quiet |-> FALSE, Verbose |-> FALSE, WriteDate |-> TRUE]

ClangDefault ==
    [CompileCommands |-> <<>>, ExtraArguments |-> <<>>,
     RemoveArguments |-> <<>>, ResourceDirectory |-> <<>>,
     CompileCommandIndex |-> 0]

\* The sections' keys are distinct: the configuration is one flat record.
Section ==
    <<ClangDefault, GeneralDefault, MockingDefault, GMockDefault, FFFDefault,
      CMockaDefault>>

SectionKey(i) == DOMAIN Section[i]
Option == UNION {SectionKey(i) : i \in DOMAIN Section}
SectionOf(o) == CHOOSE i \in DOMAIN Section : o \in SectionKey(i)
Default == [o \in Option |-> Section[SectionOf(o)][o]]

\* The values that the members of Config have by their types.
Flag ==
    {"Verbose", "Quiet", "WriteDate", "WriteMain", "MockBuiltins", "MockCStdLib",
     "MockCXXStdLib", "MockVariadicFunctions", "OutputParameters", "StrictMocks"}

Values(o) ==
    CASE o \in List \cup SetByValue \cup {"CompileCommands"} -> Seq(Text)
      [] o = "CompileCommandIndex" -> 0 .. 2 ^ IndexWidth - 1
      [] o \in {"ArgHistoryLen", "CallHistoryLen"} -> Int
      [] o \in Flag -> BOOLEAN
      [] OTHER -> Text

\* What a file or the command line may give for an option.
Giveable(o) == IF o = "CompileCommandIndex" THEN Nat ELSE Values(o)

\* The strings that the program has itself.
ASSUME TextAssumption ==
    {"", ".", "auto", "gmock", "StrictMock", "ccmock_", "_", "CCMockFixture"} \subseteq Text

\* The name of the fixture is without an underscore by default.
ASSUME FixtureAssumption == Default["TestFixtureName"] \notin MarkedName

\* A slip: the enumeration lacks another backend.
BackendNameShort == {"gmock", "cmocka"}

\* The names the YAML enumerations know.  The backend raw is not one of them.
BackendName == {"gmock", "fff", "cmocka"}
ColorModeName == {"auto", "never", "always"}

\* The scalars of a document that their type's parser takes.
Scanned(o, value) ==
    CASE o = "Backend" -> value \in BackendName
      [] o = "ColorMode" -> value \in ColorModeName
      [] o = "CompileCommandIndex" -> value < 2 ^ IndexWidth
      [] OTHER -> TRUE

\* A document is refused for a key of no section and for such a scalar.
Parses(document) ==
    /\ DOMAIN document \subseteq Option
    /\ \A o \in DOMAIN document : Scanned(o, document[o])

\* A slip: nothing is validated.
ValidNever(config) == TRUE

\* validate() of the three sections that have one.
Valid(config) ==
    /\ config["ResourceDirectory"] \in {<<>>} \cup Directory
    /\ config["TestFixtureName"] \notin MarkedName
    /\ config["MockType"] \in {"NaggyMock", "NiceMock", "StrictMock"}

\* YAML input writes the elements of a list into those that are there, and
\* appends the ones beyond.
Overlay(old, new) == new \o SubSeq(old, Len(new) + 1, Len(old))

\* A slip: the first file to mention an option decides.
ReadBelow(config, document) ==
    [o \in Option |->
        IF o \in DOMAIN document /\ config[o] = Default[o]
        THEN document[o] ELSE config[o]]

\* YamlInput >> *this: each option that the document mentions.
Read(config, document) ==
    [o \in Option |->
        IF o \notin DOMAIN document THEN config[o]
        ELSE IF o \in List THEN Overlay(config[o], document[o])
        ELSE document[o]]

\* YamlOutput << *this: an empty list is left out.  What is written for a value
\* that is no name of the enumeration is undefined: some text.
Written(config, text) ==
    [o \in {x \in Option : x \in List => config[x] # <<>>} |->
        IF Scanned(o, config[o]) THEN config[o] ELSE text]

-----------------------------------------------------------------------------
\* Whether the command line, a partial function from options to values, sets
\* an option.
Sets(cli, o) ==
    o \in DOMAIN cli /\ (o \in SetByValue => cli[o] # <<>>)

\* Config.hpp declares the index with fewer bits than the option has.
Assigned(o, value) ==
    IF o = "CompileCommandIndex" THEN value % 2 ^ IndexWidth ELSE value

\* The assignments of ccmock_main after the files are read.
Overridden(config, cli) ==
    [o \in Option |-> IF Sets(cli, o) THEN Assigned(o, cli[o]) ELSE config[o]]
=============================================================================
