---------------------------- MODULE StartupProofs ----------------------------
(***************************************************************************)
(* Theorems about the start of the program, for every list of              *)
(* configuration files, command line, environment and database.            *)
(***************************************************************************)
EXTENDS Startup, WellFoundedInduction, TLAPS

-----------------------------------------------------------------------------
(***************************************************************************)
(* The options and their defaults.                                         *)
(***************************************************************************)
LEMMA Keys ==
    /\ DOMAIN Section = 1 .. 6
    /\ SectionKey(1) = {"CompileCommands", "ExtraArguments", "RemoveArguments",
                        "ResourceDirectory", "CompileCommandIndex"}
    /\ SectionKey(2) = {"BaseDirectory", "Input", "Output", "ColorMode", "Quiet",
                        "Verbose", "WriteDate"}
    /\ SectionKey(3) = {"Blacklist", "Backend", "MockBuiltins", "MockCStdLib",
                        "MockCXXStdLib", "MockVariadicFunctions"}
    /\ SectionKey(4) = {"MockType", "ClassName", "GlobalNamespaceName",
                        "TestFixtureName", "WriteMain"}
    /\ SectionKey(5) = {"CallingConvention", "GCCFunctionAttributes",
                        "ArgHistoryLen", "CallHistoryLen"}
    /\ SectionKey(6) = {"OutputParameters", "StrictMocks"}
BY DEF Section, SectionKey, ClangDefault, GeneralDefault, MockingDefault,
       GMockDefault, FFFDefault, CMockaDefault

\* The sections share no key.
LEMMA SectionUnique ==
    \A i \in DOMAIN Section : \A o \in SectionKey(i) : o \in Option /\ SectionOf(o) = i
<1> SUFFICES ASSUME NEW i \in DOMAIN Section, NEW o \in SectionKey(i)
             PROVE  o \in Option /\ SectionOf(o) = i
  OBVIOUS
<1>1. \A j \in DOMAIN Section : o \in SectionKey(j) => j = i
  <2>1. i \in 1 .. 6 /\ DOMAIN Section = 1 .. 6
    BY Keys
  <2>2. CASE i = 1
    BY <2>1, <2>2, Keys
  <2>3. CASE i = 2
    BY <2>1, <2>3, Keys
  <2>4. CASE i = 3
    BY <2>1, <2>4, Keys
  <2>5. CASE i = 4
    BY <2>1, <2>5, Keys
  <2>6. CASE i = 5
    BY <2>1, <2>6, Keys
  <2>7. CASE i = 6
    BY <2>1, <2>7, Keys
  <2> QED
    BY <2>1, <2>2, <2>3, <2>4, <2>5, <2>6, <2>7
<1> QED
  BY <1>1 DEF SectionOf, Option

LEMMA DefaultOf ==
    \A i \in DOMAIN Section : \A o \in SectionKey(i) : Default[o] = Section[i][o]
BY SectionUnique DEF Default

\* Options of the command line are options.
LEMMA CommandLineOptions ==
    CommandLineOption \subseteq SectionKey(1) \cup SectionKey(2) \cup SectionKey(3)
BY Keys DEF CommandLineOption, List, SetByValue, SetByOccurrence

LEMMA OptionNames ==
    /\ {"BaseDirectory", "Output", "Input", "ColorMode", "Backend", "CompileCommandIndex",
        "ResourceDirectory", "TestFixtureName", "MockType"} \cup List \subseteq Option
    /\ CommandLineOption \subseteq Option
<1>1. \A i \in 1 .. 6 : SectionKey(i) \subseteq Option
  BY Keys, SectionUnique
<1> QED
  BY <1>1, Keys, CommandLineOptions DEF List

PathOption == SetByValue \cup {"CompileCommands"}
NumberOption == {"ArgHistoryLen", "CallHistoryLen"}
ParsedOption == {"Backend", "ColorMode", "CompileCommandIndex"}
TextOption ==
    {"MockType", "ClassName", "GlobalNamespaceName", "TestFixtureName",
     "CallingConvention", "GCCFunctionAttributes"}

\* The values of each kind of options, and what their parsers take.
LEMMA ValuesByKind ==
    /\ \A o \in List \cup PathOption : Values(o) = Seq(Text)
    /\ \A o \in NumberOption : Values(o) = Int
    /\ \A o \in Flag : Values(o) = BOOLEAN
    /\ \A o \in TextOption \cup {"Backend", "ColorMode"} : Values(o) = Text
    /\ Values("CompileCommandIndex") = 0 .. 2 ^ IndexWidth - 1
    /\ \A o, v : o \notin ParsedOption => Scanned(o, v)
    /\ \A v : /\ Scanned("Backend", v) <=> v \in BackendName
              /\ Scanned("ColorMode", v) <=> v \in ColorModeName
              /\ Scanned("CompileCommandIndex", v) <=> v < 2 ^ IndexWidth
    /\ (List \cup PathOption \cup NumberOption \cup Flag \cup TextOption)
            \cap ParsedOption = {}
<1> USE DEF List, PathOption, SetByValue, NumberOption, Flag, TextOption, ParsedOption
<1>1. \A o \in List \cup PathOption : Values(o) = Seq(Text)
  BY DEF Values
<1>2. \A o \in NumberOption : Values(o) = Int
  BY DEF Values
<1>3. \A o \in Flag : Values(o) = BOOLEAN
  BY DEF Values
<1>4. \A o \in TextOption \cup {"Backend", "ColorMode"} : Values(o) = Text
  BY DEF Values
<1>5. Values("CompileCommandIndex") = 0 .. 2 ^ IndexWidth - 1
  BY DEF Values
<1>6. \A o, v : o \notin ParsedOption => Scanned(o, v)
  BY DEF Scanned
<1>7. \A v : /\ Scanned("Backend", v) <=> v \in BackendName
             /\ Scanned("ColorMode", v) <=> v \in ColorModeName
             /\ Scanned("CompileCommandIndex", v) <=> v < 2 ^ IndexWidth
  BY DEF Scanned
<1> QED
  BY <1>1, <1>2, <1>3, <1>4, <1>5, <1>6, <1>7

\* The constructors give every option a value that the validation and the
\* parser of its type take.
LEMMA DefaultValues ==
    /\ DOMAIN Default = Option
    /\ \A o \in Option : Default[o] \in Values(o) /\ Scanned(o, Default[o])
    /\ \A o \in List : Default[o] = <<>>
    /\ Default["MockType"] = "StrictMock"
    /\ Default["ResourceDirectory"] = <<>>
<1>1. DOMAIN Default = Option
  BY DEF Default
<1>2. /\ \A o \in SectionKey(1) : Default[o] = ClangDefault[o]
      /\ \A o \in SectionKey(2) : Default[o] = GeneralDefault[o]
      /\ \A o \in SectionKey(3) : Default[o] = MockingDefault[o]
      /\ \A o \in SectionKey(4) : Default[o] = GMockDefault[o]
      /\ \A o \in SectionKey(5) : Default[o] = FFFDefault[o]
      /\ \A o \in SectionKey(6) : Default[o] = CMockaDefault[o]
  BY Keys, DefaultOf DEF Section
<1>3. /\ \A o \in List \cup PathOption : Default[o] = <<>>
      /\ Default["CompileCommandIndex"] = 0
      /\ Default["Backend"] = "gmock" /\ Default["ColorMode"] = "auto"
  BY <1>2, Keys DEF ClangDefault, GeneralDefault, MockingDefault, List, PathOption, SetByValue
<1>4. \A o \in NumberOption : Default[o] = -1
  BY <1>2, Keys DEF FFFDefault, NumberOption
<1>5. \A o \in Flag : Default[o] \in BOOLEAN
  <2>1. \A o \in {"Verbose", "Quiet", "WriteDate"} : Default[o] \in BOOLEAN
    <3>1. /\ Default["Verbose"] = FALSE /\ Default["Quiet"] = FALSE
          /\ Default["WriteDate"] = TRUE
      BY <1>2, Keys DEF GeneralDefault
    <3> QED
      BY <3>1, Zenon
  <2>2. \A o \in {"MockBuiltins", "MockCStdLib", "MockCXXStdLib",
                  "MockVariadicFunctions"} : Default[o] \in BOOLEAN
    <3>1. /\ Default["MockBuiltins"] = FALSE /\ Default["MockCStdLib"] = FALSE
          /\ Default["MockCXXStdLib"] = FALSE /\ Default["MockVariadicFunctions"] = TRUE
      BY <1>2, Keys DEF MockingDefault
    <3> QED
      BY <3>1, Zenon
  <2>3. \A o \in {"WriteMain", "OutputParameters", "StrictMocks"} : Default[o] \in BOOLEAN
    BY <1>2, Keys DEF GMockDefault, CMockaDefault
  <2> QED
    BY <2>1, <2>2, <2>3 DEF Flag
<1>6. /\ \A o \in TextOption : Default[o] \in Text
      /\ Default["MockType"] = "StrictMock"
  <2>1. /\ \A o \in {"MockType", "ClassName", "GlobalNamespaceName", "TestFixtureName"} :
              Default[o] \in Text
        /\ Default["MockType"] = "StrictMock"
    <3>1. /\ Default["MockType"] = "StrictMock" /\ Default["ClassName"] = "ccmock_"
          /\ Default["GlobalNamespaceName"] = "_"
          /\ Default["TestFixtureName"] = "CCMockFixture"
      BY <1>2, Keys DEF GMockDefault
    <3> QED
      BY <3>1, TextAssumption
  <2>2. \A o \in {"CallingConvention", "GCCFunctionAttributes"} : Default[o] \in Text
    <3>1. Default["CallingConvention"] = "" /\ Default["GCCFunctionAttributes"] = ""
      BY <1>2, Keys DEF FFFDefault
    <3> QED
      BY <3>1, TextAssumption
  <2> QED
    BY <2>1, <2>2 DEF TextOption
<1>7. Option \subseteq List \cup PathOption \cup NumberOption \cup Flag \cup TextOption
                        \cup ParsedOption
  BY Keys DEF Option, List, PathOption, SetByValue, NumberOption, Flag, TextOption, ParsedOption
<1>8. \A o \in List \cup PathOption \cup NumberOption \cup Flag \cup TextOption :
        Default[o] \in Values(o) /\ Scanned(o, Default[o])
  <2>1. <<>> \in Seq(Text) /\ -1 \in Int
    OBVIOUS
  <2>2. ASSUME NEW o \in List \cup PathOption \cup NumberOption \cup Flag \cup TextOption
        PROVE  Default[o] \in Values(o)
    <3>1. CASE o \in List \cup PathOption
      BY <1>3, <2>1, <3>1, ValuesByKind
    <3>2. CASE o \in NumberOption
      BY <1>4, <2>1, <3>2, ValuesByKind
    <3>3. CASE o \in Flag
      BY <1>5, <3>3, ValuesByKind, Zenon
    <3>4. CASE o \in TextOption
      BY <1>6, <3>4, ValuesByKind
    <3> QED
      BY <3>1, <3>2, <3>3, <3>4
  <2> QED
    BY <2>2, ValuesByKind
<1>9. ASSUME NEW o \in ParsedOption PROVE Default[o] \in Values(o) /\ Scanned(o, Default[o])
  <2>1. 0 \in 0 .. 2 ^ IndexWidth - 1 /\ 0 < 2 ^ IndexWidth
    BY WidthAssumption
  <2>2. CASE o = "Backend"
    <3>1. Values(o) = Text /\ Scanned(o, "gmock") /\ Default[o] = "gmock"
      BY <1>3, <2>2, ValuesByKind DEF BackendName
    <3> QED
      BY <3>1, TextAssumption
  <2>3. CASE o = "ColorMode"
    <3>1. Values(o) = Text /\ Scanned(o, "auto") /\ Default[o] = "auto"
      BY <1>3, <2>3, ValuesByKind DEF ColorModeName
    <3> QED
      BY <3>1, TextAssumption
  <2>4. CASE o = "CompileCommandIndex"
    BY <1>3, <2>1, <2>4, ValuesByKind
  <2> QED
    BY <2>2, <2>3, <2>4 DEF ParsedOption
<1> QED
  BY <1>1, <1>3, <1>6, <1>7, <1>8, <1>9 DEF PathOption, SetByValue

-----------------------------------------------------------------------------
(***************************************************************************)
(* Type correctness.                                                       *)
(***************************************************************************)
ConfigType(c) ==
    /\ c = [o \in Option |-> c[o]]
    /\ \A o \in Option : c[o] \in Values(o)

Phase ==
    {"parse", "configs", "options", "dump", "prepare", "database", "select",
     "tool", "action", "exited"}

Control ==
    /\ args \in Requests /\ pc \in Phase
    /\ ConfigType(config)
    /\ pc = "parse" => file = 1
    /\ pc \in {"parse", "configs", "options"} => written = <<>>
    /\ pc \notin {"tool", "action", "exited"} => cwd = StartDirectory
    /\ pc = "dump" => args.dump
    /\ pc \in {"prepare", "database", "select", "tool", "action"} => ~args.dump

LEMMA OverlayType ==
    ASSUME NEW S, NEW old \in Seq(S), NEW new \in Seq(S)
    PROVE  Overlay(old, new) \in Seq(S)
<1>1. SubSeq(old, Len(new) + 1, Len(old)) \in Seq(S)
  OBVIOUS
<1> QED
  BY <1>1 DEF Overlay

\* Reading a file, and applying the options of the command line, gives every
\* option a value of its type.
LEMMA ReadType ==
    ASSUME NEW c, ConfigType(c), NEW f \in DOMAIN Document, Parses(Document[f])
    PROVE  ConfigType(Read(c, Document[f]))
<1> SUFFICES ASSUME NEW o \in Option PROVE Read(c, Document[f])[o] \in Values(o)
  BY DEF ConfigType, Read
<1> DEFINE document == Document[f]
<1>1. c[o] \in Values(o)
  BY DEF ConfigType
<1>2. o \in DOMAIN document => document[o] \in Values(o)
  <2>1. o \in DOMAIN document => document[o] \in Giveable(o) /\ Scanned(o, document[o])
    BY DocumentAssumption DEF Parses
  <2>2. CASE o = "CompileCommandIndex"
    BY <2>1, <2>2, ValuesByKind, WidthAssumption DEF Giveable
  <2>3. CASE o # "CompileCommandIndex"
    BY <2>1, <2>3 DEF Giveable
  <2> QED
    BY <2>2, <2>3
<1> HIDE DEF document
<1>3. o \in List /\ o \in DOMAIN document => Overlay(c[o], document[o]) \in Values(o)
  BY <1>1, <1>2, OverlayType, ValuesByKind
<1> QED
  BY <1>1, <1>2, <1>3 DEF Read, document

LEMMA OverriddenType ==
    ASSUME NEW c, ConfigType(c), NEW r \in Requests
    PROVE  ConfigType(Overridden(c, r.cli))
<1> SUFFICES ASSUME NEW o \in Option PROVE Overridden(c, r.cli)[o] \in Values(o)
  BY DEF ConfigType, Overridden
<1>1. c[o] \in Values(o)
  BY DEF ConfigType
<1>2. Sets(r.cli, o) => Assigned(o, r.cli[o]) \in Values(o)
  <2>1. Sets(r.cli, o) => r.cli[o] \in Giveable(o)
    BY RequestAssumption DEF Sets
  <2>2. CASE o = "CompileCommandIndex"
    <3>1. \A n, b \in Nat : b # 0 => n % b \in 0 .. b - 1
      OBVIOUS
    <3> QED
      BY <2>1, <2>2, <3>1, ValuesByKind, WidthAssumption DEF Giveable, Assigned
  <2>3. CASE o # "CompileCommandIndex"
    BY <2>1, <2>3 DEF Giveable, Assigned
  <2> QED
    BY <2>2, <2>3
<1> QED
  BY <1>1, <1>2 DEF Overridden

\* The options that the command line cannot set.
LEMMA OverriddenKeeps ==
    ASSUME NEW c, NEW r \in Requests
    PROVE  \A o \in {"TestFixtureName", "MockType", "ColorMode"} :
              Overridden(c, r.cli)[o] = c[o]
<1>1. {"TestFixtureName", "MockType", "ColorMode"} \cap CommandLineOption = {}
  BY DEF CommandLineOption, List, SetByValue, SetByOccurrence
<1>2. \A o \in {"TestFixtureName", "MockType", "ColorMode"} : ~Sets(r.cli, o)
  BY <1>1, RequestAssumption DEF Sets
<1> QED
  BY <1>2, OptionNames DEF Overridden

LEMMA PreparedType ==
    ASSUME Control, pc = "prepare",
           NEW c, c = [config EXCEPT !["BaseDirectory"] = BaseDirectory,
                                     !["Output"] = Absolute(Output)]
    PROVE  /\ ConfigType(c)
           /\ \A o \in Option \ {"BaseDirectory", "Output"} : c[o] = config[o]
           /\ c["Output"] = Absolute(Output)
<1>1. "BaseDirectory" \in Option /\ "Output" \in Option
  BY OptionNames
<1>2. /\ Values("BaseDirectory") = Seq(Text) /\ Values("Output") = Seq(Text)
  BY ValuesByKind DEF PathOption, SetByValue
<1>3. config["BaseDirectory"] \in Seq(Text) /\ config["Output"] \in Seq(Text)
  BY <1>1, <1>2 DEF Control, ConfigType
<1>4. cwd \in Text /\ "." \in Text
  BY DirectoryAssumption, TextAssumption DEF Control
<1>5. BaseDirectory \in Seq(Text)
  BY <1>3, <1>4 DEF BaseDirectory
<1>6. Absolute(Output) \in Seq(Text)
  BY <1>3, <1>4 DEF Absolute, Output
<1> HIDE DEF BaseDirectory
<1>7. config = [o \in Option |-> config[o]] /\ \A o \in Option : config[o] \in Values(o)
  BY DEF Control, ConfigType
<1>8. c = [o \in Option |-> IF o = "BaseDirectory" THEN BaseDirectory
                            ELSE IF o = "Output" THEN Absolute(Output) ELSE config[o]]
  BY <1>1, <1>7
<1> QED
  BY <1>1, <1>2, <1>5, <1>6, <1>7, <1>8 DEF ConfigType

\* What the validation of a file leaves.
Validated ==
    /\ config["TestFixtureName"] \notin MarkedName
    /\ config["MockType"] \in {"NaggyMock", "NiceMock", "StrictMock"}

Inv == TypeOK /\ Control

LEMMA TypeInit == Init => Inv
<1> SUFFICES ASSUME Init PROVE Inv
  OBVIOUS
<1>1. /\ args \in Requests /\ pc = "parse" /\ file = 1 /\ config = Default
      /\ cwd = StartDirectory /\ commands = <<>> /\ written = <<>> /\ status = "running"
  BY DEF Init
<1>2. ConfigType(config) /\ DOMAIN config = Option
  BY <1>1, DefaultValues DEF ConfigType, Default
<1>3. Validated
  BY <1>1, DefaultValues, FixtureAssumption DEF Validated
<1>4. 1 \in 1 .. Len(args.configs) + 1
  BY <1>1, RequestAssumption
<1> QED
  BY <1>1, <1>2, <1>3, <1>4 DEF Inv, TypeOK, Control, Validated, Phase, ConfigType

\* Config::read, from --config and from the environment.
LEMMA FileStep ==
    ASSUME Inv, NEW f, f \in DOMAIN Document, Parses(Document[f]),
           Valid(Read(config, Document[f])), config' = Read(config, Document[f])
    PROVE  ConfigType(config)' /\ Validated' /\ DOMAIN config' = Option
<1>1. ConfigType(Read(config, Document[f]))
  BY ReadType DEF Inv, Control
<1> QED
  BY <1>1 DEF Valid, Validated, ConfigType

LEMMA TypeStep == Inv /\ [Next]_vars => Inv'
<1> SUFFICES ASSUME Inv, [Next]_vars PROVE Inv'
  OBVIOUS
<1> USE DEF inputs, tool
<1>0. /\ Control /\ ConfigType(config) /\ Validated /\ DOMAIN config = Option
      /\ file \in 1 .. Len(args.configs) + 1 /\ Len(args.configs) \in Nat
      /\ commands \in CommandLists \cup {NoDatabase} \/ Len(commands) <= 1
      /\ status \in {"running", "success", "failure", "skipped", "aborted"}
      /\ pc = "exited" <=> status # "running"
  BY RequestAssumption DEF Inv, TypeOK, Control, Validated
\* Steps that leave the configuration alone.
<1>1. ASSUME UNCHANGED <<args, config, file>>,
             commands' \in CommandLists \cup {NoDatabase} \/ Len(commands') <= 1,
             status' \in {"running", "success", "failure", "skipped", "aborted"},
             pc' = "exited" <=> status' # "running",
             Control'
      PROVE  Inv'
  BY <1>0, <1>1 DEF Inv, TypeOK, Validated, ConfigType
\* Steps that change it.
<1>2. ASSUME UNCHANGED <<args, commands>>, ConfigType(config)', Validated',
             file' \in 1 .. Len(args.configs) + 1, Control',
             status' \in {"running", "success", "failure", "skipped", "aborted"},
             pc' = "exited" <=> status' # "running"
      PROVE  Inv'
  BY <1>0, <1>2 DEF Inv, TypeOK, Validated, ConfigType
<1>3. CASE ParseCommandLine
  <2>1. Control'
    BY <1>0, <1>3 DEF ParseCommandLine, Control, Phase, Exit, ConfigType
  <2> QED
    BY <1>0, <1>1, <1>3, <2>1 DEF ParseCommandLine, Exit
<1>4. CASE ReadConfig
  <2>1. UNCHANGED <<args, commands, written, cwd>> /\ pc = "configs" /\ file' = file + 1
        /\ file <= Len(args.configs)
    BY <1>4 DEF ReadConfig
  <2>2. CASE UNCHANGED config /\ Exit("failure")
    <3>1. Control'
      BY <1>0, <2>1, <2>2 DEF Control, Phase, Exit, ConfigType
    <3> QED
      BY <1>0, <1>2, <2>1, <2>2, <3>1 DEF Exit, Validated, ConfigType
  <2>3. CASE UNCHANGED <<pc, status>> /\ ConfigType(config)' /\ Validated'
    <3>1. Control'
      BY <1>0, <2>1, <2>3 DEF Control, Phase
    <3> QED
      BY <1>0, <1>2, <2>1, <2>3, <3>1
  <2> QED
    BY <1>4, <2>2, <2>3, FileStep DEF ReadConfig, ReadFile
<1>5. CASE SkipEnvironment
  <2>1. Control'
    BY <1>0, <1>5 DEF SkipEnvironment, Control, Phase, ConfigType
  <2> QED
    BY <1>0, <1>1, <1>5, <2>1 DEF SkipEnvironment
<1>6. CASE ReadEnvironment
  <2>1. UNCHANGED <<args, commands, written, cwd, file>> /\ pc = "configs"
    BY <1>6 DEF ReadEnvironment
  <2>2. CASE UNCHANGED config /\ Exit("failure")
    <3>1. Control'
      BY <1>0, <2>1, <2>2 DEF Control, Phase, Exit, ConfigType
    <3> QED
      BY <1>0, <1>2, <2>1, <2>2, <3>1 DEF Exit, Validated, ConfigType
  <2>3. CASE UNCHANGED status /\ pc' = "options" /\ ConfigType(config)' /\ Validated'
    <3>1. Control'
      BY <1>0, <2>1, <2>3 DEF Control, Phase
    <3> QED
      BY <1>0, <1>2, <2>1, <2>3, <3>1
  <2> QED
    BY <1>6, <2>2, <2>3, FileStep DEF ReadEnvironment
<1>7. CASE ApplyOptions
  <2>1. /\ pc = "options" /\ config' = Overridden(config, args.cli)
        /\ pc' = IF args.dump THEN "dump" ELSE "prepare"
        /\ UNCHANGED <<args, commands, written, cwd, file, status>>
    BY <1>7 DEF ApplyOptions
  <2>2. ConfigType(config)'
    BY <1>0, <2>1, OverriddenType DEF Control, ConfigType
  <2>3. Validated'
    BY <1>0, <2>1, OverriddenKeeps DEF Control, Validated
  <2>4. Control'
    BY <1>0, <2>1, <2>2 DEF Control, Phase
  <2> QED
    BY <1>0, <1>2, <2>1, <2>2, <2>3, <2>4
<1>8. CASE Dump
  <2>1. Control'
    BY <1>0, <1>8 DEF Dump, Control, Phase, Exit, ConfigType
  <2>2. /\ UNCHANGED <<args, config, file, commands>> /\ pc' = "exited"
        /\ status' \in {"success", "failure", "aborted"}
    BY <1>8 DEF Dump, Exit
  <2> QED
    BY <1>0, <1>1, <2>1, <2>2
<1>9. CASE Prepare
  <2>1. /\ pc = "prepare" /\ pc' = "database"
        /\ config' = [config EXCEPT !["BaseDirectory"] = BaseDirectory,
                                    !["Output"] = Absolute(Output)]
        /\ UNCHANGED <<args, commands, written, cwd, file, status>>
    BY <1>9 DEF Prepare
  <2>2. ConfigType(config)' /\ Validated'
    <3>1. PICK c : c = [config EXCEPT !["BaseDirectory"] = BaseDirectory,
                                      !["Output"] = Absolute(Output)]
      OBVIOUS
    <3>2. /\ ConfigType(c)
          /\ c["TestFixtureName"] = config["TestFixtureName"]
          /\ c["MockType"] = config["MockType"]
      BY <1>0, <2>1, <3>1, PreparedType, OptionNames
    <3>3. config' = c
      BY <2>1, <3>1
    <3> QED
      BY <1>0, <3>2, <3>3 DEF Validated, ConfigType
  <2>3. Control'
    BY <1>0, <2>1, <2>2 DEF Control, Phase
  <2> QED
    BY <1>0, <1>2, <2>1, <2>2, <2>3
<1>10. CASE LoadDatabase
  <2>1. /\ pc = "database" /\ UNCHANGED <<args, file, config, cwd, written>>
        /\ \/ Exit("failure")
           \/ pc' = "select" /\ UNCHANGED status
    BY <1>10 DEF LoadDatabase
  <2>2. Control'
    BY <1>0, <2>1 DEF Control, Phase, Exit, ConfigType
  <2>3. commands' \in CommandLists \cup {NoDatabase} \/ Len(commands') <= 1
    BY <1>10 DEF LoadDatabase, Load, Detect
  <2> QED
    BY <1>0, <1>1, <2>1, <2>2, <2>3 DEF Exit
<1>11. CASE SelectCommand
  <2>1. /\ pc = "select" /\ UNCHANGED <<args, file, config, commands, cwd, written>>
        /\ \/ Exit("skipped")
           \/ pc' = "tool" /\ UNCHANGED status
    BY <1>11 DEF SelectCommand
  <2>2. Control'
    BY <1>0, <2>1 DEF Control, Phase, Exit, ConfigType
  <2> QED
    BY <1>0, <1>1, <2>1, <2>2 DEF Exit
<1>12. CASE StartCommand
  <2>1. /\ pc = "tool" /\ UNCHANGED <<args, file, config, commands, written>>
        /\ \/ Exit("aborted")
           \/ pc' = "action" /\ UNCHANGED status
    BY <1>12 DEF StartCommand
  <2>2. Control'
    BY <1>0, <2>1 DEF Control, Phase, Exit, ConfigType
  <2> QED
    BY <1>0, <1>1, <2>1, <2>2 DEF Exit
<1>13. CASE FailAction
  <2>1. Control'
    BY <1>0, <1>13 DEF FailAction, Control, Phase, Exit, ConfigType
  <2> QED
    BY <1>0, <1>1, <1>13, <2>1 DEF FailAction, Exit
<1>14. CASE Generate
  <2>1. Control'
    BY <1>0, <1>14 DEF Generate, Control, Phase, ConfigType
  <2> QED
    BY <1>0, <1>1, <1>14, <2>1 DEF Generate
<1>15. CASE FinishTool
  <2>1. Control'
    BY <1>0, <1>15 DEF FinishTool, Control, Phase, Exit, ConfigType
  <2> QED
    BY <1>0, <1>1, <1>15, <2>1 DEF FinishTool, Exit
<1>16. CASE UNCHANGED vars
  <2>1. Control'
    BY <1>0, <1>16 DEF vars, Control, ConfigType
  <2> QED
    BY <1>0, <1>1, <1>16, <2>1 DEF vars
<1> QED
  BY <1>3, <1>4, <1>5, <1>6, <1>7, <1>8, <1>9, <1>10, <1>11, <1>12, <1>13, <1>14,
     <1>15, <1>16 DEF Next, Terminated

\* The options have values of their types whatever the files, the environment
\* and the command line give, and the fixture's name and the kind of mock, which
\* the command line cannot set, are valid.  Nothing is said of the validity of
\* the resource directory: the command line's is not validated.
THEOREM TypeCorrect == Spec => []TypeOK
<1>1. Inv => TypeOK
  BY DEF Inv
<1> QED
  BY <1>1, TypeInit, TypeStep, PTL DEF Spec
-----------------------------------------------------------------------------
(***************************************************************************)
(* The values in effect.  The invariant tells what the options have while  *)
(* the files are being read: the value of the last of the files read so    *)
(* far, which becomes the value in effect once the command line is applied.*)
(***************************************************************************)
\* The files up to number n that give an option, and what it has after them.
Given(n, o) == {i \in 1 .. n : o \in DOMAIN Document[Sources[i]]}

ReadValue(n, o) ==
    IF Given(n, o) = {} THEN Default[o]
    ELSE Document[Sources[Latest(Given(n, o))]][o]

Holds(c, o, v) == IF o \in List THEN IsPrefix(v, c[o]) ELSE c[o] = v

NumberRead == IF pc \in {"parse", "configs"} THEN file - 1 ELSE Len(Sources)

\* The index of --cc-index is one that Config.hpp can represent.
IndexFits ==
    "CompileCommandIndex" \in DOMAIN args.cli =>
        args.cli["CompileCommandIndex"] < 2 ^ IndexWidth

ValuesRead ==
    pc \in {"parse", "configs", "options"} =>
        \A o \in Option : Holds(config, o, ReadValue(NumberRead, o))

ValuesInEffect ==
    Configured =>
        \A o \in Option \ Rewritten :
            IndexFits \/ o # "CompileCommandIndex" => Holds(config, o, Effective(o))

ValuesInv == ValuesRead /\ ValuesInEffect

LEMMA PrefixReflexive == ASSUME NEW S, NEW s \in Seq(S) PROVE IsPrefix(s, s)
BY DEF IsPrefix

\* A list that is read is at the front of the option's value.
LEMMA OverlayPrefix ==
    ASSUME NEW S, NEW old \in Seq(S), NEW new \in Seq(S)
    PROVE  IsPrefix(new, Overlay(old, new))
<1>1. SubSeq(old, Len(new) + 1, Len(old)) \in Seq(S)
  OBVIOUS
<1> DEFINE whole == Overlay(old, new)
<1>2. /\ whole \in Seq(S) /\ Len(new) <= Len(whole)
      /\ \A i \in 1 .. Len(new) : whole[i] = new[i]
  BY <1>1 DEF Overlay
<1> HIDE DEF whole
<1>3. SubSeq(new, 1, Len(new)) = SubSeq(whole, 1, Len(new))
  BY <1>2
<1> QED
  BY <1>2, <1>3 DEF IsPrefix, whole

LEMMA SourcesType ==
    Inv =>
        /\ Len(args.configs) \in Nat /\ Len(Sources) \in Nat
        /\ Len(args.configs) <= Len(Sources)
        /\ env = NoFile => Len(Sources) = Len(args.configs)
        /\ env # NoFile => Len(Sources) = Len(args.configs) + 1
        /\ DOMAIN Sources = 1 .. Len(Sources)
        /\ \A i \in 1 .. Len(args.configs) : Sources[i] = args.configs[i]
        /\ env # NoFile => Sources[Len(args.configs) + 1] = env
<1> HAVE Inv
<1>1. args.configs \in Seq(Text)
  BY RequestAssumption DEF Inv, Control
<1> DEFINE given == args.configs
<1>2. \A e : /\ Len(given \o <<e>>) = Len(given) + 1
             /\ DOMAIN (given \o <<e>>) = 1 .. Len(given) + 1
             /\ \A i \in 1 .. Len(given) : (given \o <<e>>)[i] = given[i]
             /\ (given \o <<e>>)[Len(given) + 1] = e
  <2> SUFFICES ASSUME NEW e
               PROVE  /\ Len(given \o <<e>>) = Len(given) + 1
                      /\ DOMAIN (given \o <<e>>) = 1 .. Len(given) + 1
                      /\ \A i \in 1 .. Len(given) : (given \o <<e>>)[i] = given[i]
                      /\ (given \o <<e>>)[Len(given) + 1] = e
    OBVIOUS
  <2>1. given \in Seq(Text \cup {e}) /\ <<e>> \in Seq(Text \cup {e})
    BY <1>1
  <2> HIDE DEF given
  <2> QED
    BY <2>1
<1>3. given \o <<>> = given /\ DOMAIN given = 1 .. Len(given) /\ Len(given) \in Nat
  BY <1>1
<1> HIDE DEF given
<1>4. CASE env = NoFile
  <2>1. Sources = given
    BY <1>3, <1>4 DEF Sources, given
  <2> QED
    BY <1>3, <1>4, <2>1 DEF given
<1>5. CASE env # NoFile
  <2>1. Sources = given \o <<env>>
    BY <1>5 DEF Sources, given
  <2> QED
    BY <1>2, <1>3, <1>5, <2>1 DEF given
<1> QED
  BY <1>4, <1>5

\* What an option has after one file more.
LEMMA ReadStep ==
    ASSUME Inv, NEW n \in Nat, n + 1 \in DOMAIN Sources,
           Sources[n + 1] \in DOMAIN Document, Parses(Document[Sources[n + 1]]),
           \A o \in Option : Holds(config, o, ReadValue(n, o)),
           NEW c, c = Read(config, Document[Sources[n + 1]])
    PROVE  \A o \in Option : Holds(c, o, ReadValue(n + 1, o))
<1> SUFFICES ASSUME NEW o \in Option PROVE Holds(c, o, ReadValue(n + 1, o))
  OBVIOUS
<1> DEFINE document == Document[Sources[n + 1]]
<1>1. 1 .. n + 1 = (1 .. n) \cup {n + 1}
  OBVIOUS
<1>2. CASE o \notin DOMAIN document
  <2>1. Given(n + 1, o) = Given(n, o)
    BY <1>1, <1>2 DEF Given
  <2>2. c[o] = config[o]
    BY <1>2 DEF Read
  <2> QED
    BY <2>1, <2>2 DEF Holds, ReadValue
<1>3. CASE o \in DOMAIN document
  <2>1. n + 1 \in Given(n + 1, o) /\ \A j \in Given(n + 1, o) : j \in Int /\ j <= n + 1
    BY <1>1, <1>3 DEF Given
  <2>2. Latest(Given(n + 1, o)) = n + 1
    BY <2>1 DEF Latest
  <2>3. ReadValue(n + 1, o) = document[o]
    BY <2>1, <2>2 DEF ReadValue
  <2>4. c[o] = IF o \in List THEN Overlay(config[o], document[o]) ELSE document[o]
    BY <1>3 DEF Read
  <2>5. o \in List => IsPrefix(document[o], Overlay(config[o], document[o]))
    <3>1. o \in List => config[o] \in Seq(Text) /\ document[o] \in Seq(Text)
      <4>1. o \in List => Giveable(o) = Values(o) /\ Values(o) = Seq(Text)
        BY ValuesByKind DEF Giveable, List
      <4> QED
        BY <1>3, <4>1, DocumentAssumption DEF Inv, Control, ConfigType
    <3> QED
      BY <3>1, OverlayPrefix
  <2> QED
    BY <2>3, <2>4, <2>5 DEF Holds
<1> QED
  BY <1>2, <1>3

\* The command line is laid over what the files left.
LEMMA ApplyStep ==
    ASSUME Inv, \A o \in Option : Holds(config, o, ReadValue(Len(Sources), o)),
           NEW o \in Option, IndexFits \/ o # "CompileCommandIndex"
    PROVE  Holds(Overridden(config, args.cli), o, Effective(o))
<1>1. Given(Len(Sources), o) = Giving(o)
  BY SourcesType DEF Given, Giving
<1>2. CASE ~Sets(args.cli, o)
  BY <1>1, <1>2 DEF Holds, Effective, ReadValue, Overridden
<1>3. CASE Sets(args.cli, o)
  <2>1. o \in DOMAIN args.cli /\ args.cli[o] \in Giveable(o)
    BY <1>3, RequestAssumption DEF Sets, Inv, Control
  <2>2. Assigned(o, args.cli[o]) = args.cli[o]
    <3>1. \A a, b \in Nat : b # 0 /\ a < b => a % b = a
      OBVIOUS
    <3>2. CASE o = "CompileCommandIndex"
      BY <2>1, <3>1, <3>2, WidthAssumption DEF Assigned, Giveable, IndexFits
    <3> QED
      BY <3>2 DEF Assigned
  <2>3. o \in List => IsPrefix(args.cli[o], args.cli[o])
    <3>1. o \in List => Giveable(o) = Values(o) /\ Values(o) = Seq(Text)
      BY ValuesByKind DEF Giveable, List
    <3> QED
      BY <2>1, <3>1, PrefixReflexive
  <2> QED
    BY <1>3, <2>2, <2>3 DEF Holds, Effective, Overridden
<1> QED
  BY <1>2, <1>3

\* The sources are input.
LEMMA SourcesKept ==
    ASSUME UNCHANGED <<args, env>>
    PROVE  /\ Sources' = Sources /\ IndexFits' = IndexFits
           /\ \A n, o : ReadValue(n, o)' = ReadValue(n, o)
           /\ \A o : Effective(o)' = Effective(o)
<1>1. Sources' = Sources
  BY DEF Sources
<1>2. \A o : Giving(o)' = Giving(o)
  BY <1>1 DEF Giving
<1>3. \A n, o : Given(n, o)' = Given(n, o)
  BY <1>1 DEF Given
<1>4. \A n, o : ReadValue(n, o)' = ReadValue(n, o)
  BY <1>1, <1>3 DEF ReadValue
<1>5. \A o : Effective(o)' = Effective(o)
  BY <1>1, <1>2 DEF Effective
<1> QED
  BY <1>1, <1>4, <1>5 DEF IndexFits

LEMMA ValuesInit == Init => ValuesInv
<1> SUFFICES ASSUME Init PROVE ValuesInv
  OBVIOUS
<1>1. pc = "parse" /\ file = 1 /\ config = Default
  BY DEF Init
<1>2. \A o \in Option : Given(0, o) = {}
  BY DEF Given
<1>3. \A o \in Option : Holds(config, o, Default[o])
  <2>1. \A o \in List : IsPrefix(Default[o], Default[o])
    BY DefaultValues DEF IsPrefix
  <2> QED
    BY <1>1, <2>1 DEF Holds
<1> QED
  BY <1>1, <1>2, <1>3 DEF ValuesInv, ValuesRead, ValuesInEffect, Configured, ReadValue,
     NumberRead

LEMMA ValuesStep == Inv /\ ValuesInv /\ [Next]_vars => ValuesInv'
<1> SUFFICES ASSUME Inv, ValuesInv, [Next]_vars PROVE ValuesInv'
  OBVIOUS
<1> USE DEF inputs, tool
<1>0. UNCHANGED <<args, env>>
  BY DEF Next, vars, ParseCommandLine, ReadConfig, SkipEnvironment, ReadEnvironment,
     ApplyOptions, Dump, Prepare, LoadDatabase, SelectCommand, StartCommand, FailAction,
     Generate, FinishTool, Terminated
\* Steps after the command line is applied, other than Prepare.
<1>1. ASSUME UNCHANGED config, Configured, pc' \in Phase \ {"parse", "configs", "options"},
             pc' \in {"dump", "prepare"} => pc \in {"dump", "prepare"}
      PROVE  ValuesInv'
  <2>1. ~(pc \in {"parse", "configs", "options"})' /\ Rewritten \subseteq Rewritten'
    BY <1>1 DEF Rewritten
  <2> QED
    BY <1>0, <1>1, <2>1, SourcesKept DEF ValuesInv, ValuesRead, ValuesInEffect
<1>2. ASSUME pc' = "exited" PROVE ValuesInv'
  BY <1>2 DEF ValuesInv, ValuesRead, ValuesInEffect, Configured
\* Steps that have read the files up to number n.
<1>3. ASSUME NEW n, pc' \in {"parse", "configs", "options"}, NumberRead' = n,
             \A o \in Option : Holds(config', o, ReadValue(n, o))
      PROVE  ValuesInv'
  <2>1. \A o \in Option : Holds(config', o, ReadValue(NumberRead, o)')
    BY <1>0, <1>3, SourcesKept
  <2> QED
    BY <1>3, <2>1 DEF ValuesInv, ValuesRead, ValuesInEffect, Configured, Holds
<1>4. CASE ParseCommandLine
  <2>1. CASE pc' = "configs"
    BY <1>0, <1>3, <1>4, <2>1 DEF ParseCommandLine, ValuesInv, ValuesRead, NumberRead
  <2> QED
    BY <1>2, <1>4, <2>1 DEF ParseCommandLine, Exit
<1>5. CASE ReadConfig
  <2>1. /\ pc = "configs" /\ file \in 1 .. Len(args.configs) /\ file' = file + 1
        /\ ReadFile(args.configs[file]) /\ Len(args.configs) \in Nat
    BY <1>5, RequestAssumption DEF ReadConfig, Inv, TypeOK, Control
  <2>2. CASE pc' = "exited"
    BY <1>2, <2>2
  <2>3. CASE pc' # "exited"
    <3> DEFINE n == file - 1
    <3>1. n \in Nat /\ n + 1 = file /\ file \in DOMAIN Sources
          /\ Sources[file] = args.configs[file]
      <4>1. /\ Len(Sources) \in Nat /\ DOMAIN Sources = 1 .. Len(Sources)
            /\ Len(args.configs) <= Len(Sources)
            /\ \A i \in 1 .. Len(args.configs) : Sources[i] = args.configs[i]
        BY SourcesType
      <4> QED
        BY <2>1, <4>1
    <3>2. /\ args.configs[file] \in DOMAIN Document
          /\ Parses(Document[args.configs[file]])
          /\ config' = Read(config, Document[args.configs[file]])
          /\ pc' = "configs"
      BY <2>1, <2>3 DEF ReadFile, Exit
    <3>3. \A o \in Option : Holds(config, o, ReadValue(n, o))
      BY <2>1 DEF ValuesInv, ValuesRead, NumberRead
    <3>4. PICK c : c = Read(config, Document[args.configs[file]])
      OBVIOUS
    <3>5. \A o \in Option : Holds(c, o, ReadValue(n + 1, o))
      <4> HIDE DEF n
      <4> QED
        BY <3>1, <3>2, <3>3, <3>4, ReadStep
    <3>6. \A o \in Option : Holds(config', o, ReadValue(file, o))
      BY <3>1, <3>2, <3>4, <3>5 DEF Holds
    <3>7. NumberRead' = file
      BY <2>1, <3>2 DEF NumberRead
    <3> QED
      BY <1>3, <3>2, <3>6, <3>7
  <2> QED
    BY <2>2, <2>3
<1>6. CASE SkipEnvironment
  <2>1. /\ pc = "configs" /\ pc' = "options" /\ UNCHANGED <<config, file>>
        /\ env = NoFile /\ file = Len(args.configs) + 1 /\ Len(args.configs) \in Nat
    BY <1>6, RequestAssumption DEF SkipEnvironment, Inv, Control
  <2>2. NumberRead = file - 1 /\ NumberRead' = Len(Sources)' /\ file - 1 = Len(Sources)
    BY <2>1, SourcesType DEF NumberRead
  <2>3. NumberRead' = NumberRead
    BY <1>0, <2>2, SourcesKept
  <2> QED
    BY <1>3, <2>1, <2>3 DEF ValuesInv, ValuesRead
<1>7. CASE ReadEnvironment
  <2>1. /\ pc = "configs" /\ env # NoFile
        /\ file = Len(args.configs) + 1 /\ Len(args.configs) \in Nat
    BY <1>7, RequestAssumption DEF ReadEnvironment, Inv, Control
  <2>2. CASE pc' = "exited"
    BY <1>2, <2>2
  <2>3. CASE pc' # "exited"
    <3> DEFINE n == Len(args.configs)
    <3>1. /\ n \in Nat /\ n + 1 \in DOMAIN Sources /\ Sources[n + 1] = env
          /\ Len(Sources) = n + 1 /\ file - 1 = n
      <4>1. /\ DOMAIN Sources = 1 .. Len(Sources) /\ Len(Sources) = n + 1
            /\ Sources[n + 1] = env
        BY <2>1, SourcesType
      <4> QED
        BY <2>1, <4>1
    <3>2. /\ env \in DOMAIN Document /\ Parses(Document[env])
          /\ config' = Read(config, Document[env]) /\ pc' = "options"
      BY <1>7, <2>3 DEF ReadEnvironment, Exit
    <3>3. \A o \in Option : Holds(config, o, ReadValue(n, o))
      BY <2>1, <3>1 DEF ValuesInv, ValuesRead, NumberRead
    <3>4. PICK c : c = Read(config, Document[env])
      OBVIOUS
    <3>5. \A o \in Option : Holds(c, o, ReadValue(n + 1, o))
      <4> HIDE DEF n
      <4> QED
        BY <3>1, <3>2, <3>3, <3>4, ReadStep
    <3>6. \A o \in Option : Holds(config', o, ReadValue(n + 1, o))
      BY <3>2, <3>4, <3>5 DEF Holds
    <3>7. NumberRead' = n + 1
      BY <1>0, <3>1, <3>2, SourcesKept DEF NumberRead
    <3> QED
      BY <1>3, <3>2, <3>6, <3>7
  <2> QED
    BY <2>2, <2>3
<1>8. CASE ApplyOptions
  <2>1. /\ pc = "options" /\ config' = Overridden(config, args.cli)
        /\ pc' \in {"dump", "prepare"}
    BY <1>8 DEF ApplyOptions
  <2>2. \A o \in Option : Holds(config, o, ReadValue(Len(Sources), o))
    BY <2>1 DEF ValuesInv, ValuesRead, NumberRead
  <2>3. PICK c : c = Overridden(config, args.cli)
    OBVIOUS
  <2>4. \A o \in Option :
            IndexFits \/ o # "CompileCommandIndex" => Holds(c, o, Effective(o))
    BY <2>2, <2>3, ApplyStep
  <2>5. \A o \in Option :
            IndexFits \/ o # "CompileCommandIndex" => Holds(config', o, Effective(o))
    BY <2>1, <2>3, <2>4 DEF Holds
  <2>6. Configured' /\ ~(pc \in {"parse", "configs", "options"})'
    BY <2>1 DEF Configured
  <2> QED
    BY <1>0, <2>5, <2>6, SourcesKept DEF ValuesInv, ValuesRead, ValuesInEffect, Holds
<1>9. CASE Dump
  BY <1>2, <1>9 DEF Dump, Exit
<1>10. CASE Prepare
  <2>1. /\ pc = "prepare" /\ pc' = "database"
        /\ config' = [config EXCEPT !["BaseDirectory"] = BaseDirectory,
                                    !["Output"] = Absolute(Output)]
    BY <1>10 DEF Prepare
  <2>2. PICK c : c = [config EXCEPT !["BaseDirectory"] = BaseDirectory,
                                    !["Output"] = Absolute(Output)]
    OBVIOUS
  <2>3. \A o \in Option \ {"BaseDirectory", "Output"} : c[o] = config[o]
    BY <2>1, <2>2, PreparedType DEF Inv
  <2>4. \A o \in Option \ {"BaseDirectory", "Output"} : config'[o] = config[o]
    BY <2>1, <2>2, <2>3
  <2>5. /\ Rewritten = {} /\ Rewritten' = {"BaseDirectory", "Output"} /\ Configured
        /\ ~(pc \in {"parse", "configs", "options"})'
    BY <2>1 DEF Rewritten, Configured
  <2>6. \A o \in Option :
            IndexFits \/ o # "CompileCommandIndex" => Holds(config, o, Effective(o))
    BY <2>5 DEF ValuesInv, ValuesInEffect
  <2>7. \A o \in Option \ {"BaseDirectory", "Output"} :
            IndexFits \/ o # "CompileCommandIndex" => Holds(config', o, Effective(o))
    BY <2>4, <2>6 DEF Holds
  <2> QED
    BY <1>0, <2>5, <2>7, SourcesKept DEF ValuesInv, ValuesRead, ValuesInEffect, Holds
<1>11. CASE LoadDatabase
  BY <1>1, <1>2, <1>11 DEF LoadDatabase, Exit, Configured, Phase
<1>12. CASE SelectCommand
  BY <1>1, <1>2, <1>12 DEF SelectCommand, Exit, Configured, Phase
<1>13. CASE StartCommand
  BY <1>1, <1>2, <1>13 DEF StartCommand, Exit, Configured, Phase
<1>14. CASE FailAction
  BY <1>2, <1>14 DEF FailAction, Exit
<1>15. CASE Generate
  BY <1>1, <1>15 DEF Generate, Configured, Phase
<1>16. CASE FinishTool
  BY <1>2, <1>16 DEF FinishTool, Exit
<1>17. CASE UNCHANGED vars
  BY <1>0, <1>17, SourcesKept DEF vars, ValuesInv, ValuesRead, ValuesInEffect, Configured,
     Rewritten, NumberRead, Holds
<1> QED
  BY <1>4, <1>5, <1>6, <1>7, <1>8, <1>9, <1>10, <1>11, <1>12, <1>13, <1>14, <1>15,
     <1>16, <1>17 DEF Next, Terminated

\* Every option has the value of the last source that gives it, whatever the
\* files are and however often they give an option.  The one exception is an
\* index that the member of Config cannot hold.
THEOREM OptionsInEffect == Spec => [](IndexFits => EffectiveOptions)
<1>1. ValuesInv => (IndexFits => EffectiveOptions)
  BY DEF ValuesInv, ValuesInEffect, EffectiveOptions, Holds
<1> QED
  BY <1>1, TypeInit, TypeStep, ValuesInit, ValuesStep, PTL DEF Spec

-----------------------------------------------------------------------------
(***************************************************************************)
(* One outcome.  At most one command is pending, and writing comes last.   *)
(***************************************************************************)
Outcome ==
    /\ written # <<>> =>
          /\ written = <<written[1]>>
          /\ pc \in {"tool", "exited"}
          /\ written[1].content.kind \in IF args.dump THEN {"dump", "empty"} ELSE {"mocks"}
    /\ pc \notin {"tool", "exited"} => pending = <<>>
    /\ pc = "tool" => \/ written = <<>> /\ pending = <<pending[1]>>
                      \/ written # <<>> /\ pending = <<>>
    /\ status = "success" =>
          \/ args.count <= 1
          \/ written # <<>> /\ written[1].content.kind # "empty"
    /\ pc = "tool" /\ written # <<>> => written[1].content.kind # "empty"
    /\ status = "skipped" => written = <<>>
    /\ status = "aborted" /\ written # <<>> =>
          args.dump /\ written[1].content.kind = "empty"

LEMMA OutcomeStep == Inv /\ Outcome /\ [Next]_vars => Outcome'
<1> SUFFICES ASSUME Inv, Outcome, [Next]_vars PROVE Outcome'
  OBVIOUS
<1> USE DEF inputs, tool
<1>0. status = "running" <=> pc # "exited"
  BY DEF Inv, TypeOK
<1>1. CASE ParseCommandLine
  BY <1>0, <1>1 DEF ParseCommandLine, Exit, Outcome
<1>2. CASE ReadConfig
  <2>1. ReadFile(args.configs[file]) => Exit("failure") \/ UNCHANGED <<pc, status>>
    BY DEF ReadFile
  <2> QED
    BY <1>0, <1>2, <2>1 DEF ReadConfig, Exit, Outcome
<1>3. CASE SkipEnvironment
  BY <1>0, <1>3 DEF SkipEnvironment, Outcome
<1>4. CASE ReadEnvironment
  <2>1. pc = "configs" /\ UNCHANGED <<args, pending, written>>
    BY <1>4 DEF ReadEnvironment
  <2>2. Exit("failure") \/ (pc' = "options" /\ UNCHANGED status)
    BY <1>4 DEF ReadEnvironment
  <2> QED
    BY <1>0, <2>1, <2>2 DEF Exit, Outcome
<1>5. CASE ApplyOptions
  <2>1. /\ pc = "options" /\ pc' \in {"dump", "prepare"}
        /\ UNCHANGED <<args, pending, written, status>>
    BY <1>5 DEF ApplyOptions
  <2> QED
    BY <1>0, <2>1 DEF Outcome
<1>6. CASE Dump
  <2>1. /\ pc = "dump" /\ pc' = "exited" /\ args.dump /\ written = <<>>
        /\ UNCHANGED <<args, pending>>
    BY <1>6 DEF Dump, Exit, Inv, Control, Outcome
  <2>2. CASE status' = "failure" /\ UNCHANGED written
    BY <2>1, <2>2 DEF Outcome
  <2>3. CASE \E text \in {"", "gmock"} :
                Write(Output, [kind |-> "dump", document |-> Written(config, text)])
    <3>1. PICK text : Write(Output, [kind |-> "dump", document |-> Written(config, text)])
      BY <2>3
    <3>2. PICK r : /\ r.content = [kind |-> "dump", document |-> Written(config, text)]
                   /\ written' = <<r>>
      BY <2>1, <3>1 DEF Write
    <3>3. /\ written' # <<>> /\ written' = <<written'[1]>>
          /\ written'[1].content.kind = "dump"
      BY <3>2
    <3>4. status' = "success"
      <4>1. written # written' /\ ~ Write(Output, [kind |-> "empty"])
        BY <2>1, <3>3 DEF Write
      <4> QED
        BY <1>6, <4>1 DEF Dump, Exit
    <3> QED
      BY <2>1, <3>3, <3>4 DEF Outcome
  <2>4. CASE Write(Output, [kind |-> "empty"]) /\ status' = "aborted"
    <3>1. PICK r : r.content = [kind |-> "empty"] /\ written' = <<r>>
      BY <2>1, <2>4 DEF Write
    <3>2. /\ written' # <<>> /\ written' = <<written'[1]>>
          /\ written'[1].content.kind = "empty"
      BY <3>1
    <3> QED
      BY <2>1, <2>4, <3>2 DEF Outcome
  <2> QED
    BY <1>6, <2>2, <2>3, <2>4 DEF Dump, Exit
<1>7. CASE Prepare
  BY <1>0, <1>7 DEF Prepare, Outcome
<1>8. CASE LoadDatabase
  <2>1. pc = "database" /\ UNCHANGED <<args, pending, written>>
    BY <1>8 DEF LoadDatabase
  <2>2. Exit("failure") \/ (pc' = "select" /\ UNCHANGED status)
    BY <1>8 DEF LoadDatabase
  <2> QED
    BY <1>0, <2>1, <2>2 DEF Exit, Outcome
<1>9. CASE SelectCommand
  <2>1. pc = "select" /\ UNCHANGED <<args, written>> /\ written = <<>>
    BY <1>9 DEF SelectCommand, Outcome
  <2>2. pending' = <<>> \/ pending' = <<pending'[1]>>
    BY <1>9 DEF SelectCommand, getCompileCommands
  <2>3. IF pending' = <<>> THEN Exit("skipped") ELSE pc' = "tool" /\ UNCHANGED status
    BY <1>9 DEF SelectCommand
  <2> QED
    BY <1>0, <2>1, <2>2, <2>3 DEF Exit, Outcome
<1>10. CASE StartCommand
  <2>1. /\ pc = "tool" /\ pending # <<>> /\ pending' = Tail(pending)
        /\ UNCHANGED <<args, written>>
    BY <1>10 DEF StartCommand
  <2>2. Exit("aborted") \/ (pc' = "action" /\ UNCHANGED status)
    BY <1>10 DEF StartCommand
  <2>3. written = <<>> /\ pending' = <<>>
    <3>1. written = <<>> /\ pending = <<pending[1]>>
      BY <2>1 DEF Outcome
    <3>2. \A x : Tail(<<x>>) = <<>>
      OBVIOUS
    <3> QED
      BY <2>1, <3>1, <3>2
  <2> QED
    BY <1>0, <2>1, <2>2, <2>3 DEF Exit, Outcome
<1>11. CASE FailAction
  BY <1>0, <1>11 DEF FailAction, Exit, Outcome
<1>12. CASE Generate
  <2>1. /\ pc = "action" /\ pc' = "tool" /\ ~args.dump /\ written = <<>> /\ pending' = <<>>
        /\ UNCHANGED <<args, status>>
    BY <1>12 DEF Generate, Inv, Control, Outcome
  <2>2. PICK r : r.content.kind = "mocks" /\ written' = <<r>>
    BY <1>12, <2>1 DEF Generate, Write
  <2>3. /\ written' # <<>> /\ written' = <<written'[1]>>
        /\ written'[1].content.kind = "mocks"
    BY <2>2
  <2> QED
    BY <1>0, <2>1, <2>3 DEF Outcome
<1>13. CASE FinishTool
  <2>1. /\ pc = "tool" /\ pending = <<>> /\ written # <<>> /\ pc' = "exited"
        /\ status' \in {"failure", "success"} /\ UNCHANGED <<args, pending, written>>
    BY <1>13 DEF FinishTool, Exit, Outcome
  <2> QED
    BY <2>1 DEF Outcome
<1>14. CASE UNCHANGED vars
  BY <1>14 DEF vars, Outcome
<1> QED
  BY <1>1, <1>2, <1>3, <1>4, <1>5, <1>6, <1>7, <1>8, <1>9, <1>10, <1>11, <1>12, <1>13,
     <1>14 DEF Next, Terminated

\* However many commands the database has and whatever fails, one invocation
\* writes at most one output, of the kind asked for, and success means that it
\* did or printed the help.
THEOREM AtMostOneOutput == Spec => []OneOutcome
<1>1. Init => Outcome
  BY DEF Init, Outcome
<1>2. Outcome => OneOutcome
  <2> SUFFICES ASSUME Outcome PROVE OneOutcome
    OBVIOUS
  <2>1. CASE written = <<>>
    BY <2>1 DEF Outcome, OneOutcome
  <2>2. CASE written # <<>>
    <3>1. Len(written) = 1 /\ DOMAIN written = {1}
      BY <2>2 DEF Outcome
    <3> QED
      BY <2>2, <3>1 DEF Outcome, OneOutcome
  <2> QED
    BY <2>1, <2>2
<1> QED
  BY <1>1, <1>2, TypeInit, TypeStep, OutcomeStep, PTL DEF Spec

-----------------------------------------------------------------------------
(***************************************************************************)
(* Where the output goes.  Prepare resolves the path while the process is  *)
(* still in the directory it was started in.                               *)
(***************************************************************************)
Resolved(path) == IF Len(path) = 1 THEN <<StartDirectory, path[1]>> ELSE path

PathInv ==
    /\ pc \in {"database", "select", "tool", "action"} =>
          config["Output"] = Resolved(Effective("Output"))
    /\ OutputWhereExpected

\* What is written is at the resolved path, wherever the process is.
LEMMA WrittenPath ==
    ASSUME NEW p, NEW content, written = <<>>, Write(Output, content),
           \/ Output = p /\ cwd = StartDirectory
           \/ Output = Resolved(p)
    PROVE  /\ DOMAIN written' = {1}
           /\ written'[1].path = Resolved(p) /\ written'[1].content = content
<1>1. (IF Output = <<>> THEN <<>> ELSE Absolute(Output)) = Resolved(p)
  <2>1. CASE Output = p /\ cwd = StartDirectory
    BY <2>1 DEF Absolute, Resolved
  <2>2. CASE Output = Resolved(p)
    <3>1. CASE Len(p) = 1
      <4>1. Output = <<StartDirectory, p[1]>> /\ Len(Output) = 2
        BY <2>2, <3>1 DEF Resolved
      <4> QED
        BY <2>2, <4>1 DEF Absolute
    <3>2. CASE Len(p) # 1
      BY <2>2, <3>2 DEF Absolute, Resolved
    <3> QED
      BY <3>1, <3>2
  <2> QED
    BY <2>1, <2>2
<1>2. PICK r : r.path = Resolved(p) /\ r.content = content /\ written' = <<r>>
  BY <1>1 DEF Write
<1> QED
  BY <1>2

LEMMA PathStep == Inv /\ ValuesInv /\ Outcome /\ PathInv /\ [Next]_vars => PathInv'
<1> SUFFICES ASSUME Inv, ValuesInv, Outcome, PathInv, [Next]_vars PROVE PathInv'
  OBVIOUS
<1> USE DEF inputs, tool
<1>0. UNCHANGED <<args, env>>
  BY DEF Next, vars, ParseCommandLine, ReadConfig, SkipEnvironment, ReadEnvironment,
     ApplyOptions, Dump, Prepare, LoadDatabase, SelectCommand, StartCommand, FailAction,
     Generate, FinishTool, Terminated
<1>1. Effective("Output")' = Effective("Output")
  BY <1>0, SourcesKept
\* Steps that neither write nor come from Prepare.
<1>2. ASSUME UNCHANGED written,
             pc' \in {"database", "select", "tool", "action"} =>
                /\ pc \in {"database", "select", "tool", "action"}
                /\ UNCHANGED config
      PROVE  PathInv'
  BY <1>1, <1>2 DEF PathInv, OutputWhereExpected
\* Steps that write.
<1>3. ASSUME DOMAIN written' = {1}, written'[1].path = Resolved(Effective("Output")),
             pc' \in {"database", "select", "tool", "action"} =>
                config'["Output"] = Resolved(Effective("Output"))
      PROVE  PathInv'
  BY <1>1, <1>3 DEF PathInv, OutputWhereExpected, Resolved
\* Until the path is resolved the option has its value in effect.
<1>4. pc \in {"dump", "prepare"} =>
        config["Output"] = Effective("Output") /\ cwd = StartDirectory
  <2>1. "Output" \in Option /\ "Output" \notin List /\ "Output" # "CompileCommandIndex"
    BY OptionNames DEF List
  <2>2. pc \in {"dump", "prepare"} => Rewritten = {} /\ Configured
    BY DEF Rewritten, Configured
  <2> QED
    BY <2>1, <2>2 DEF ValuesInv, ValuesInEffect, Holds, Inv, Control
<1>5. CASE Dump
  <2>1. pc = "dump" /\ pc' = "exited" /\ written = <<>>
    BY <1>5 DEF Dump, Exit, Outcome
  <2>2. CASE UNCHANGED written
    BY <1>2, <2>1, <2>2
  <2>3. CASE \E content : Write(Output, content)
    <3>1. DOMAIN written' = {1} /\ written'[1].path = Resolved(Effective("Output"))
      BY <1>4, <2>1, <2>3, WrittenPath DEF Output
    <3> QED
      BY <1>3, <2>1, <3>1
  <2> QED
    BY <1>5, <2>2, <2>3 DEF Dump
<1>6. CASE Prepare
  <2>1. /\ pc = "prepare" /\ UNCHANGED written
        /\ config' = [config EXCEPT !["BaseDirectory"] = BaseDirectory,
                                    !["Output"] = Absolute(Output)]
    BY <1>6 DEF Prepare
  <2>2. PICK c : c = [config EXCEPT !["BaseDirectory"] = BaseDirectory,
                                    !["Output"] = Absolute(Output)]
    OBVIOUS
  <2>3. c["Output"] = Absolute(Output)
    BY <2>1, <2>2, PreparedType DEF Inv
  <2>4. config'["Output"] = Resolved(Effective("Output"))
    BY <1>4, <2>1, <2>2, <2>3 DEF Absolute, Resolved, Output
  <2> QED
    BY <1>1, <2>1, <2>4 DEF PathInv, OutputWhereExpected, Resolved
<1>7. CASE Generate
  <2>1. pc = "action" /\ written = <<>> /\ UNCHANGED config
    BY <1>7 DEF Generate, Outcome
  <2>2. Output = Resolved(Effective("Output"))
    BY <2>1 DEF PathInv, Output
  <2>3. \E content : Write(Output, content)
    BY <1>7 DEF Generate
  <2>4. DOMAIN written' = {1} /\ written'[1].path = Resolved(Effective("Output"))
    BY <2>1, <2>2, <2>3, WrittenPath
  <2> QED
    BY <1>3, <2>1, <2>2, <2>4 DEF Output
<1>8. CASE \/ ParseCommandLine \/ ReadConfig \/ SkipEnvironment \/ ReadEnvironment
           \/ ApplyOptions
  <2>1. UNCHANGED written /\ pc' \notin {"database", "select", "tool", "action"}
    <3>1. ReadConfig => pc' \in {"configs", "exited"}
      BY DEF ReadConfig, ReadFile, Exit
    <3>2. ReadEnvironment => pc' \in {"options", "exited"}
      BY DEF ReadEnvironment, Exit
    <3> QED
      BY <1>8, <3>1, <3>2 DEF ParseCommandLine, ReadConfig, SkipEnvironment,
         ReadEnvironment, ApplyOptions, Exit
  <2> QED
    BY <1>2, <2>1
<1>9. CASE \/ LoadDatabase \/ SelectCommand \/ StartCommand \/ FailAction \/ FinishTool
           \/ UNCHANGED vars
  <2>1. UNCHANGED <<written, config>>
    BY <1>9 DEF LoadDatabase, SelectCommand, StartCommand, FailAction, FinishTool, vars
  <2>2. pc' = "exited" \/ pc \in {"database", "select", "tool", "action"} \/ UNCHANGED pc
    BY <1>9 DEF LoadDatabase, SelectCommand, StartCommand, FailAction, FinishTool, vars
  <2> QED
    BY <1>2, <2>1, <2>2
<1> QED
  BY <1>5, <1>6, <1>7, <1>8, <1>9 DEF Next, Terminated

\* The output is at the path in effect, resolved where the program was started,
\* although the tool changes the directory before the output is opened.
THEOREM OutputPlaced == Spec => []OutputWhereExpected
<1>1. Init => Outcome /\ PathInv
  BY DEF Init, Outcome, PathInv, OutputWhereExpected
<1>2. PathInv => OutputWhereExpected
  BY DEF PathInv
<1> QED
  BY <1>1, <1>2, TypeInit, TypeStep, ValuesInit, ValuesStep, OutcomeStep, PathStep, PTL
  DEF Spec

-----------------------------------------------------------------------------
(***************************************************************************)
(* Dumping and reading back.  Every value is one that the parser of its    *)
(* type and the validation take, but for a backend and a resource          *)
(* directory from the command line.                                        *)
(***************************************************************************)
Accepted(c) ==
    /\ \A o \in Option : Scanned(o, c[o])
    /\ c["ResourceDirectory"] \in {<<>>} \cup Directory

\* The command line gives neither of the two.
Restorable == ~GivesBackend /\ ~GivesResourceDirectory

DumpInv ==
    /\ Restorable => Accepted(config)
    /\ DumpReadsBack

\* What is written for such a configuration restores it.
LEMMA Restored ==
    ASSUME NEW c, ConfigType(c), \A o \in Option : Scanned(o, c[o]), NEW text
    PROVE  Parses(Written(c, text)) /\ Read(Default, Written(c, text)) = c
<1> DEFINE document == Written(c, text)
<1>1. /\ DOMAIN document = {x \in Option : x \in List => c[x] # <<>>}
      /\ \A o \in DOMAIN document : document[o] = c[o]
  BY DEF Written
<1>2. Parses(document)
  BY <1>1 DEF Parses
<1> HIDE DEF document
<1>3. ASSUME NEW o \in Option PROVE Read(Default, document)[o] = c[o]
  <2>1. CASE o \notin DOMAIN document
    BY <1>1, <2>1, DefaultValues DEF Read
  <2>2. CASE o \in DOMAIN document /\ o \notin List
    BY <1>1, <2>2 DEF Read
  <2>3. CASE o \in DOMAIN document /\ o \in List
    <3>1. Read(Default, document)[o] = Overlay(<<>>, c[o])
      BY <1>1, <2>3, DefaultValues DEF Read
    <3>2. c[o] \in Seq(Text)
      BY <2>3, ValuesByKind DEF ConfigType
    <3>3. \A s \in Seq(Text) : Overlay(<<>>, s) = s
      <4> SUFFICES ASSUME NEW s \in Seq(Text) PROVE Overlay(<<>>, s) = s
        OBVIOUS
      <4>1. SubSeq(<<>>, Len(s) + 1, 0) = <<>>
        OBVIOUS
      <4> QED
        BY <4>1 DEF Overlay
    <3> QED
      BY <3>1, <3>2, <3>3
  <2> QED
    BY <2>1, <2>2, <2>3
<1>4. Read(Default, document) = [o \in Option |-> Read(Default, document)[o]]
  BY DEF Read
<1> QED
  BY <1>2, <1>3, <1>4 DEF ConfigType, document

LEMMA DumpInit == Init => DumpInv
BY DefaultValues DEF Init, DumpInv, Accepted, DumpReadsBack

LEMMA DumpStep == Inv /\ Outcome /\ DumpInv /\ [Next]_vars => DumpInv'
<1> SUFFICES ASSUME Inv, Outcome, DumpInv, [Next]_vars PROVE DumpInv'
  OBVIOUS
<1> USE DEF inputs, tool
<1>0. UNCHANGED args
  BY DEF Next, vars, ParseCommandLine, ReadConfig, SkipEnvironment, ReadEnvironment,
     ApplyOptions, Dump, Prepare, LoadDatabase, SelectCommand, StartCommand, FailAction,
     Generate, FinishTool, Terminated
<1>1. ASSUME UNCHANGED <<config, written>> PROVE DumpInv'
  BY <1>0, <1>1 DEF DumpInv, Restorable, GivesBackend, GivesResourceDirectory,
     Accepted, DumpReadsBack
\* Steps that change the configuration come before anything is written.
<1>2. ASSUME UNCHANGED written, pc \notin {"tool", "exited"},
             Restorable => Accepted(config')
      PROVE  DumpInv'
  <2>1. DOMAIN written' = {}
    BY <1>2 DEF Outcome
  <2> QED
    BY <1>0, <1>2, <2>1 DEF DumpInv, Restorable, GivesBackend, GivesResourceDirectory,
       Accepted, DumpReadsBack
<1>3. ASSUME NEW f, f \in DOMAIN Document, Parses(Document[f]),
             Valid(Read(config, Document[f])), config' = Read(config, Document[f]),
             Restorable
      PROVE  Accepted(config')
  <2>1. ASSUME NEW o \in Option PROVE Scanned(o, config'[o])
    <3>1. Scanned(o, config[o]) /\ (o \in DOMAIN Document[f] => Scanned(o, Document[f][o]))
      BY <1>3 DEF DumpInv, Accepted, Parses
    <3>2. o \in List => \A v : Scanned(o, v)
      BY ValuesByKind DEF List, ParsedOption
    <3> QED
      BY <1>3, <3>1, <3>2 DEF Read
  <2> QED
    BY <1>3, <2>1 DEF Accepted, Valid
<1>4. CASE ReadConfig
  <2>1. pc = "configs" /\ UNCHANGED written /\ ReadFile(args.configs[file])
    BY <1>4 DEF ReadConfig
  <2>2. CASE UNCHANGED config
    BY <1>1, <2>1, <2>2
  <2>3. CASE ~UNCHANGED config
    <3>1. /\ args.configs[file] \in DOMAIN Document
          /\ Parses(Document[args.configs[file]])
          /\ Valid(Read(config, Document[args.configs[file]]))
          /\ config' = Read(config, Document[args.configs[file]])
      BY <2>1, <2>3 DEF ReadFile
    <3> QED
      BY <1>2, <1>3, <2>1, <3>1
  <2> QED
    BY <2>2, <2>3
<1>5. CASE ReadEnvironment
  <2>1. pc = "configs" /\ UNCHANGED written
    BY <1>5 DEF ReadEnvironment
  <2>2. CASE UNCHANGED config
    BY <1>1, <2>1, <2>2
  <2>3. CASE ~UNCHANGED config
    <3>1. /\ env \in DOMAIN Document /\ Parses(Document[env])
          /\ Valid(Read(config, Document[env])) /\ config' = Read(config, Document[env])
      BY <1>5, <2>3 DEF ReadEnvironment
    <3> QED
      BY <1>2, <1>3, <2>1, <3>1
  <2> QED
    BY <2>2, <2>3
<1>6. CASE ApplyOptions
  <2>1. pc = "options" /\ UNCHANGED written /\ config' = Overridden(config, args.cli)
    BY <1>6 DEF ApplyOptions
  <2>2. ASSUME Restorable, NEW o \in Option PROVE Scanned(o, config'[o])
    <3>1. Scanned(o, config[o])
      BY <2>2 DEF DumpInv, Accepted
    <3>2. CASE o = "Backend"
      BY <2>1, <2>2, <3>1, <3>2, ValuesByKind
      DEF Overridden, Assigned, Restorable, GivesBackend, BackendName
    <3>3. CASE o = "ColorMode"
      BY <2>1, <3>1, <3>3, OverriddenKeeps DEF Inv, Control
    <3>4. CASE o = "CompileCommandIndex"
      <4>1. ConfigType(config')
        BY <2>1, OverriddenType DEF Inv, Control
      <4> QED
        BY <2>2, <3>4, <4>1, ValuesByKind, WidthAssumption DEF ConfigType
    <3> QED
      BY <3>2, <3>3, <3>4, ValuesByKind DEF ParsedOption
  <2>3. ASSUME Restorable PROVE config'["ResourceDirectory"] \in {<<>>} \cup Directory
    <3>1. config["ResourceDirectory"] \in {<<>>} \cup Directory
      BY <2>3 DEF DumpInv, Accepted
    <3> QED
      BY <2>1, <2>3, <3>1, OptionNames
      DEF Overridden, Assigned, Restorable, GivesResourceDirectory
  <2> QED
    BY <1>2, <2>1, <2>2, <2>3 DEF Accepted
<1>7. CASE Prepare
  <2>1. /\ pc = "prepare" /\ UNCHANGED written
        /\ config' = [config EXCEPT !["BaseDirectory"] = BaseDirectory,
                                    !["Output"] = Absolute(Output)]
    BY <1>7 DEF Prepare
  <2>2. PICK c : c = [config EXCEPT !["BaseDirectory"] = BaseDirectory,
                                    !["Output"] = Absolute(Output)]
    OBVIOUS
  <2>3. \A o \in Option \ {"BaseDirectory", "Output"} : c[o] = config[o]
    BY <2>1, <2>2, PreparedType DEF Inv
  <2>4. \A o \in {"BaseDirectory", "Output"} : \A v : Scanned(o, v)
    BY ValuesByKind DEF ParsedOption
  <2>5. Restorable => Accepted(config')
    BY <2>1, <2>2, <2>3, <2>4, OptionNames DEF DumpInv, Accepted
  <2> QED
    BY <1>2, <2>1, <2>5
<1>8. CASE Dump
  <2>1. written = <<>> /\ UNCHANGED config
    BY <1>8 DEF Dump, Outcome
  <2>2. CASE UNCHANGED written
    BY <1>1, <2>1, <2>2
  <2>3. CASE \E text \in {"", "gmock"} :
                Write(Output, [kind |-> "dump", document |-> Written(config, text)])
    <3>1. PICK text : Write(Output, [kind |-> "dump", document |-> Written(config, text)])
      BY <2>3
    <3>2. PICK r : r.content.document = Written(config, text) /\ written' = <<r>>
      BY <2>1, <3>1 DEF Write
    <3>3. ASSUME Restorable
          PROVE  /\ Parses(Written(config, text)) /\ Valid(config)
                 /\ Read(Default, Written(config, text)) = config
      BY <3>3, Restored DEF Inv, TypeOK, Control, DumpInv, Accepted, Valid
    <3>4. DOMAIN written' = {1} /\ written'[1].content.document = Written(config, text)
      BY <3>2
    <3>5. DumpReadsBack'
      BY <1>0, <2>1, <3>3, <3>4
      DEF Restorable, GivesBackend, GivesResourceDirectory, DumpReadsBack
    <3> QED
      BY <1>0, <2>1, <3>5
      DEF DumpInv, Restorable, GivesBackend, GivesResourceDirectory, Accepted
  <2>4. CASE Write(Output, [kind |-> "empty"])
    <3>1. PICK r : r.content = [kind |-> "empty"] /\ written' = <<r>>
      BY <2>1, <2>4 DEF Write
    <3>2. DOMAIN written' = {1} /\ written'[1].content.kind = "empty"
      BY <3>1
    <3> QED
      BY <1>0, <2>1, <3>2
      DEF DumpInv, Restorable, GivesBackend, GivesResourceDirectory, Accepted, DumpReadsBack
  <2> QED
    BY <1>8, <2>2, <2>3, <2>4 DEF Dump
<1>9. CASE Generate
  <2>1. written = <<>> /\ UNCHANGED config
    BY <1>9 DEF Generate, Outcome
  <2>2. PICK r : r.content.kind = "mocks" /\ written' = <<r>>
    BY <1>9, <2>1 DEF Generate, Write
  <2>3. DOMAIN written' = {1} /\ written'[1].content.kind = "mocks"
    BY <2>2
  <2> QED
    BY <1>0, <2>1, <2>3
    DEF DumpInv, Restorable, GivesBackend, GivesResourceDirectory, Accepted, DumpReadsBack
<1>10. CASE \/ ParseCommandLine \/ SkipEnvironment \/ LoadDatabase \/ SelectCommand
            \/ StartCommand \/ FailAction \/ FinishTool \/ UNCHANGED vars
  BY <1>1, <1>10 DEF ParseCommandLine, SkipEnvironment, LoadDatabase, SelectCommand,
     StartCommand, FailAction, FinishTool, vars
<1> QED
  BY <1>4, <1>5, <1>6, <1>7, <1>8, <1>9, <1>10 DEF Next, Terminated

\* A dump is read back, validation included, as the configuration that was in
\* effect, unless the command line gave a backend or a resource directory that
\* no configuration file may give.
THEOREM DumpRestores == Spec => []DumpReadsBack
<1>1. Init => Outcome
  BY DEF Init, Outcome
<1>2. DumpInv => DumpReadsBack
  BY DEF DumpInv
<1> QED
  BY <1>1, <1>2, TypeInit, TypeStep, OutcomeStep, DumpInit, DumpStep, PTL DEF Spec

-----------------------------------------------------------------------------
(***************************************************************************)
(* The invocation of the compiler.  The loop that removes arguments is     *)
(* reasoned about with the smallest number of rounds that would refute a   *)
(* fact.                                                                   *)
(***************************************************************************)
LEMMA LeastNat ==
    ASSUME NEW S, S \subseteq Nat, S # {}
    PROVE  \E n \in S : \A m \in S : n <= m
<1>1. IsWellFoundedOn(OpToRel(<, Nat), Nat)
  BY NatLessThanWellFounded
<1>2. PICK n \in S : \A m \in S : ~(<<m, n>> \in OpToRel(<, Nat))
  BY <1>1, WFMin
<1>3. \A m \in S : ~(m < n)
  BY <1>2 DEF OpToRel
<1> QED
  BY <1>3

\* What the loop has kept after each of its first rounds.
Round(given, l, n) ==
    IF n = 0 THEN <<>>
    ELSE IF IsKept(given[n]) THEN Append(l[n - 1], given[n])
    ELSE l[n - 1]

IsLoop(given, l, N) == l = [n \in 0 .. N |-> Round(given, l, n)]

LEMMA LoopExists ==
    ASSUME NEW given, NEW N \in Nat
    PROVE  \E l : IsLoop(given, l, N)
<1> DEFINE Bad == {n \in Nat : \A l : ~IsLoop(given, l, n)}
<1> SUFFICES ASSUME Bad # {} PROVE FALSE
  OBVIOUS
<1>1. PICK n \in Bad : \A m \in Bad : n <= m
  <2> Bad \subseteq Nat
    OBVIOUS
  <2> HIDE DEF Bad
  <2> QED
    BY LeastNat
<1>2. CASE n = 0
  <2> DEFINE l == [i \in 0 .. 0 |-> <<>>]
  <2>1. IsLoop(given, l, 0)
    BY DEF IsLoop, Round
  <2> QED
    BY <1>2, <2>1
<1>3. CASE n # 0
  <2>1. n \in Nat /\ n - 1 \in Nat /\ n - 1 \notin Bad
    BY <1>1, <1>3
  <2>2. PICK l : IsLoop(given, l, n - 1)
    BY <2>1
  <2>3. /\ l = [i \in 0 .. n - 1 |-> l[i]]
        /\ \A i \in 0 .. n - 1 : l[i] = Round(given, l, i)
    BY <2>2 DEF IsLoop
  <2> DEFINE k == [i \in 0 .. n |-> IF i = n THEN Round(given, l, n) ELSE l[i]]
  <2>4. \A i \in 0 .. n : i # 0 => k[i - 1] = l[i - 1]
    BY <2>1
  <2>5. \A i \in 0 .. n : k[i] = Round(given, l, i)
    BY <2>1, <2>3
  <2> HIDE DEF k
  <2>6. \A i \in 0 .. n : k[i] = Round(given, k, i)
    BY <2>4, <2>5 DEF Round
  <2>7. k = [i \in 0 .. n |-> k[i]]
    BY DEF k
  <2>8. IsLoop(given, k, n)
    BY <2>6, <2>7 DEF IsLoop
  <2> QED
    BY <1>1, <2>8
<1> QED
  BY <1>2, <1>3

\* The arguments that are kept are those that are not to be removed.
LEMMA KeptArguments ==
    ASSUME NEW S, NEW given \in Seq(S)
    PROVE  Kept(given) \in Seq(S) /\ Range(Kept(given)) = Range(given) \ Removable
<1> DEFINE N == Len(given)
<1>1. PICK l : IsLoop(given, l, N) /\ Kept(given) = l[N]
  <2> DEFINE loop == CHOOSE l : IsLoop(given, l, N)
  <2>1. Kept(given) = loop[N]
    BY Zenon DEF Kept, IsLoop, Round
  <2>2. IsLoop(given, loop, N)
    BY LoopExists
  <2> QED
    BY <2>1, <2>2
<1> DEFINE Among(n) == {given[i] : i \in 1 .. n} \ Removable
           Good(n) == l[n] \in Seq(S) /\ Range(l[n]) = Among(n)
           Bad == {n \in 0 .. N : ~Good(n)}
<1>2. \A n \in 0 .. N : l[n] = Round(given, l, n)
  BY <1>1 DEF IsLoop
<1>3. Bad = {}
  <2> SUFFICES ASSUME Bad # {} PROVE FALSE
    OBVIOUS
  <2>1. PICK n \in Bad : \A m \in Bad : n <= m
    <3> Bad \subseteq Nat
      OBVIOUS
    <3> HIDE DEF Bad
    <3> QED
      BY LeastNat
  <2> HIDE DEF Good
  <2>2. n \in 0 .. N /\ ~Good(n)
    BY <2>1
  <2>3. \A m \in 0 .. N : m < n => Good(m)
    BY <2>1, <2>2
  <2>4. CASE n = 0
    <3>1. l[0] = <<>>
      BY <1>2 DEF Round
    <3>2. <<>> \in Seq(S) /\ Range(<<>>) = {} /\ Among(0) = {}
      BY DEF Range
    <3>3. Good(0)
      BY <3>1, <3>2 DEF Good
    <3> QED
      BY <2>2, <2>4, <3>3
  <2>5. CASE n # 0
    <3>1. n \in 1 .. N /\ n - 1 \in 0 .. N /\ Good(n - 1) /\ given[n] \in S
      BY <2>2, <2>3, <2>5
    <3>2. Among(n) = Among(n - 1) \cup ({given[n]} \ Removable)
      BY <3>1
    <3>3. l[n] = IF IsKept(given[n]) THEN Append(l[n - 1], given[n]) ELSE l[n - 1]
      BY <1>2, <2>5, <3>1 DEF Round
    <3>4. \A s \in Seq(S) : \A x \in S :
            Append(s, x) \in Seq(S) /\ Range(Append(s, x)) = Range(s) \cup {x}
      <4> SUFFICES ASSUME NEW s \in Seq(S), NEW x \in S
                   PROVE  /\ Append(s, x) \in Seq(S)
                          /\ Range(Append(s, x)) = Range(s) \cup {x}
        OBVIOUS
      <4> DEFINE longer == Append(s, x)
      <4>1. /\ longer \in Seq(S) /\ DOMAIN longer = 1 .. Len(s) + 1
            /\ DOMAIN s = 1 .. Len(s)
            /\ \A i \in 1 .. Len(s) : longer[i] = s[i]
            /\ longer[Len(s) + 1] = x
        OBVIOUS
      <4>2. 1 .. Len(s) + 1 = (1 .. Len(s)) \cup {Len(s) + 1}
        OBVIOUS
      <4> HIDE DEF longer
      <4>3. Range(longer) = Range(s) \cup {x}
        BY <4>1, <4>2 DEF Range
      <4> QED
        BY <4>1, <4>3 DEF longer
    <3>5. Good(n)
      <4>1. l[n - 1] \in Seq(S) /\ Range(l[n - 1]) = Among(n - 1)
        BY <3>1 DEF Good
      <4> HIDE DEF Among
      <4>2. CASE IsKept(given[n])
        BY <3>1, <3>2, <3>3, <3>4, <4>1, <4>2 DEF IsKept, Good
      <4>3. CASE ~IsKept(given[n])
        BY <3>1, <3>2, <3>3, <4>1, <4>3 DEF IsKept, Good
      <4> QED
        BY <4>2, <4>3
    <3> QED
      BY <2>2, <3>5
  <2> QED
    BY <2>4, <2>5
<1>4. Range(given) = {given[i] : i \in 1 .. N}
  BY DEF Range
<1>5. Good(N)
  <2> N \in 0 .. N
    OBVIOUS
  <2> HIDE DEF Good
  <2> QED
    BY <1>3
<1> QED
  BY <1>1, <1>4, <1>5

Argument == Text \cup {"clang-tool", "input"}

Selected == commands[config["CompileCommandIndex"] + 1]

\* The arguments of a command with the extra ones, without the removed ones.
Requested(command) ==
    Range(command.arguments \o config["ExtraArguments"]) \ Range(config["RemoveArguments"])

CommandsLoaded ==
    /\ Len(commands) \in Nat
    /\ \A n \in 1 .. Len(commands) : commands[n].arguments \in Seq(Argument)

\* What clang's tool has to run, and what it runs, is the command at the index.
CommandInv ==
    /\ pc \in {"select", "tool", "action"} => CommandsLoaded
    /\ pc = "tool" /\ pending # <<>> =>
          /\ config["CompileCommandIndex"] < Len(commands)
          /\ pending = <<Selected>>
    /\ pc = "action" =>
          /\ cwd = Selected.directory
          /\ Range(arguments) = Requested(Selected)

LEMMA DatabaseType ==
    ASSUME LoadDatabase, commands' # NoDatabase
    PROVE  CommandsLoaded'
<1>1. \/ commands' \in CommandLists
      \/ commands' = <<Fallback>>
  BY DEF LoadDatabase, Load, Detect
<1>2. CASE commands' \in CommandLists
  <2>1. commands' \in Seq([directory : Text, arguments : Seq(Text)])
    BY <1>2, DatabaseAssumption
  <2>2. \A n \in 1 .. Len(commands') : commands'[n].arguments \in Seq(Text)
    <3> DEFINE R == [directory : Text, arguments : Seq(Text)]
    <3>1. \A r \in R : r.arguments \in Seq(Text)
      OBVIOUS
    <3>2. commands' \in Seq(R)
      BY <2>1
    <3> HIDE DEF R
    <3>3. \A n \in 1 .. Len(commands') : commands'[n] \in R
      BY <3>2
    <3> QED
      BY <3>1, <3>3
  <2>3. Seq(Text) \subseteq Seq(Argument)
    BY DEF Argument
  <2> QED
    <3>1. Len(commands') \in Nat
      BY <2>1
    <3> QED
      BY <2>2, <2>3, <3>1 DEF CommandsLoaded
<1>3. CASE commands' = <<Fallback>>
  <2>1. Fallback.arguments \in Seq(Argument)
    BY DEF Fallback, Argument
  <2> HIDE DEF Fallback
  <2> QED
    BY <1>3, <2>1 DEF CommandsLoaded
<1> QED
  BY <1>1, <1>2, <1>3

LEMMA CommandStep == Inv /\ Outcome /\ CommandInv /\ [Next]_vars => CommandInv'
<1> SUFFICES ASSUME Inv, Outcome, CommandInv, [Next]_vars PROVE CommandInv'
  OBVIOUS
<1> USE DEF inputs, tool
<1>1. CASE LoadDatabase
  <2>1. pc' = "exited" \/ (pc' = "select" /\ commands' # NoDatabase)
    BY <1>1 DEF LoadDatabase, Exit
  <2> QED
    BY <1>1, <2>1, DatabaseType DEF CommandInv
<1>2. CASE SelectCommand
  <2>1. /\ CommandsLoaded /\ UNCHANGED <<commands, config>>
        /\ pending' = getCompileCommands(config["CompileCommandIndex"])
        /\ pc' \in {"exited", "tool"}
    BY <1>2 DEF SelectCommand, Exit, CommandInv
  <2>2. config["CompileCommandIndex"] \in Nat
    <3>1. config["CompileCommandIndex"] \in 0 .. 2 ^ IndexWidth - 1
      BY OptionNames, ValuesByKind DEF Inv, Control, ConfigType
    <3> QED
      BY <3>1
  <2>3. pending' # <<>> =>
          config["CompileCommandIndex"] < Len(commands) /\ pending' = <<Selected>>
    BY <2>1, <2>2 DEF getCompileCommands, Selected, CommandsLoaded
  <2> QED
    BY <2>1, <2>3 DEF CommandInv, CommandsLoaded, Selected
<1>3. CASE StartCommand
  <2>1. /\ pc = "tool" /\ pending # <<>> /\ UNCHANGED <<commands, config>>
        /\ CommandsLoaded /\ pending = <<Selected>>
        /\ config["CompileCommandIndex"] < Len(commands)
    BY <1>3 DEF StartCommand, CommandInv
  <2>2. Head(pending) = Selected
    BY <2>1
  <2>3. \/ pc' = "exited"
        \/ /\ pc' = "action" /\ cwd' = Selected.directory
           /\ arguments' = Adjusted(Selected.arguments)
    BY <1>3, <2>2 DEF StartCommand, Exit
  <2>4. Range(Adjusted(Selected.arguments)) = Requested(Selected)
    <3>1. config["CompileCommandIndex"] \in 0 .. 2 ^ IndexWidth - 1
      BY OptionNames, ValuesByKind DEF Inv, Control, ConfigType
    <3>2. Selected.arguments \in Seq(Argument)
      BY <2>1, <3>1 DEF Selected, CommandsLoaded
    <3>3. config["ExtraArguments"] \in Seq(Argument)
      <4>1. "ExtraArguments" \in List /\ "ExtraArguments" \in Option
        BY OptionNames DEF List
      <4>2. config["ExtraArguments"] \in Seq(Text)
        BY <4>1, ValuesByKind DEF Inv, Control, ConfigType
      <4> QED
        BY <4>2 DEF Argument
    <3>4. Selected.arguments \o config["ExtraArguments"] \in Seq(Argument)
      BY <3>2, <3>3
    <3> QED
      BY <3>4, KeptArguments DEF Adjusted, Requested, Removable
  <2> QED
    BY <2>1, <2>3, <2>4 DEF CommandInv, CommandsLoaded, Selected, Requested
<1>4. CASE Generate
  <2>1. pc = "action" /\ pc' = "tool" /\ UNCHANGED <<commands, config, pending>>
    BY <1>4 DEF Generate
  <2>2. pending = <<>>
    BY <2>1 DEF Outcome
  <2> QED
    BY <2>1, <2>2 DEF CommandInv, CommandsLoaded
<1>5. ASSUME pc' \notin {"select", "tool", "action"} PROVE CommandInv'
  BY <1>5 DEF CommandInv
<1>6. CASE UNCHANGED vars
  BY <1>6 DEF vars, CommandInv, CommandsLoaded, Selected, Requested
<1>7. CASE \/ ParseCommandLine \/ ReadConfig \/ SkipEnvironment \/ ReadEnvironment
           \/ ApplyOptions \/ Dump \/ Prepare \/ FailAction \/ FinishTool
  <2>1. ReadConfig => pc' \in {"configs", "exited"}
    BY DEF ReadConfig, ReadFile, Exit
  <2>2. ReadEnvironment => pc' \in {"options", "exited"}
    BY DEF ReadEnvironment, Exit
  <2> QED
    BY <1>5, <1>7, <2>1, <2>2 DEF ParseCommandLine, SkipEnvironment, ApplyOptions, Dump,
       Prepare, FailAction, FinishTool, Exit
<1> QED
  BY <1>1, <1>2, <1>3, <1>4, <1>6, <1>7 DEF Next, Terminated

\* The compiler runs in the directory and with the arguments of the command at
\* the index in effect, with every extra argument and without any removed one,
\* for every list of commands and of arguments; an index that Config.hpp cannot
\* represent selects another command.
THEOREM CompilerRuns == Spec => [](IndexFits => CompilerInvocation)
<1>1. Init => Outcome /\ CommandInv
  BY DEF Init, Outcome, CommandInv
<1>2. ValuesInv /\ CommandInv => (IndexFits => CompilerInvocation)
  <2> SUFFICES ASSUME ValuesInv, CommandInv, IndexFits, pc = "action"
               PROVE  CompilerInvocation
    BY DEF CompilerInvocation
  <2>1. config["CompileCommandIndex"] = Effective("CompileCommandIndex")
    <3>1. "CompileCommandIndex" \in Option /\ "CompileCommandIndex" \notin List
      BY OptionNames DEF List
    <3> QED
      BY <3>1 DEF ValuesInv, ValuesInEffect, Configured, Rewritten, Holds
  <2> QED
    BY <2>1 DEF CommandInv, CompilerInvocation, Selected, Requested
<1> QED
  BY <1>1, <1>2, TypeInit, TypeStep, ValuesInit, ValuesStep, OutcomeStep, CommandStep, PTL
  DEF Spec

=============================================================================
