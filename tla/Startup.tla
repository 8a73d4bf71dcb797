------------------------------ MODULE Startup ------------------------------
(***************************************************************************)
(* ccmock_main of main.cpp, from the command line to the exit status: the  *)
(* configuration is put together, the compile command of the input is      *)
(* looked up (CompilationDatabase.cpp), and clang's tool runs the action   *)
(* that writes the output (MockAction.cpp, OutputGenerator::write).        *)
(*                                                                         *)
(* The process has one current directory.  Clang's tool changes it to the  *)
(* directory of the compile command, so a relative path means something    *)
(* else before and after.                                                  *)
(***************************************************************************)
EXTENDS Config, SequencesExt

CONSTANTS
    Document,         \* the configuration files that can be read
    NoFile,           \* CCMOCK_CONFIG is unset or empty
    Requests,         \* the command lines considered, with what the compiler
                      \* and the generator find in the source
    Environments,     \* the values of CCMOCK_CONFIG considered
    StartDirectory,   \* the directory the program is started in
    CommandLists,     \* what a database may know about the input
    ParentDirectory,  \* the directory an input file is in
    NoDatabase,       \* a database that cannot be loaded
    Missing,          \* directories of compile commands that do not exist
    Unwritable        \* absolute paths that cannot be opened for writing

ASSUME DatabaseAssumption ==
    /\ NoDatabase \notin CommandLists
    /\ CommandLists \subseteq Seq([directory : Text, arguments : Seq(Text)])

\* The command line's options and the files' keys come with values of their
\* types, however many and in whichever combination.
ASSUME RequestAssumption ==
    \A r \in Requests :
        /\ r.configs \in Seq(Text) /\ r.dump \in BOOLEAN
        /\ DOMAIN r.cli \subseteq CommandLineOption
        /\ \A o \in DOMAIN r.cli : r.cli[o] \in Giveable(o)

ASSUME DocumentAssumption ==
    \A f \in DOMAIN Document : \A o \in DOMAIN Document[f] \cap Option :
        Document[f][o] \in Giveable(o)

ASSUME DirectoryAssumption == StartDirectory \in Text

VARIABLES
    args,       \* the command line: input
    env,        \* CCMOCK_CONFIG: input
    pc,         \* the part of ccmock_main being executed
    file,       \* the configuration file that is read next
    config,     \* Config
    cwd,        \* the current directory of the process
    commands,   \* the compile commands the database has for the input
    pending,    \* the commands clang's tool has still to run
    arguments,  \* the arguments of the command being run
    written,    \* the outputs written so far
    status      \* "running", or how the program ended

vars == <<args, env, pc, file, config, cwd, commands, pending, arguments,
          written, status>>

inputs == <<args, env>>
tool == <<cwd, commands, pending, arguments>>

Init ==
    /\ args \in Requests /\ env \in Environments
    /\ pc = "parse" /\ file = 1 /\ config = Default
    /\ cwd = StartDirectory
    /\ commands = <<>> /\ pending = <<>> /\ arguments = <<>>
    /\ written = <<>> /\ status = "running"

Exit(outcome) == pc' = "exited" /\ status' = outcome

\* std::filesystem::absolute
Absolute(path) == IF Len(path) = 1 THEN <<cwd, path[1]>> ELSE path

-----------------------------------------------------------------------------
\* Command lines that LLVM refuses; the help text if there are no arguments.
ParseCommandLine ==
    /\ pc = "parse"
    /\ \/ ~args.valid /\ Exit("failure")
       \/ args.valid /\ args.count <= 1 /\ Exit("success")
       \/ args.valid /\ args.count > 1 /\ pc' = "configs" /\ UNCHANGED status
    /\ UNCHANGED <<inputs, file, config, tool, written>>

\* Config::read, which ends the program for a file it cannot use.
ReadFile(f) ==
    LET merged == Read(config, Document[f])
    IN  IF f \in DOMAIN Document /\ Parses(Document[f]) /\ Valid(merged)
        THEN config' = merged /\ UNCHANGED <<pc, status>>
        ELSE Exit("failure") /\ UNCHANGED config

ReadConfig ==
    /\ pc = "configs" /\ file <= Len(args.configs)
    /\ ReadFile(args.configs[file])
    /\ file' = file + 1
    /\ UNCHANGED <<inputs, tool, written>>

SkipEnvironment ==
    /\ pc = "configs" /\ file = Len(args.configs) + 1 /\ env = NoFile
    /\ pc' = "options"
    /\ UNCHANGED <<inputs, file, config, tool, written, status>>

ReadEnvironment ==
    /\ pc = "configs" /\ file = Len(args.configs) + 1 /\ env # NoFile
    /\ LET merged == Read(config, Document[env])
       IN  IF env \in DOMAIN Document /\ Parses(Document[env]) /\ Valid(merged)
           THEN config' = merged /\ pc' = "options" /\ UNCHANGED status
           ELSE Exit("failure") /\ UNCHANGED config
    /\ UNCHANGED <<inputs, file, tool, written>>

ApplyOptions ==
    /\ pc = "options"
    /\ config' = Overridden(config, args.cli)
    /\ pc' = IF args.dump THEN "dump" ELSE "prepare"
    /\ UNCHANGED <<inputs, file, tool, written, status>>

Output == config["Output"]

\* Whether llvm::raw_fd_ostream opens the path; the empty one is standard output.
Opens(path) == path = <<>> \/ Absolute(path) \notin Unwritable

\* Writing goes to where the path leads now.
Write(path, content) ==
    written' = Append(written,
        [path |-> IF path = <<>> THEN <<>> ELSE Absolute(path),
         content |-> content])

\* YAML output validates the sections as YAML input does, and asserts that they
\* are valid: a build with assertions aborts, the file created and empty, and one
\* without writes them.  The same goes for a value of no name.
Writable == Valid(config) /\ \A o \in Option : Scanned(o, config[o])

Dump ==
    /\ pc = "dump"
    /\ \/ /\ Opens(Output)
          /\ \E text \in {"", "gmock"} :
                Write(Output, [kind |-> "dump", document |-> Written(config, text)])
          /\ Exit("success")
       \/ /\ Opens(Output) /\ ~Writable
          /\ Write(Output, [kind |-> "empty"])
          /\ Exit("aborted")
       \/ ~Opens(Output) /\ Exit("failure") /\ UNCHANGED written
    /\ UNCHANGED <<inputs, file, config, tool>>

-----------------------------------------------------------------------------
\* The base directory of the file header.
BaseDirectory ==
    IF config["BaseDirectory"] = <<>> THEN <<cwd, ".">> ELSE config["BaseDirectory"]

\* A slip: the output path stays relative.
PrepareRelative ==
    /\ pc = "prepare"
    /\ config' = [config EXCEPT !["BaseDirectory"] = BaseDirectory]
    /\ pc' = "database"
    /\ UNCHANGED <<inputs, file, tool, written, status>>

Prepare ==
    /\ pc = "prepare"
    /\ config' = [config EXCEPT !["BaseDirectory"] = BaseDirectory,
                                !["Output"] = Absolute(Output)]
    /\ pc' = "database"
    /\ UNCHANGED <<inputs, file, tool, written, status>>

\* CompilationDatabase::load: the file may be missing, malformed, or have an
\* extension that is not supported.
Load == commands' \in CommandLists \cup {NoDatabase}

\* The command detect() makes up if it finds no database: run in the directory
\* of the input, with no options.  A bare name has the empty parent path.
Fallback ==
    [directory |-> ParentDirectory[config["Input"]],
     arguments |-> <<"clang-tool", "input">>]

\* CompilationDatabase::detect
Detect == commands' \in CommandLists \cup {<<Fallback>>}

LoadDatabase ==
    /\ pc = "database"
    /\ IF config["CompileCommands"] # <<>> THEN Load ELSE Detect
    /\ IF commands' = NoDatabase \/ config["Input"] = <<>>
       THEN Exit("failure")
       ELSE pc' = "select" /\ UNCHANGED status
    /\ UNCHANGED <<inputs, file, config, cwd, pending, arguments, written>>

\* A slip: the other commands are not dropped.
getCompileCommandsAll(index) ==
    IF index >= Len(commands) THEN <<>>
    ELSE SubSeq(commands, index + 1, Len(commands))

\* CompilationDatabase::getCompileCommands: the one at the index, if it exists.
getCompileCommands(index) ==
    IF index >= Len(commands) THEN <<>> ELSE <<commands[index + 1]>>

\* ClangTool::run asks for the commands; without one the input is skipped.
SelectCommand ==
    /\ pc = "select"
    /\ pending' = getCompileCommands(config["CompileCommandIndex"])
    /\ IF pending' = <<>> THEN Exit("skipped") ELSE pc' = "tool" /\ UNCHANGED status
    /\ UNCHANGED <<inputs, file, config, cwd, commands, arguments, written>>

-----------------------------------------------------------------------------
Removable == Range(config["RemoveArguments"])
IsKept(argument) == argument \notin Removable

\* RemoveArgumentsAdjuster goes through the arguments and keeps the others.
Kept(given) ==
    LET loop[n \in 0 .. Len(given)] ==
            IF n = 0 THEN <<>>
            ELSE IF IsKept(given[n]) THEN Append(loop[n - 1], given[n])
            ELSE loop[n - 1]
    IN  loop[Len(given)]

\* A slip: the adjusters are appended in the other order.
AdjustedBackwards(given) == Kept(given) \o config["ExtraArguments"]

\* The two adjusters, one after the other.
Adjusted(given) == Kept(given \o config["ExtraArguments"])

\* RemoveArgumentsAdjuster reserves Args.size() - RemoveArgs_.size() elements,
\* a huge number if there are more arguments to remove than there are arguments.
ReserveFails(given) ==
    Cardinality(Removable) > Len(given \o config["ExtraArguments"])

\* ClangTool ends the program if it cannot change the directory.
CannotEnter(directory) == directory \in Missing \cup {""}

StartCommand ==
    /\ pc = "tool" /\ pending # <<>>
    /\ LET command == Head(pending)
       IN  IF CannotEnter(command.directory) \/ ReserveFails(command.arguments)
           THEN /\ Exit("aborted")
                /\ UNCHANGED <<cwd, arguments>>
           ELSE /\ cwd' = command.directory
                /\ arguments' = Adjusted(command.arguments)
                /\ pc' = "action"
                /\ UNCHANGED status
    /\ pending' = Tail(pending)
    /\ UNCHANGED <<inputs, file, config, commands, written>>

\* The header's entry for the input: the path that std::filesystem::relative
\* resolves when the header is written.
HeaderInput == Absolute(config["Input"])

\* PrepareToExecuteAction may find no resource directory; the generator may
\* give up on a declaration or a pattern, or fail to open the output.
FailAction ==
    /\ pc = "action"
    /\ \/ config["ResourceDirectory"] = <<>>
       \/ ~Opens(Output)
       \/ args.rejected
    /\ Exit("failure")
    /\ UNCHANGED <<inputs, file, config, tool, written>>

\* The consumer of the selected backend writes the output.
Generate ==
    /\ pc = "action" /\ ~args.rejected /\ Opens(Output)
    /\ Write(Output, [kind |-> "mocks", backend |-> config["Backend"],
                      input |-> HeaderInput, arguments |-> arguments])
    /\ pc' = "tool"
    /\ UNCHANGED <<inputs, file, config, tool, status>>

\* Errors in the source make the tool fail, with the output written.
FinishTool ==
    /\ pc = "tool" /\ pending = <<>>
    /\ Exit(IF args.erroneous THEN "failure" ELSE "success")
    /\ UNCHANGED <<inputs, file, config, tool, written>>

Terminated == pc = "exited" /\ UNCHANGED vars

Next ==
    \/ ParseCommandLine \/ ReadConfig \/ SkipEnvironment \/ ReadEnvironment
    \/ ApplyOptions \/ Dump \/ Prepare \/ LoadDatabase \/ SelectCommand
    \/ StartCommand \/ FailAction \/ Generate \/ FinishTool
    \/ Terminated

Spec == Init /\ [][Next]_vars

-----------------------------------------------------------------------------
(***************************************************************************)
(* Properties.                                                             *)
(***************************************************************************)
\* What ccmock_main relies on: the options have values of their types, and the
\* two that only files give, the fixture's name and the kind of mock, are valid.
\* The command line's values are not validated: see DumpReadsBack.
TypeOK ==
    /\ DOMAIN config = Option /\ \A o \in Option : config[o] \in Values(o)
    /\ config["TestFixtureName"] \notin MarkedName
    /\ config["MockType"] \in {"NaggyMock", "NiceMock", "StrictMock"}
    /\ file \in 1 .. Len(args.configs) + 1
    /\ commands \in CommandLists \cup {NoDatabase} \/ Len(commands) <= 1
    /\ status \in {"running", "success", "failure", "skipped", "aborted"}
    /\ pc = "exited" <=> status # "running"

\* The files in the order in which they are read, and those that give an option.
Sources == args.configs \o IF env = NoFile THEN <<>> ELSE <<env>>
Giving(o) == {i \in DOMAIN Sources : o \in DOMAIN Document[Sources[i]]}
Latest(S) == CHOOSE i \in S : \A j \in S : j <= i

\* The value an option should have: the command line's, else that of the last
\* file that gives it, else the default.
Effective(o) ==
    IF Sets(args.cli, o) THEN args.cli[o]
    ELSE IF Giving(o) = {} THEN Default[o]
    ELSE Document[Sources[Latest(Giving(o))]][o]

\* The options are in effect; Prepare rewrites two paths later.
Configured == pc \notin {"parse", "configs", "options", "exited"}
Rewritten == IF pc \in {"dump", "prepare"} THEN {} ELSE {"BaseDirectory", "Output"}

\* Every option has the value of the last source that gives it, and the list
\* options begin with the list of that source, whatever was read before.
EffectiveOptions ==
    Configured =>
        \A o \in Option \ Rewritten :
            IF o \in List
            THEN IsPrefix(Effective(o), config[o])
            ELSE config[o] = Effective(o)

\* The command line sets an option to a value that no file may give: those of
\* the backend and of the resource directory are not validated.
GivesBackend ==
    Sets(args.cli, "Backend") /\ args.cli["Backend"] \notin {"gmock", "fff", "cmocka"}
GivesResourceDirectory ==
    /\ Sets(args.cli, "ResourceDirectory")
    /\ args.cli["ResourceDirectory"] \notin Directory

\* A dumped configuration is a configuration file that Config::read accepts, and
\* reading it restores every option as it was in effect, whatever files it was
\* put together from; only the command line can make it one that is refused.
DumpReadsBack ==
    \A n \in DOMAIN written :
        LET content == written[n].content
            restored == Read(Default, content.document)
        IN  content.kind = "dump" =>
                \/ GivesBackend \/ GivesResourceDirectory
                \/ /\ Parses(content.document) /\ Valid(restored)
                   /\ restored = config

\* The output goes where the user meant it to go, the path resolved in the
\* directory the program was started in, although the tool changes it.
OutputWhereExpected ==
    \A n \in DOMAIN written :
        LET path == Effective("Output")
        IN  written[n].path =
                IF Len(path) = 1 THEN <<StartDirectory, path[1]>> ELSE path

\* One invocation writes at most one output, of the kind that was asked for.
\* It succeeds only if it did that or printed the help; skipped inputs and
\* crashes leave existing mocks alone, and a dump that is cut off is not taken
\* for a success.
OneOutcome ==
    /\ Len(written) <= 1
    /\ \A n \in DOMAIN written :
          written[n].content.kind \in IF args.dump THEN {"dump", "empty"} ELSE {"mocks"}
    /\ status = "success" =>
          \/ args.count <= 1
          \/ Len(written) = 1 /\ written[1].content.kind # "empty"
    /\ status = "skipped" => written = <<>>
    /\ status = "aborted" /\ written # <<>> =>
          args.dump /\ written[1].content.kind = "empty"

\* The compiler runs in the directory and with the arguments of the command
\* at the index, with every extra argument and without any removed one.
CompilerInvocation ==
    pc = "action" =>
        LET command == commands[Effective("CompileCommandIndex") + 1]
            kept == Range(command.arguments \o config["ExtraArguments"])
                        \ Range(config["RemoveArguments"])
        IN  cwd = command.directory /\ Range(arguments) = kept
=============================================================================
