----------------------------- MODULE MCStartup -----------------------------
(***************************************************************************)
(* A small installation for the start of the program: five configuration   *)
(* files, two of them unusable, and command lines that set the options in  *)
(* each of the three ways.  Up to MaxConfigs files are given at once.      *)
(***************************************************************************)
EXTENDS Startup, SequencesExt

CONSTANT MaxConfigs    \* bound on the number of --config files

MCText == STRING

MCDirectory == {<<"/", "clang">>}

MCDocument ==
    [general |->
        [Output |-> <<"mocks">>, WriteDate |-> FALSE, Backend |-> "fff",
         Blacklist |-> <<"f", "g">>, RemoveArguments |-> <<"-g">>],
     local |->
        [Input |-> <<"input">>, Backend |-> "gmock", Blacklist |-> <<"h">>,
         ExtraArguments |-> <<"-O2", "-g">>, CompileCommandIndex |-> 1,
         ResourceDirectory |-> <<"/", "clang">>, Verbose |-> TRUE],
     names |->
        [TestFixtureName |-> "Fixture", MockType |-> "NiceMock",
         RemoveArguments |-> <<"-O2", "-c">>, CompileCommands |-> <<"db">>,
         BaseDirectory |-> <<"/", "base">>],
     marked |-> [TestFixtureName |-> "My_Fixture"]]

FileNames == DOMAIN MCDocument \cup {"lost"}

CommandLines ==
    {[Input |-> <<"input">>],
     [Input |-> <<"/", "input">>, Output |-> <<"mocks">>],
     [Input |-> <<"input">>, Output |-> <<"/", "locked">>, Verbose |-> FALSE],
     [Input |-> <<"input">>, Output |-> <<>>, Backend |-> "fff",
      CompileCommandIndex |-> 0, CompileCommands |-> <<>>],
     [Input |-> <<"input">>, ResourceDirectory |-> <<"/", "moved">>],
     [Input |-> <<"input">>, Backend |-> "raw"],
     [ExtraArguments |-> <<"-Wall">>, Blacklist |-> <<"k">>,
      RemoveArguments |-> <<"-a", "-b", "-d", "-e", "-f", "-h">>]}

Invocation(valid, count, dump, rejected, erroneous) ==
    [valid |-> valid, count |-> count, dump |-> dump,
     rejected |-> rejected, erroneous |-> erroneous]

Request(invocation, configs, cli) ==
    [x \in DOMAIN invocation \cup {"configs", "cli"} |->
        CASE x = "configs" -> configs [] x = "cli" -> cli [] OTHER -> invocation[x]]

MCRequests ==
    {Request(Invocation(FALSE, 2, FALSE, FALSE, FALSE), <<>>, <<>>),
     Request(Invocation(TRUE, 1, FALSE, FALSE, FALSE), <<>>, <<>>)}
    \cup {Request(Invocation(TRUE, 3, dump, rejected, erroneous), configs, cli) :
            dump \in BOOLEAN, rejected \in BOOLEAN, erroneous \in BOOLEAN,
            configs \in BoundedSeq(FileNames, MaxConfigs), cli \in CommandLines}

MCEnvironments == {"none", "general", "names", "lost"}

Command(directory, given) == [directory |-> directory, arguments |-> given]

MCCommandLists ==
    {<<>>,
     <<Command("build", <<"cc", "-c", "-g", "input">>)>>,
     <<Command("build", <<"cc", "input">>), Command("gone", <<"cc", "-c", "input">>)>>,
     <<Command("other", <<"cc", "-O2", "input">>),
       Command("build", <<"cc", "-DX", "-c", "input">>)>>}

MCUnwritable == {<<"/", "locked">>, <<"start", "locked">>}

MCParentDirectory ==
    [p \in {<<>>, <<"input">>, <<"/", "input">>} |-> IF Len(p) = 2 THEN "/" ELSE ""]

-----------------------------------------------------------------------------
(***************************************************************************)
(* What comments and options of the repository say, and the code does not  *)
(* do.                                                                     *)
(***************************************************************************)

\* The input in the header is the file that was processed, whatever directory
\* the compiler ran in.
HeaderNamesInput ==
    \A n \in DOMAIN written :
        LET path == Effective("Input")
        IN  written[n].content.kind = "mocks" =>
                written[n].content.input =
                    IF Len(path) = 1 THEN <<StartDirectory, path[1]>> ELSE path

\* Any list of arguments may be removed: what matches goes, the rest is run.
RemovalSucceeds ==
    status = "aborted" =>
        \/ args.dump
        \/ \E n \in DOMAIN commands : CannotEnter(commands[n].directory)
=============================================================================
