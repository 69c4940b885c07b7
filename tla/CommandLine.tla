----------------------------- MODULE CommandLine ------------------------------
(***************************************************************************)
(* The program cnd (src/Main.cpp, CliMain in inc/cli/CliDriver.hpp): the   *)
(* parser of flags (inc/cli/CliParser.hpp) runs over the arguments up to   *)
(* the command, then with the flags of the command over the rest, and the  *)
(* sources it collected are translated.  An argument is plain text, or a   *)
(* flag by its short or its long name.  The unit tests call the compiler   *)
(* with a list of files; that is the other way to begin.                   *)
(***************************************************************************)
EXTENDS Translation, Integers, Sequences, SequencesExt

Plain(name) == [form |-> "plain", name |-> name]
Short(name) == [form |-> "short", name |-> name]
Long(name) == [form |-> "long", name |-> name]
Argument == [form : {"plain", "short", "long"}, name : STRING]

CONSTANTS CommandLines,  \* sequences of arguments, without argv[0]
          Disk           \* the text behind every path, or NoFile
ASSUME CommandLinesAssumption == CommandLines \subseteq Seq(Argument)
ASSUME DiskAssumption ==
  \A line \in CommandLines : \A i \in DOMAIN line :
    line[i].form = "plain" => IsSource(Disk[line[i].name])

VARIABLES argv,
          arg,           \* arg_it
          flags,         \* parsed_flags, in the order of insertion
          verbosity,     \* gStdLog().verbosity
          phase,         \* "api", or where CliMain is
          exit           \* "none", the exit code, or "ub"
cliVars == <<argv, arg, flags, verbosity, phase, exit>>
unit == <<files, result>>

FlagIds == {"ModeComp", "ModeDev", "ModeHelp", "ModeVersion", "DriverIoSilent", "DriverIoVerbose",
            "DriverIoDebug", "NoOverwrite", "OutDir", "AuxDir", "Sources", "Define"}
FlagValues == STRING \cup {""}   \* which is STRING, but the prover does not know
ParsedFlags == [id : FlagIds, value : FlagValues]
Flag(id, interp, short, long) == [id |-> id, interp |-> interp, short |-> short, long |-> long]
MainParserFlags ==
  << Flag("ModeComp", "Cmd", "c", "comp"), Flag("ModeDev", "Cmd", "z", "dev"),
     Flag("ModeHelp", "Cmd", "h", "help"), Flag("ModeVersion", "Cmd", "v", "version"),
     Flag("DriverIoSilent", "Opt", " ", "driver-io-silent"),
     Flag("DriverIoVerbose", "Opt", " ", "driver-io-verbose"),
     Flag("DriverIoDebug", "Opt", " ", "driver-io-debug"),
     Flag("NoOverwrite", "Opt", " ", "no-overwrite") >>
CompModeFlags ==
  << Flag("OutDir", "Single", "O", "out-dir"), Flag("AuxDir", "Single", "A", "aux-dir"),
     Flag("Sources", "Positional", " ", ""), Flag("Define", "VarDef", "D", "define") >>
FlagsAtHand == IF phase = "main" THEN MainParserFlags ELSE CompModeFlags

(* The lookup tables; of flags with the same name the last one is found.   *)
Named(a) == {i \in DOMAIN FlagsAtHand :
               a.name = IF a.form = "long" THEN FlagsAtHand[i].long ELSE FlagsAtHand[i].short}
Of(interp) == {i \in DOMAIN FlagsAtHand : FlagsAtHand[i].interp = interp}
Parsed(id) == {i \in DOMAIN flags : flags[i].id = id}

CliInit ==
  /\ arg = 1 /\ flags = <<>> /\ verbosity = "std" /\ exit = "none"
  /\ \/ files \in Units /\ result = "running" /\ argv = <<>> /\ phase = "api"
     \/ files = <<>> /\ result = "idle" /\ argv \in CommandLines /\ phase = "main"

------------------------------------------------------------------------------
(* Parser::Parse, one argument per step.                                   *)

Parsing == phase \in {"main", "comp"} /\ UNCHANGED <<unit, argv>>
ThisArg == argv[arg]
Exit(code) == exit' = code /\ phase' = "ended" /\ UNCHANGED <<arg, flags>>
Take(flag, value, n) ==
  /\ flags' = Append(flags, [id |-> flag.id, value |-> value])
  /\ arg' = arg + n
  /\ UNCHANGED <<verbosity, phase, exit>>

(* ConfigLoggerVerbosity, after the main parser has ended in any way: each *)
(* of its flags silences.                                                  *)
LeaveMain ==
  verbosity' = IF phase = "main" /\ \E f \in {"DriverIoSilent", "DriverIoVerbose", "DriverIoDebug"} :
                                      Parsed(f) # {}
               THEN "silent" ELSE verbosity

(* Commands, positional arguments and definitions given as flags reach the *)
(* std::unreachable of the switch, a value missing at the end is looked at *)
(* behind the end.                                                         *)
(* (ParseFlagAlone leaves the value where the next round finds it.)        *)
ParseFlagAlone ==
  /\ Parsing /\ arg <= Len(argv) /\ ThisArg.form # "plain"
  /\ IF Named(ThisArg) = {} THEN Exit("1") /\ LeaveMain
     ELSE LET flag == FlagsAtHand[Max(Named(ThisArg))]
          IN CASE flag.interp = "Opt" -> Take(flag, "", 1)
               [] flag.interp = "Single" /\ arg < Len(argv) ->
                    IF argv[arg + 1].form # "plain" THEN Exit("1") /\ LeaveMain
                    ELSE Take(flag, argv[arg + 1].name, 1)
               [] OTHER -> Exit("ub") /\ UNCHANGED verbosity
ParseFlag ==
  /\ Parsing /\ arg <= Len(argv) /\ ThisArg.form # "plain"
  /\ IF Named(ThisArg) = {} THEN Exit("1") /\ LeaveMain
     ELSE LET flag == FlagsAtHand[Max(Named(ThisArg))]
          IN CASE flag.interp = "Opt" -> Take(flag, "", 1)
               [] flag.interp = "Single" /\ arg < Len(argv) ->
                    IF argv[arg + 1].form # "plain" THEN Exit("1") /\ LeaveMain
                    ELSE Take(flag, argv[arg + 1].name, 2)
               [] OTHER -> Exit("ub") /\ UNCHANGED verbosity

(* Each positional flag takes one argument, also a repeatable one.         *)
ParsePositional ==
  /\ Parsing /\ arg <= Len(argv) /\ ThisArg.form = "plain"
  /\ \E i \in Of("Positional") :
       /\ Parsed(FlagsAtHand[i].id) = {}
       /\ Take(FlagsAtHand[i], ThisArg.name, 1)

(* A command ends the main parser; CliMain knows one of the four.          *)
ParseCommand ==
  /\ Parsing /\ arg <= Len(argv) /\ ThisArg.form = "plain"
  /\ \A i \in Of("Positional") : Parsed(FlagsAtHand[i].id) # {}
  /\ LeaveMain
  /\ IF \E i \in Of("Cmd") : FlagsAtHand[i].long = ThisArg.name /\ FlagsAtHand[i].id = "ModeComp"
     THEN /\ arg' = arg + 1
          /\ phase' = "comp"
          /\ UNCHANGED <<flags, exit>>
     ELSE Exit("1")

NoCommand ==
  /\ Parsing /\ phase = "main" /\ arg > Len(argv)
  /\ LeaveMain
  /\ Exit("1")

------------------------------------------------------------------------------
(* ConfigTranslationInput and the call of Translate.                       *)
Nth(k, S) == CHOOSE i \in S : Cardinality({j \in S : j < i}) = k - 1
InputFiles ==
  LET given == Parsed("Sources")
  IN [k \in 1 .. Cardinality(given) |-> Disk[flags[Nth(k, given)].value]]
Translate ==
  /\ phase = "comp" /\ arg > Len(argv)
  /\ files' = InputFiles
  /\ result' = "running"
  /\ phase' = "translating"
  /\ UNCHANGED <<argv, arg, flags, verbosity, exit>>

(* A step of the translation, which Compiler details.                      *)
Translates ==
  /\ result = "running" /\ result' \in {"running"} \cup Outcomes
  /\ UNCHANGED <<files, cliVars>>

(* The value that the sources return is printed and is not the exit code.  *)
(* (EndUnchecked is CliMain without the test of tr_res.)                   *)
EndUnchecked ==
  /\ phase = "translating" /\ result # "running"
  /\ phase' = "ended"
  /\ exit' = IF result \in {"ok", "failed"} THEN "0" ELSE "ub"
  /\ UNCHANGED <<unit, argv, arg, flags, verbosity>>
HandlePostCompilation ==
  /\ phase = "translating" /\ result # "running"
  /\ phase' = "ended"
  /\ exit' = CASE result = "ok" -> "0" [] result = "failed" -> "1" [] OTHER -> "ub"
  /\ UNCHANGED <<unit, argv, arg, flags, verbosity>>

CliMain == ParseFlag \/ ParsePositional \/ ParseCommand \/ NoCommand
           \/ Translate \/ HandlePostCompilation
CliNext == CliMain \/ Translates
CliSpec == CliInit /\ [][CliNext]_<<unit, cliVars>>

------------------------------------------------------------------------------
(* Where the command is comp, the exit code tells how the translation went: *)
(* 0 if and only if it ended well, and 1 if it was given up; otherwise 1   *)
(* only if the line could not be read and nothing was translated.          *)
Command == CHOOSE c \in DOMAIN argv : argv[c].form = "plain" /\ \A i \in 1 .. (c - 1) : argv[i].form # "plain"
Composes == (\E i \in DOMAIN argv : argv[i].form = "plain") /\ argv[Command] = Plain("comp")
ExitTells ==
  Composes /\ phase = "ended" =>
    /\ exit = "0" <=> result = "ok"
    /\ result = "failed" => exit = "1"
    /\ exit = "1" => result \in {"idle", "failed"}

(* What is translated is what the line names by the grammar of             *)
(* CliParser.hpp:48-52: behind the first plain argument, the command comp, *)
(* each plain argument that is not the value of the flag before it.  The   *)
(* parser takes no value for a source, no source for a value, and a line   *)
(* it cannot read so is not translated in part.                            *)
TakesValue == {Short("O"), Short("A"), Long("out-dir"), Long("aux-dir")}
NamedSources ==
  {i \in DOMAIN argv : i > Command /\ argv[i].form = "plain" /\ argv[i - 1] \notin TakesValue}
TranslatesWhatIsNamed ==
  phase \in {"translating", "ended"} /\ result # "idle" =>
    /\ argv[Command] = Plain("comp")
    /\ files = [k \in 1 .. Cardinality(NamedSources) |-> Disk[argv[Nth(k, NamedSources)].name]]
=============================================================================
