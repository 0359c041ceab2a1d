------------------------------ MODULE CommandLine ------------------------------
(***************************************************************************)
(* What evcollectd makes of its command line: FlagParser::parseArgv        *)
(* (flagparser.cc) with the flags that main defines, and main up to the    *)
(* creation of the service (evcollectd.cc).                                *)
(*                                                                         *)
(* An argument is told apart by the flag it resembles, and how: by the     *)
(* long name ("--f"), the long name with an equals sign at the end         *)
(* ("--f="), the same with more behind it ("--f=v"), the short name ("-f") *)
(* or the short name with more behind it ("-fv").  Anything else is a      *)
(* "word", the empty one included.  No short name begins another, so an    *)
(* argument resembles one flag at most, and "-pidfile" resembles --plugin. *)
(***************************************************************************)
EXTENDS Integers, Sequences, FiniteSets

CONSTANTS
    Argvs           \* the command lines, without the name of the program

Switch == {"help", "version", "daemonize", "log_to_syslog", "nolog_to_stderr"}
String == {"spool_dir", "config", "plugin", "plugin_path", "loglevel", "pidfile"}
Flag == Switch \union String
HasShort == {"help", "version", "spool_dir", "config", "plugin", "plugin_path"}

Form == {"--f", "--f=", "--f=v", "-f", "-fv", "word"}
Final == {"service", "exit0", "exit1", "abort"}
Levels == {"INFO", "DEBUG"}
Words == Levels \union {"", "w", "true", "plugins", "hostname", "eventql"}
Argument == [form : Form, of : Flag \union Words]

ASSUME ArgvsAssumption == Argvs \subseteq Seq(Argument)

Plain(w) == [form |-> "word", of |-> w]
Empty == Plain("")

DefaultValue == [plugin_path |-> Plain("plugins"), loglevel |-> Plain("INFO")]

VARIABLES
    argv,       \* the command line
    i,          \* the index of parseArgv, counted from 1
    values,     \* flags_[..].values
    rest,       \* argv_, what is left over
    stage,      \* where main is
    conf,       \* the ProcessConfig
    log         \* where messages go to

flagVars == <<argv, i, values, rest, stage, conf, log>>

(* An argument with a value in it, "--f=v", is not recognised.             *)
Matches(arg, f) ==
    /\ arg.of = f
    /\ \/ arg.form \in {"--f", "--f="}
       \/ arg.form \in {"-f", "-fv"} /\ f \in HasShort

NoConf == [plugin_dir |-> Empty, spool_dir |-> Empty, load_plugins |-> <<>>]

FlagsInit ==
    /\ argv \in Argvs
    /\ i = 1
    /\ values = [f \in Flag |-> <<>>]
    /\ rest = <<>>
    /\ stage = "parse"
    /\ conf = NoConf
    /\ log = {}

-----------------------------------------------------------------------------
Parsing == stage = "parse" /\ i <= Len(argv)
IsFlag(arg) == \E f \in Flag : Matches(arg, f)

(* An empty argument is passed over, anything unknown is left over.        *)
LeaveArg ==
    /\ Parsing
    /\ ~IsFlag(argv[i])
    /\ rest' = IF argv[i] = Empty THEN rest ELSE Append(rest, argv[i])
    /\ i' = i + 1
    /\ UNCHANGED <<argv, values, stage, conf, log>>

SetSwitch(f) ==
    /\ Parsing
    /\ Matches(argv[i], f)
    /\ values' = [values EXCEPT ![f] = Append(@, Plain("true"))]
    /\ i' = i + 1
    /\ UNCHANGED <<argv, rest, stage, conf, log>>

(* A value that is looked at once more, as an argument of its own.         *)
TakeValueTwice(f) ==
    /\ Parsing
    /\ Matches(argv[i], f)
    /\ IF argv[i].form = "--f=" \/ i = Len(argv)
       THEN stage' = "exit1" /\ UNCHANGED <<i, values>>
       ELSE /\ values' = [values EXCEPT ![f] = Append(@, argv[i + 1])]
            /\ i' = i + 1
            /\ UNCHANGED stage
    /\ UNCHANGED <<argv, rest, conf, log>>

(* The value is the next argument, whatever it looks like.  There is none  *)
(* behind an equals sign and none at the end.                              *)
TakeValue(f) ==
    /\ Parsing
    /\ Matches(argv[i], f)
    /\ IF argv[i].form = "--f=" \/ i = Len(argv)
       THEN stage' = "exit1" /\ UNCHANGED <<i, values>>
       ELSE /\ values' = [values EXCEPT ![f] = Append(@, argv[i + 1])]
            /\ i' = i + 2
            /\ UNCHANGED stage
    /\ UNCHANGED <<argv, rest, conf, log>>

ParseArg ==
    \/ LeaveArg
    \/ \E f \in Switch : SetSwitch(f)
    \/ \E f \in String : TakeValue(f)

-----------------------------------------------------------------------------
IsSet(f) == f \in DOMAIN DefaultValue \/ values[f] # <<>>

(* What isSet, getString and getStrings of FlagParser return.              *)
GetString(f) ==
    IF values[f] # <<>> THEN values[f][Len(values[f])]
    ELSE IF f \in DOMAIN DefaultValue THEN DefaultValue[f] ELSE Empty

(* No flag is required by the parser.  A log level that is none fails an   *)
(* assertion.                                                              *)
SetUpLogging ==
    /\ stage = "parse"
    /\ i > Len(argv)
    /\ log' = {l \in {"stderr", "syslog"} :
                 IF l = "syslog" THEN IsSet("log_to_syslog")
                 ELSE ~IsSet("nolog_to_stderr") /\ ~IsSet("daemonize")}
    /\ stage' = IF GetString("loglevel") \in {Plain(l) : l \in Levels}
                THEN "help" ELSE "abort"
    /\ UNCHANGED <<argv, i, values, rest, conf>>

PrintHelp ==
    /\ stage = "help"
    /\ stage' = IF IsSet("version") \/ IsSet("help") THEN "exit0" ELSE "config"
    /\ UNCHANGED <<argv, i, values, rest, conf, log>>

(* loadConfig does not open the file: what it fills in is fixed.           *)
LoadConfig ==
    /\ stage = "config"
    /\ IF GetString("config") = Empty THEN stage' = "exit1" /\ UNCHANGED conf
       ELSE /\ conf' = [conf EXCEPT
                   !.plugin_dir = GetString("plugin_path"),
                   !.load_plugins = @ \o <<Plain("hostname"), Plain("eventql")>>]
            /\ stage' = "spool_dir"
    /\ UNCHANGED <<argv, i, values, rest, log>>

SetSpoolDir ==
    /\ stage = "spool_dir"
    /\ IF GetString("spool_dir") = Empty THEN stage' = "exit1" /\ UNCHANGED conf
       ELSE /\ conf' = [conf EXCEPT !.spool_dir = GetString("spool_dir"),
                                    !.load_plugins = @ \o values["plugin"]]
            /\ stage' = "service"
    /\ UNCHANGED <<argv, i, values, rest, log>>

FlagsNext == ParseArg \/ SetUpLogging \/ PrintHelp \/ LoadConfig \/ SetSpoolDir

FlagsSpec == FlagsInit /\ [][FlagsNext]_flagVars

-----------------------------------------------------------------------------
(* Every variable has its type.                                            *)
FlagsTypeOK ==
    /\ argv \in Seq(Argument)
    /\ i \in 1..(Len(argv) + 1)
    /\ values \in [Flag -> Seq(Argument)]
    /\ rest \in Seq(Argument)
    /\ stage \in {"parse", "help", "config", "spool_dir"} \union Final
    /\ conf \in [plugin_dir : Argument, spool_dir : Argument,
                 load_plugins : Seq(Argument)]
    /\ log \subseteq {"stderr", "syslog"}

(* An argument is the value of the flag before it, unless that one is a    *)
(* value itself: those flags that take a value and stand right before it,  *)
(* one behind the other, are odd in number.                                *)
TakesValue(k) == \E f \in String : Matches(argv[k], f)
IsValue(k) ==
    Cardinality({j \in 1..(k - 1) : \A m \in j..(k - 1) : TakesValue(m)}) % 2 = 1

(* The positions of a flag on the command line, and the last one.          *)
Positions(f) == {k \in 1..Len(argv) : Matches(argv[k], f) /\ ~IsValue(k)}
IsLast(k, f) == k \in Positions(f) /\ \A m \in Positions(f) : m <= k

(* A service is only created by a command line that asks for it, and as    *)
(* that says: every flag has a value, a configuration and a spool          *)
(* directory are given, the last one counts, neither help nor the version  *)
(* is asked for, and the plugins of the configuration are loaded before    *)
(* those of the command line, in its order.  The log level is one there    *)
(* is, and what starts in the background does not write to the terminal.   *)
StartedAsTold ==
    stage = "service" =>
        /\ Positions("help") \union Positions("version") = {}
        /\ \A f \in String : \A k \in Positions(f) :
              k < Len(argv) /\ argv[k].form # "--f="
        /\ \E k \in 1..Len(argv) : IsLast(k, "config") /\ argv[k + 1] # Empty
        /\ \E k \in 1..Len(argv) : /\ IsLast(k, "spool_dir")
                                   /\ conf.spool_dir = argv[k + 1] /\ argv[k + 1] # Empty
        /\ Len(conf.load_plugins) = 2 + Cardinality(Positions("plugin"))
        /\ conf.load_plugins[1] = Plain("hostname") /\ conf.load_plugins[2] = Plain("eventql")
        /\ \A k \in Positions("plugin") :
              conf.load_plugins[2 + Cardinality({m \in Positions("plugin") : m <= k})] =
                 argv[k + 1]
        /\ \A k \in 1..Len(argv) :
              IsLast(k, "loglevel") => argv[k + 1] \in {Plain(l) : l \in Levels}
        /\ Positions("daemonize") # {} => "stderr" \notin log
===============================================================================
