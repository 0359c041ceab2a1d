------------------------------ MODULE MCStartup -------------------------------
(* What the program reads: command lines for CommandLine, texts for        *)
(* Config, property lists for PropertyLists.  The three do not touch each  *)
(* other, since loadConfig reads no file.                                  *)
EXTENDS Config, CommandLine, PropertyLists

(* Where one of the inputs is empty TLC looks the empty one up: it is the  *)
(* first element of the sets below.                                        *)
SeqsUpTo(S, n) == UNION {[1..k -> S] : k \in 0..n}

(* Every text of at most three pieces, and of at most five of those that   *)
(* comments and strings are made of.                                       *)
Pieces == {"plugin", "w", "number", "LF", "CR", "quote", "slash", "space", "hash",
           "star", "backslash"}
Short == SeqsUpTo(Pieces, 3) \union SeqsUpTo({"slash", "star", "w", "LF"}, 5)
                             \union SeqsUpTo({"quote", "backslash", "w", "space"}, 5)

(* Words and numbers with blanks between them, behind a text.              *)
Spaced(words) ==
    [k \in 1..(2 * Len(words)) |-> IF k % 2 = 0 THEN "space" ELSE words[(k + 1) \div 2]]
Tokens == {"plugin", "event", "source", "output", "interval", "number", "LF"}
Behind(start, n) == {Spaced(start \o words) : words \in SeqsUpTo(Tokens, n)}

PluginLine == <<"plugin", "w", "LF">>
EventLine == <<"event", "w", "LF">>
SourceLine == <<"source", "w", "w">>

MCTexts ==
    {<<>>} \union Short \union Behind(<<>>, 3) \union Behind(PluginLine, 3)
          \union Behind(EventLine, 3) \union Behind(EventLine \o SourceLine, 3)
          \union Behind(EventLine \o SourceLine \o SourceLine, 3)
          \union Behind(EventLine \o SourceLine \o <<"LF">>, 3)
          \union {Spaced(EventLine \o SourceLine \o <<"LF">> \o SourceLine \o <<"LF">>)}

(* Every command line of at most three of these arguments, and one of them *)
(* before and two behind the shortest one that starts the daemon.          *)
Arg(form, f) == [form |-> form, of |-> f]
Args == {
    Arg("--f", "help"), Arg("-fv", "version"), Arg("--f", "daemonize"),
    Arg("--f=", "daemonize"), Arg("-f", "daemonize"), Arg("--f", "nolog_to_stderr"),
    Arg("--f", "log_to_syslog"), Arg("--f", "config"), Arg("-f", "config"),
    Arg("--f=", "config"), Arg("--f=v", "config"), Arg("-f", "spool_dir"),
    Arg("-fv", "plugin"), Arg("--f", "plugin_path"), Arg("--f", "loglevel"),
    Arg("word", ""), Arg("word", "w"), Arg("word", "DEBUG")}
Shortest == <<Arg("-f", "config"), Arg("word", "w"),
              Arg("-f", "spool_dir"), Arg("word", "w")>>

MCArgvs ==
    {<<>>} \union SeqsUpTo(Args, 3)
    \union {before \o Shortest \o after :
              before \in SeqsUpTo(Args, 1), after \in SeqsUpTo(Args, 2)}

(* Lists of up to three properties: of an option, routes with none to      *)
(* three arguments, and those of the configuration that loadConfig makes.  *)
Property(key, given) == [key |-> key, values |-> given]
MCValues == {"", "w", "9", "-1", "70000", "()", "(?<a>)", "(?<ab>)()(?<c>)", "("}
MCStoulOf == [v \in MCValues |->
               CASE v = "9" -> 9 [] v = "-1" -> -1 [] v = "70000" -> 70000 [] OTHER -> None]
MCRegex == [v \in MCValues |->
              [compiles |-> v # "(",
               groups |-> CASE v = "()" -> <<0>>
                            [] v = "(?<a>)" -> <<1>>
                            [] v = "(?<ab>)()(?<c>)" -> <<2, 0, 1>>
                            [] OTHER -> <<>>]]
MCDefault ==
    [hostname |-> "localhost", port |-> 9175, http_timeout |-> 1024, queue_maxlen |-> 8192,
     username |-> "", password |-> "", auth_token |-> "", logfile |-> "", regex |-> None]

Lines(key, S) == {Property(key, <<>>)} \union {Property(key, <<v>>) : v \in S}
Numbers == {"", "9", "-1", "70000"}
Regexes == {"()", "(?<a>)", "(?<ab>)()(?<c>)", "("}
Routes == {Property("route", SubSeq(<<"w", "9", "">>, 1, n)) : n \in 0..3}
MCLists ==
    {<<>>} \union UNION {SeqsUpTo(S, 3) :
             S \in {Lines("port", Numbers) \union Lines("queue_maxlen", Numbers),
                    Lines("hostname", {"", "w"}) \union Lines("http_timeout", {"", "9"}),
                    Lines("logfile", {"", "w"}) \union Lines("regex", Regexes)}}
    \union SeqsUpTo(Routes \union {Property("auth_token", <<"w">>)}, 4)

(* Of the three inputs two are empty.                                      *)
NoArgs == argv = <<>>
NoText == text = <<>> /\ pc = "goal"
NoList == list = <<>> /\ attaching = "logfile"
MCInit ==
    /\ (NoText /\ NoList) \/ (NoArgs /\ NoList) \/ (NoArgs /\ NoText)
    /\ Init /\ FlagsInit /\ AttachInit

MCNext ==
    \/ FlagsNext /\ UNCHANGED <<vars, attach>>
    \/ stage \in Final /\ Next /\ UNCHANGED <<flagVars, attach>>
    \/ argv = <<>> /\ text = <<>> /\ AttachNext /\ UNCHANGED <<vars, flagVars>>

MCVars == <<vars, flagVars, attach>>
MCSpec == MCInit /\ [][MCNext]_MCVars /\ WF_MCVars(MCNext)

(* Reading anything comes to an end: the parser and its caller return, see *)
(* Config, and so does pluginAttach, whatever the list.                    *)
ReadReturns == ParseReturns /\ <>(argv = <<>> /\ text = <<>> => outcome # None)
===============================================================================
