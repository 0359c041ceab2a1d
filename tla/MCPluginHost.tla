----------------------------- MODULE MCPluginHost ------------------------------
(* Model values for PluginHost.                                            *)
EXTENDS PluginHost, TLC

CONSTANTS eventql, hostname, other, broken

MCNames == {"logfile", "hostname", "eventql"}
Output(name, functions) == [key |-> <<"output", name>>, functions |-> functions]
Source(name, functions) == [key |-> <<"source", name>>, functions |-> functions]

(* The two plugins of the repository; one that has all there is and takes  *)
(* names that are taken; a file that is not a library.                     *)
MCLibrary ==
    (eventql :> [opens |-> TRUE, entry |-> "eventql",
                 registers |-> <<Output("eventql", {"attach", "detach"})>>])
 @@ (hostname :> [opens |-> TRUE, entry |-> "hostname",
                  registers |-> <<Source("hostname", {})>>])
 @@ (other :> [opens |-> TRUE, entry |-> "hostname",
               registers |-> <<Source("logfile", {"init"}),
                               Source("hostname", Optional),
                               Output("eventql", Optional \ {"hasnextevent"})>>])
 @@ (broken :> [opens |-> FALSE, entry |-> "hostname", registers |-> <<>>])

Named(name, file) ==
    [safe |-> TRUE, name |-> name, asIs |-> None, inDir |-> None, soInDir |-> file]
Path(name, file) ==
    [safe |-> FALSE, name |-> name, asIs |-> file, inDir |-> None, soInDir |-> None]

(* As they should be; one missing; a library twice, or before or after one *)
(* with the same names; no plugin_<name>; the wrong name; no file; a file  *)
(* that is no library in front of one that is.                             *)
Loads ==
    {<<Named("eventql", eventql), Named("hostname", hostname)>>,
     <<Named("hostname", hostname)>>,
     <<Path("hostname", other), Named("hostname", other)>>,
     <<Path("hostname", other), Named("hostname", hostname), Named("eventql", eventql)>>,
     <<Named("hostname", hostname), Path("hostname", other), Path(None, eventql)>>,
     <<Path("eventql", other)>>,
     <<Named("hostname", None)>>,
     <<[Path("hostname", broken) EXCEPT !.soInDir = hostname]>>}

Hostname == <<"source", "hostname">>
Eventql == <<"output", "eventql">>

(* Events with none, one, two and three sources, then targets.             *)
Adds ==
    {<< <<Hostname>>, <<Eventql>>, <<Eventql>> >>,
     << <<Logfile, Hostname, Hostname>>, <<>>, <<Hostname>>, <<Eventql>> >>}

MCSetups == [load : Loads, bindings : Adds]
================================================================================
