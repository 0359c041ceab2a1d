----------------------------- MODULE PropertyLists -----------------------------
(***************************************************************************)
(* Property lists (config.cc) and what the two plugins that have options   *)
(* make of one when they are attached: pluginAttach of the EventQL target  *)
(* and of the log file source, up to the point where they start.           *)
(*                                                                         *)
(* A property is a key with any number of values, keys may repeat.  What a *)
(* loop over the list finds is the first property it returns at.           *)
(***************************************************************************)
EXTENDS Integers, Sequences, FiniteSets

CONSTANTS
    Lists,          \* the property lists that are tried
    Values,         \* of properties
    StoulOf,        \* what std::stoul makes of a value, None if it throws
    Regex,          \* what pcre_compile makes of a value: whether it compiles,
                    \* and its groups: the length of the name, 0 without one
    Default,        \* of each option
    Modulus,        \* bound: stands for 2^64, the numbers of a uint64_t
    None            \* no value, and no number

Text == {"hostname", "username", "password", "auth_token", "logfile"}
Numeric == {"port", "http_timeout", "queue_maxlen"}
Settings == Text \union Numeric \union {"regex"}

(* A port is cut down to 16 bits, a negative number is a large one.        *)
Ports == 65536
Width(option) == IF option = "port" THEN Ports ELSE Modulus

ASSUME ListsAssumption == Lists \subseteq Seq([key : STRING, values : Seq(Values)])
ASSUME ValuesAssumption ==
    /\ None \notin Values
    /\ StoulOf \in [Values -> Int \union {None}]
    /\ Regex \in [Values -> [compiles : BOOLEAN, groups : Seq(Nat)]]
ASSUME ModulusAssumption == Modulus \in Nat \ {0} /\ Modulus % Ports = 0
ASSUME DefaultAssumption ==
    /\ DOMAIN Default = Settings
    /\ \A option \in Numeric : Default[option] \in 0..(Width(option) - 1)
ASSUME NoneAssumption == None \notin Int \union {"attached", "refused"}

VARIABLES
    list,           \* config
    attaching,      \* the plugin
    at,             \* how many of its options pluginAttach has looked at
    outcome,        \* of pluginAttach, None until it returns
    options,        \* the options so far
    route,          \* the arguments of the route that is being read
    routes          \* routes_

attach == <<list, attaching, at, outcome, options, route, routes>>

(* The order in which pluginAttach looks at its options.                   *)
Order == [eventql |-> <<"hostname", "port", "username", "password", "auth_token",
                        "http_timeout", "queue_maxlen">>,
          logfile |-> <<"logfile", "regex">>]

AttachInit ==
    /\ list \in Lists
    /\ attaching \in {"eventql", "logfile"}
    /\ at = 0
    /\ outcome = None
    /\ options = Default
    /\ route = <<>>
    /\ routes = <<>>

-----------------------------------------------------------------------------
First(S) == CHOOSE k \in S : \A m \in S : k <= m

(* The properties of a key, those with a value, and the one that has i     *)
(* others of its key before it.                                            *)
Of(key) == {k \in 1..Len(list) : list[k].key = key}
Filled(key) == {k \in Of(key) : list[k].values # <<>>}
Nth(key, i) == {k \in Of(key) : Cardinality({m \in Of(key) : m < k}) = i}

(* get without the check for a property that has no values.                *)
GetFirst(key) ==
    IF Of(key) = {} \/ list[First(Of(key))].values = <<>> THEN None
    ELSE list[First(Of(key))].values[1]

(* get: the first value of the first property of that key that has one.    *)
Get(key) == IF Filled(key) = {} THEN None ELSE list[First(Filled(key))].values[1]

(* getv: the value j of the property i of that key, both counted from 0.   *)
GetV(key, i, j) ==
    LET found == {k \in Nth(key, i) : j + 1 <= Len(list[k].values)}
    IN  IF found = {} THEN None ELSE list[First(found)].values[j + 1]

-----------------------------------------------------------------------------
Option == Order[attaching][at + 1]
Reading(kind) == outcome = None /\ at < Len(Order[attaching]) /\ Option \in kind

Set(value) ==
    /\ options' = [options EXCEPT ![Option] = value]
    /\ at' = at + 1
    /\ UNCHANGED <<list, attaching, outcome, route, routes>>

Refuse ==
    /\ outcome' = "refused"
    /\ UNCHANGED <<list, attaching, at, options, route, routes>>

(* An option that is not given keeps its default.  A log file has none.    *)
ReadText ==
    /\ Reading(Text)
    /\ \/ Get(Option) # None /\ Set(Get(Option))
       \/ Get(Option) = None /\ Option # "logfile" /\ Set(options[Option])
       \/ Get(Option) = None /\ Option = "logfile" /\ Refuse

ReadNumber ==
    /\ Reading(Numeric)
    /\ LET value == Get(Option)
       IN  \/ value = None /\ Set(options[Option])
           \/ value # None /\ StoulOf[value] = None /\ Refuse
           \/ /\ value # None /\ StoulOf[value] # None
              /\ Set(StoulOf[value] % Width(Option))

(* setRegex: the name of a group is read together with what follows it in  *)
(* a table whose entries are as long as the longest name.                  *)
Longest(groups) ==
    CHOOSE n \in {groups[g] : g \in DOMAIN groups} : \A g \in DOMAIN groups : groups[g] <= n
Fields(groups) ==
    [g \in DOMAIN groups |->
       IF groups[g] = 0 THEN None
       ELSE [name |-> groups[g], nuls |-> Longest(groups) - groups[g]]]

ReadRegex ==
    /\ Reading({"regex"})
    /\ LET value == Get("regex")
       IN  \/ value = None /\ Set(options["regex"])
           \/ /\ value # None
              /\ LET r == Regex[value]
                     usable == r.compiles /\ \E g \in DOMAIN r.groups : r.groups[g] # 0
                 IN  (usable /\ Set(Fields(r.groups))) \/ (~usable /\ Refuse)

(* The loop over j in pluginAttach: the arguments of the next route.       *)
ReadingRoute == attaching = "eventql" /\ outcome = None /\ at = Len(Order.eventql)
NextArgument == GetV("route", Len(routes), Len(route))

ReadArgument ==
    /\ ReadingRoute
    /\ NextArgument # None
    /\ route' = Append(route, NextArgument)
    /\ UNCHANGED <<list, attaching, at, outcome, options, routes>>

(* The loop over i.  It ends at the first route that has no arguments.     *)
ReadRoute ==
    /\ ReadingRoute
    /\ NextArgument = None
    /\ \/ route = <<>> /\ outcome' = "attached" /\ UNCHANGED <<route, routes>>
       \/ Len(route) \notin {0, 2} /\ outcome' = "refused" /\ UNCHANGED <<route, routes>>
       \/ /\ Len(route) = 2
          /\ routes' = Append(routes, route)
          /\ route' = <<>>
          /\ UNCHANGED outcome
    /\ UNCHANGED <<list, attaching, at, options>>

LogfileAttached ==
    /\ attaching = "logfile"
    /\ outcome = None
    /\ at = Len(Order.logfile)
    /\ outcome' = "attached"
    /\ UNCHANGED <<list, attaching, at, options, route, routes>>

AttachNext ==
    ReadText \/ ReadNumber \/ ReadRegex \/ ReadArgument \/ ReadRoute \/ LogfileAttached

AttachSpec == AttachInit /\ [][AttachNext]_attach

-----------------------------------------------------------------------------
(* Every variable has its type, and a number fits where it is kept.        *)
AttachTypeOK ==
    /\ list \in Lists
    /\ attaching \in DOMAIN Order
    /\ at \in 0..Len(Order[attaching])
    /\ outcome \in {None, "attached", "refused"}
    /\ DOMAIN options = Settings
    /\ \A option \in Numeric : options[option] \in 0..(Width(option) - 1)
    /\ route \in Seq(Values)
    /\ routes \in Seq(Seq(Values))

(* What may be said of a key in the list: its first value is one.          *)
FirstOf(key) == {k \in Filled(key) : \A m \in Filled(key) : k <= m}

Valid(key) ==
    /\ key = "logfile" => Filled(key) # {}
    /\ \A k \in FirstOf(key) :
          LET value == list[k].values[1]
          IN  /\ key \in Numeric => StoulOf[value] # None
              /\ key = "regex" =>
                    /\ Regex[value].compiles
                    /\ \E g \in DOMAIN Regex[value].groups : Regex[value].groups[g] # 0

(* Every route has two arguments, up to the first that has none.           *)
ValidRoutes ==
    \A k \in Of("route") :
       (\A m \in Of("route") : m <= k => list[m].values # <<>>) => Len(list[k].values) = 2

(* What an option is after it was read.                                    *)
Says(key, setting) ==
    /\ Filled(key) = {} => setting = Default[key]
    /\ \A k \in FirstOf(key) :
          LET value == list[k].values[1]
          IN  /\ key \in Text => setting = value
              /\ key \in Numeric => /\ setting \in 0..(Width(key) - 1)
                                   /\ (setting - StoulOf[value]) % Width(key) = 0
              /\ key = "regex" =>
                    \A g \in DOMAIN setting :
                       LET n == Regex[value].groups[g]
                       IN  IF n = 0 THEN setting[g] = None ELSE setting[g].name = n

(* The routes are those in the list, in its order, as far as the first     *)
(* that has no arguments.                                                  *)
RoutesAsListed ==
    /\ \A n \in DOMAIN routes : \E k \in Nth("route", n - 1) : routes[n] = list[k].values
    /\ \A k \in Nth("route", Len(routes)) : list[k].values = <<>>

(* A plugin is attached with what its properties say: each option has the  *)
(* first value that is given for it, or else its default, and the routes   *)
(* are those in the list, each with its two arguments.  It is refused      *)
(* when, and only when, an option or a route cannot be read, whatever else *)
(* is in the list.                                                         *)
AttachedAsListed ==
    LET keys == {Order[attaching][n] : n \in DOMAIN Order[attaching]}
        valid == /\ \A key \in keys : Valid(key)
                 /\ attaching = "eventql" => ValidRoutes
    IN  /\ outcome = "refused" => ~valid
        /\ outcome = "attached" =>
             /\ valid
             /\ \A key \in Settings :
                  IF key \in keys THEN Says(key, options[key]) ELSE options[key] = Default[key]
             /\ IF attaching = "eventql" THEN RoutesAsListed ELSE routes = <<>>
===============================================================================
