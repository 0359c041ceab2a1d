------------------------------ MODULE PluginHost -------------------------------
(***************************************************************************)
(* The host of the plugins (plugin.cc and the parts of service.cc that     *)
(* call it), one C call at a time: libraries are found, opened and closed, *)
(* their init functions register source and output plugins in PluginMap,   *)
(* and the Dynamic*Plugin wrappers call the functions that were registered. *)
(* A call into a plugin has a beginning and an end, between which the code *)
(* of its library runs.                                                    *)
(*                                                                         *)
(* What events are made of is the business of module Service; here any     *)
(* plugin in use may be asked for anything next.                           *)
(***************************************************************************)
EXTENDS Integers, Sequences, SequencesExt

CONSTANTS
    Libraries,  \* the shared objects there are
    Library,    \* what is in each of them
    Names,      \* of plugins
    Setups,     \* what the daemon may be told to load and to attach
    Program,    \* where the code of the built-in plugin is
    None        \* no file, no name, no binding, no call

Keys == {"source", "output"} \X Names
Optional == {"init", "attach", "detach", "hasnextevent", "free"}
Needed(key) == IF key[1] = "source" THEN {"getnextevent"} ELSE {"emitevent"}

(* A call of evcollect_source_plugin_register or of its output twin: the   *)
(* functions that are not NULL.                                            *)
Registration ==
    {r \in [key : Keys, functions : SUBSET Optional] :
       "hasnextevent" \in r.functions => r.key[1] = "source"}

(* Whether dlopen succeeds, the N of its plugin_N_init and what that does. *)
Content == [opens : BOOLEAN, entry : Names, registers : Seq(Registration)]

(* The value of --plugin: shell-safe or not, the <name> in it, and the     *)
(* libraries at the places where it is looked for.                         *)
File == Libraries \union {None}
Argument == [safe : BOOLEAN, name : Names \union {None},
             asIs : File, inDir : File, soInDir : File]

(* The plugins to load, and the plugins each event or target needs.        *)
Setup == [load : Seq(Argument), bindings : Seq(Seq(Keys))]

ASSUME LibraryAssumption == Library \in [Libraries -> Content]
ASSUME SetupsAssumption == Setups \subseteq Setup
ASSUME ProgramAssumption == Program \notin Libraries

(* An entry of PluginMap, where a plugin is attached, and a call into a    *)
(* library, for itself or for a plugin of it.                              *)
Code == Libraries \union {Program}
Bindings == [code : Code, functions : SUBSET Optional, ready : BOOLEAN]
Attachment == [key : Keys, user : Nat \ {0}]
Functions == Optional \union {"getnextevent", "emitevent"}
Calls == [fn : Functions \union {"load"}, code : Code, key : Keys \union {None},
          user : Nat \union {None}, done : Nat]

(* A call as a plugin sees it.                                             *)
PluginCall(fn, key, user) == [fn |-> fn, plugin |-> key, user |-> user]
PluginCalls == [fn : Functions, plugin : Keys, user : Nat \union {None}]

ASSUME NoneAssumption ==
    None \notin Code \union Names \union Nat \union Bindings \union Calls \union PluginCalls

VARIABLES
    setup,      \* what main passes to the service
    pc,         \* where main is
    next,       \* the index of the loop that is running
    handles,    \* how often each library is open
    table,      \* source_plugins_ and output_plugins_
    building,   \* the attachments of the event or target that is being added
    bound,      \* the attachments of all that were added, in order
    freed,      \* ghost: the plugins that were freed
    call        \* the call in progress

plugins == <<handles, table, freed>>
attachments == <<building, bound>>
vars == <<setup, pc, next, plugins, attachments, call>>

Logfile == <<"source", "logfile">>

(* An entry of the map.  Its functions are at code.                        *)
Binding(code, functions) == [code |-> code, functions |-> functions, ready |-> FALSE]

(* The built-in log file source overrides all but pluginFree.              *)
Init ==
    /\ setup \in Setups
    /\ pc = "load"
    /\ next = 1
    /\ handles = [l \in Code |-> IF l = Program THEN 1 ELSE 0]
    /\ table = [key \in Keys |->
                  IF key = Logfile THEN Binding(Program, Optional \ {"free"}) ELSE None]
    /\ building = <<>>
    /\ bound = <<>>
    /\ freed = {}
    /\ call = None

Goto(label) == pc' = label /\ next' = 1

Enter(fn, code, key, user) ==
    call' = [fn |-> fn, code |-> code, key |-> key, user |-> user, done |-> 0]

-----------------------------------------------------------------------------
(* Loading.                                                                *)

(* A name is looked for in the plugin directory, a path also as it is.     *)
Candidates(arg) ==
    IF arg.safe THEN <<arg.inDir, arg.soInDir>>
    ELSE <<arg.asIs, arg.inDir, arg.soInDir>>

(* The first that is there, whether or not it can be loaded.               *)
Located(arg) ==
    LET c == Candidates(arg)
    IN  {c[i] : i \in {i \in DOMAIN c : c[i] # None /\ \A j \in 1..(i - 1) : c[j] = None}}

(* The library can be opened and has the init function of that name.       *)
Loadable(arg) ==
    {l \in Located(arg) : Library[l].opens /\ Library[l].entry = arg.name}

Loading == pc = "load" /\ call = None /\ next <= Len(setup.load)

OpenLibrary ==
    /\ Loading
    /\ \E l \in Loadable(setup.load[next]) :
          /\ handles' = [handles EXCEPT ![l] = @ + 1]
          /\ Enter("load", l, None, None)
    /\ UNCHANGED <<setup, pc, next, table, freed, attachments>>

(* No such file, not a library, or not of this name (then it is closed).   *)
OpenFails ==
    /\ Loading
    /\ Loadable(setup.load[next]) = {}
    /\ Goto("detach")
    /\ UNCHANGED <<setup, plugins, attachments, call>>

(* The registrations of the library that is being loaded.                  *)
Pending == Library[call.code].registers

(* emplace: a name that is taken keeps its plugin.                         *)
Register ==
    /\ call # None
    /\ call.fn = "load"
    /\ call.done < Len(Pending)
    /\ call' = [call EXCEPT !.done = @ + 1]
    /\ LET r == Pending[call.done + 1]
       IN  table' = IF table[r.key] # None THEN table
                    ELSE [table EXCEPT ![r.key] = Binding(call.code, r.functions)]
    /\ UNCHANGED <<setup, pc, next, handles, freed, attachments>>

LoadSucceeds ==
    /\ call # None
    /\ call.fn = "load"
    /\ call.done = Len(Pending)
    /\ call' = None
    /\ next' = next + 1
    /\ UNCHANGED <<setup, pc, plugins, attachments>>

(* A library whose init function failed is closed and main goes on.        *)
LoadFailsGoesOn ==
    /\ call # None
    /\ call.fn = "load"
    /\ call' = None
    /\ handles' = [handles EXCEPT ![call.code] = @ - 1]
    /\ next' = next + 1
    /\ UNCHANGED <<setup, pc, table, freed, attachments>>

(* The init function fails, perhaps with plugins registered already: the   *)
(* library is closed, the plugins stay in the map.                         *)
LoadFails ==
    /\ call # None
    /\ call.fn = "load"
    /\ call' = None
    /\ handles' = [handles EXCEPT ![call.code] = @ - 1]
    /\ Goto("detach")
    /\ UNCHANGED <<setup, table, freed, attachments>>

PluginsLoaded ==
    /\ pc = "load"
    /\ call = None
    /\ next > Len(setup.load)
    /\ Goto("attach")
    /\ UNCHANGED <<setup, plugins, attachments, call>>

-----------------------------------------------------------------------------
(* Calling.                                                                *)

(* attach hands out the userdata, or leaves it to be whatever it was: what *)
(* tells two attachments apart is where the service keeps them.            *)
Fresh == 1 + Len(bound) + Len(building)

(* What it means that the function of the plugin returned and succeeded.   *)
Succeed(fn, key, user) ==
    /\ table' = IF fn = "init" THEN [table EXCEPT ![key].ready = TRUE] ELSE table
    /\ building' = IF fn = "attach" THEN Append(building, [key |-> key, user |-> Fresh])
                   ELSE building
    /\ next' = IF fn = "detach" THEN next + 1 ELSE next
    /\ freed' = IF fn = "free" THEN freed \union {key} ELSE freed
    /\ UNCHANGED <<pc, handles, bound>>

(* A function that is NULL has succeeded.                                  *)
Invoke(fn, key, user) ==
    /\ IF fn \in table[key].functions \union Needed(key)
       THEN Enter(fn, table[key].code, key, user) /\ UNCHANGED <<pc, next, plugins, attachments>>
       ELSE Succeed(fn, key, user) /\ UNCHANGED call
    /\ UNCHANGED setup

Returns ==
    /\ call # None
    /\ call.fn # "load"
    /\ call' = None
    /\ Succeed(call.fn, call.key, call.user)
    /\ UNCHANGED setup

(* getSourcePlugin, getOutputPlugin or addEvent, addTarget pass the error  *)
(* on.  What pluginDetach, pluginFree and the others return changes nothing. *)
ReturnsError ==
    /\ call # None
    /\ call.fn \in {"init", "attach"}
    /\ call' = None
    /\ Goto("detach")
    /\ UNCHANGED <<setup, plugins, attachments>>

-----------------------------------------------------------------------------
(* Attaching: addEvent and addTarget.                                      *)

Adding == pc = "attach" /\ call = None /\ next <= Len(setup.bindings)
Wanting == Adding /\ Len(building) < Len(setup.bindings[next])
Wanted == setup.bindings[next][Len(building) + 1]

NotRegistered ==
    /\ Wanting
    /\ table[Wanted] = None
    /\ Goto("detach")
    /\ UNCHANGED <<setup, plugins, attachments, call>>

(* The first use of a plugin initializes it.                               *)
GetPlugin ==
    /\ Wanting
    /\ table[Wanted] # None
    /\ ~table[Wanted].ready
    /\ Invoke("init", Wanted, None)

AttachPlugin ==
    /\ Wanting
    /\ table[Wanted] # None
    /\ table[Wanted].ready
    /\ Invoke("attach", Wanted, None)

KeepBinding ==
    /\ Adding
    /\ Len(building) = Len(setup.bindings[next])
    /\ bound' = bound \o building
    /\ building' = <<>>
    /\ next' = next + 1
    /\ UNCHANGED <<setup, pc, plugins, call>>

(* main goes on to run, or fails to fork or to write its pidfile.          *)
AllAdded ==
    /\ pc = "attach"
    /\ call = None
    /\ next > Len(setup.bindings)
    /\ Goto("run") \/ Goto("detach")
    /\ UNCHANGED <<setup, plugins, attachments, call>>

-----------------------------------------------------------------------------
(* Running and stopping.                                                   *)

Uses(key) == Needed(key) \union (table[key].functions \intersect {"hasnextevent"})

(* A source is asked for an event or for more, a target is given one.      *)
UsePlugin ==
    /\ pc = "run"
    /\ call = None
    /\ \E a \in ToSet(bound) : \E fn \in Uses(a.key) : Invoke(fn, a.key, a.user)

RunReturns ==
    /\ pc = "run"
    /\ call = None
    /\ Goto("detach")
    /\ UNCHANGED <<setup, plugins, attachments, call>>

(* The destructor of the service: events first, then targets.              *)
DetachPlugin ==
    /\ pc = "detach"
    /\ call = None
    /\ next <= Len(bound)
    /\ Invoke("detach", bound[next].key, bound[next].user)

AllDetached ==
    /\ pc = "detach"
    /\ call = None
    /\ next > Len(bound)
    /\ Goto("free")
    /\ UNCHANGED <<setup, plugins, attachments, call>>

(* A destructor of PluginMap that frees every plugin there is.             *)
ToFreeAll == {key \in Keys : key[1] = "source" /\ table[key] # None} \ freed

(* The destructor of PluginMap: the source plugins that were initialized.  *)
ToFree == {key \in Keys : key[1] = "source" /\ table[key] # None /\ table[key].ready} \ freed

(* The functions get ctx_, which points to a member of the service that    *)
(* has been destroyed by then.                                             *)
FreePlugin ==
    /\ pc = "free"
    /\ call = None
    /\ \E key \in ToFree : Invoke("free", key, None)

AllFreed ==
    /\ pc = "free"
    /\ call = None
    /\ ToFree = {}
    /\ Goto("end")
    /\ UNCHANGED <<setup, plugins, attachments, call>>

Next ==
    \/ OpenLibrary \/ OpenFails \/ Register \/ LoadSucceeds \/ LoadFails \/ PluginsLoaded
    \/ Returns \/ ReturnsError
    \/ NotRegistered \/ GetPlugin \/ AttachPlugin \/ KeepBinding \/ AllAdded
    \/ UsePlugin \/ RunReturns \/ DetachPlugin \/ AllDetached \/ FreePlugin \/ AllFreed

Spec == Init /\ [][Next]_vars

-----------------------------------------------------------------------------
(* Every variable has its type, and no library is closed more often than   *)
(* it was opened.                                                          *)
TypeOK ==
    /\ setup \in Setups
    /\ pc \in {"load", "attach", "run", "detach", "free", "end"}
    /\ next \in Nat \ {0}
    /\ handles \in [Code -> Nat]
    /\ table \in [Keys -> Bindings \union {None}]
    /\ building \in Seq(Attachment)
    /\ bound \in Seq(Attachment)
    /\ freed \subseteq Keys
    /\ call \in Calls \union {None}

(* The code that is called is there: no function of a library is called    *)
(* before it was opened or after it was closed, though a library may be    *)
(* opened twice and closed once, register plugins and be closed, or share  *)
(* the name of a plugin with another one.                                  *)
CallsLoadedCode == call # None => handles[call.code] > 0

(* The attachments that were neither detached nor forgotten.               *)
Attached ==
    CASE pc = "attach" -> ToSet(bound) \union ToSet(building)
      [] pc = "run" -> ToSet(bound)
      [] pc = "detach" -> {bound[i] : i \in next..Len(bound)}
      [] OTHER -> {}

Stage ==
    CASE pc \in {"load", "attach"} -> "setup"
      [] pc = "run" -> "running"
      [] OTHER -> "down"

Phase(key) ==
    IF key \in freed THEN "freed"
    ELSE IF table[key] # None /\ table[key].ready THEN "ready" ELSE "new"
Phases == [key \in Keys |-> Phase(key)]

Users == [key \in Keys |-> {a.user : a \in {b \in Attached : b.key = key}}]

Visible ==
    IF call = None \/ call.fn = "load" THEN None
    ELSE PluginCall(call.fn, call.key, call.user)

Lifecycle == INSTANCE PluginLifecycle WITH
    Plugins <- Keys, Idle <- None,
    stage <- Stage, phase <- Phases, users <- Users, call <- Visible

(* Each plugin is called as plugin.h promises it, see PluginLifecycle,     *)
(* however many events share it and wherever the setup fails.              *)
LifecycleSpec == Lifecycle!Spec
================================================================================
