------------------------------- MODULE Service -------------------------------
(***************************************************************************)
(* The service and its plugins (service.cc and plugin.cc), from the calls  *)
(* main makes to set it up to its destruction: plugins are loaded, the     *)
(* event sources and the targets of the configuration are attached, events *)
(* are processed one at a time, and everything is detached and freed.      *)
(*                                                                         *)
(* When an event is processed is the business of module Scheduler; here    *)
(* any event may be next.  What a plugin does is its own business too: it  *)
(* may fail, answer with or without an event and have more pending or not. *)
(* The answer of the i-th source of an event is the number i.              *)
(***************************************************************************)
EXTENDS Integers, Sequences, FiniteSets, SequencesExt

CONSTANTS
    Builtin,        \* the source plugins the service registers itself
    SourceNames,    \* names of source plugins
    OutputNames,    \* names of output plugins
    Configs         \* the configurations the daemon may be started with

Names == SourceNames \union OutputNames

Config == [plugins : Seq(Names), events : Seq(Seq(SourceNames)),
           targets : Seq(OutputNames)]

ASSUME NamesAssumption ==
    Builtin \subseteq SourceNames /\ SourceNames \intersect OutputNames = {}
ASSUME ConfigsAssumption == Configs \subseteq Config

VARIABLES
    config,         \* what main hands to the service
    registered,     \* the keys of source_plugins_ and output_plugins_
    initialized,    \* those with plugin_initialized
    building,       \* the sources of the ev_binding addEvent is working on
    bindings,       \* the sources of each element of event_bindings_
    targets,        \* targets_
    pc,             \* where main, run or the destructor is
    next,           \* the index of the loop that is running
    job,            \* the event processEvent works on
    merged,         \* event_merged
    cont,           \* cont
    failed,         \* whether rc_aggr holds an error
    live,           \* ghost: what is attached and not detached
    freed,          \* ghost: the plugins pluginFree was called on
    answers,        \* ghost: the answers in this round
    offered         \* ghost: the targets that were given the merged event

setup == <<config, registered, initialized, building, bindings, targets>>
event == <<job, merged, cont, failed, answers, offered>>
plugins == <<live, freed>>
vars == <<setup, pc, next, event, plugins>>

None == 0

(* An attachment: the plugin and the userdata it was given.                *)
Attachment == [plugin : Names, userdata : Nat]

(* What a source answers: an event or none, and whether it has more.       *)
Answer == [data : Nat, more : BOOLEAN]

Pc == {"load", "addEvent", "addTarget", "run", "source", "deliver",
       "detach", "detachTargets", "free", "end"}

Init ==
    /\ config \in Configs
    /\ registered = Builtin
    /\ initialized = {}
    /\ building = <<>>
    /\ bindings = <<>>
    /\ targets = <<>>
    /\ pc = "load"
    /\ next = 1
    /\ job = 0
    /\ merged = None
    /\ cont = FALSE
    /\ failed = FALSE
    /\ live = {}
    /\ freed = {}
    /\ answers = <<>>
    /\ offered = {}

Goto(label) == pc' = label /\ next' = 1

-----------------------------------------------------------------------------
(* Setting up.  After the first error main goes on to destroy the service. *)

(* loadPlugin: the library is found and opened and its init function       *)
(* registers the plugin, unless the name is taken; any of it may fail.     *)
LoadPlugin ==
    /\ pc = "load"
    /\ next <= Len(config.plugins)
    /\ \/ /\ registered' = registered \union {config.plugins[next]}
          /\ next' = next + 1
          /\ UNCHANGED pc
       \/ /\ registered' \in {registered, registered \union {config.plugins[next]}}
          /\ Goto("detach")
    /\ UNCHANGED <<config, initialized, building, bindings, targets, event,
                   plugins>>

PluginsLoaded ==
    /\ pc = "load"
    /\ next > Len(config.plugins)
    /\ Goto("addEvent")
    /\ UNCHANGED <<setup, event, plugins>>

(* getSourcePlugin and getOutputPlugin: the first use initializes.         *)
GetPlugin(n) ==
    /\ n \in registered
    /\ initialized' = initialized \union {n}

(* The plugin is not there, or pluginInit fails.                           *)
GetPluginFails(n) ==
    /\ n \notin initialized
    /\ UNCHANGED initialized

(* What pluginAttach returns: a userdata that nothing attached has.        *)
Fresh == 1 + Cardinality(live)

(* The next source of the event is looked up and attached.                 *)
AttachSource ==
    /\ pc = "addEvent"
    /\ next <= Len(config.events)
    /\ Len(building) < Len(config.events[next])
    /\ LET n == config.events[next][Len(building) + 1]
           a == [plugin |-> n, userdata |-> Fresh]
       IN  \/ /\ GetPlugin(n)
              /\ building' = Append(building, a)
              /\ live' = live \union {a}
              /\ UNCHANGED <<pc, next>>
           \/ /\ GetPlugin(n) \/ GetPluginFails(n)
              /\ Goto("detach")
              /\ UNCHANGED <<building, live>>
    /\ UNCHANGED <<config, registered, bindings, targets, event, freed>>

(* A binding that is kept before its sources are attached.                 *)
AddEventEarly ==
    /\ pc = "addEvent"
    /\ next <= Len(config.events)
    /\ building # <<>> \/ config.events[next] = <<>>
    /\ bindings' = Append(bindings, building)
    /\ building' = <<>>
    /\ next' = next + 1
    /\ UNCHANGED <<config, registered, initialized, targets, pc, event, plugins>>

(* addEvent is through with the sources and keeps the binding.             *)
AddEvent ==
    /\ pc = "addEvent"
    /\ next <= Len(config.events)
    /\ Len(building) = Len(config.events[next])
    /\ bindings' = Append(bindings, building)
    /\ building' = <<>>
    /\ next' = next + 1
    /\ UNCHANGED <<config, registered, initialized, targets, pc, event, plugins>>

EventsAdded ==
    /\ pc = "addEvent"
    /\ next > Len(config.events)
    /\ Goto("addTarget")
    /\ UNCHANGED <<setup, event, plugins>>

AddTarget ==
    /\ pc = "addTarget"
    /\ next <= Len(config.targets)
    /\ LET n == config.targets[next]
           a == [plugin |-> n, userdata |-> Fresh]
       IN  \/ /\ GetPlugin(n)
              /\ targets' = Append(targets, a)
              /\ live' = live \union {a}
              /\ next' = next + 1
              /\ UNCHANGED pc
           \/ /\ GetPlugin(n) \/ GetPluginFails(n)
              /\ Goto("detach")
              /\ UNCHANGED <<targets, live>>
    /\ UNCHANGED <<config, registered, building, bindings, event, freed>>

(* main goes on to run, unless it cannot fork or write its pidfile.        *)
TargetsAdded ==
    /\ pc = "addTarget"
    /\ next > Len(config.targets)
    /\ Goto("run") \/ Goto("detach")
    /\ UNCHANGED <<setup, event, plugins>>

Setup ==
    \/ LoadPlugin \/ PluginsLoaded
    \/ AttachSource \/ AddEvent \/ EventsAdded
    \/ AddTarget \/ TargetsAdded

-----------------------------------------------------------------------------
(* Processing an event.                                                    *)

(* The next round that keeps the flag of the last one.                     *)
RoundKeepsCont ==
    /\ Goto("source")
    /\ merged' = None
    /\ answers' = <<>>
    /\ offered' = {}
    /\ failed' = FALSE
    /\ UNCHANGED cont

(* The top of the loop in processEvent.                                    *)
Round ==
    /\ Goto("source")
    /\ cont' = FALSE
    /\ merged' = None
    /\ answers' = <<>>
    /\ offered' = {}
    /\ failed' = FALSE

(* run calls processEvent; there is nothing to do without sources.         *)
Process(e) ==
    /\ pc = "run"
    /\ bindings[e] # <<>>
    /\ job' = e
    /\ Round
    /\ UNCHANGED <<setup, plugins>>

(* Keeps what there is if the overlay is empty.                            *)
MergeEventsKeepBase(base, overlay) == IF overlay = None THEN base ELSE overlay

(* mergeEvents.                                                            *)
MergeEvents(base, overlay) == overlay

(* The next source is asked for an event and whether it has more.          *)
GetNextEvent ==
    /\ pc = "source"
    /\ next <= Len(bindings[job])
    /\ \E answer \in {None, next}, more \in BOOLEAN :
          /\ answers' = Append(answers, [data |-> answer, more |-> more])
          /\ merged' = IF merged = None THEN answer
                       ELSE MergeEvents(merged, answer)
          /\ cont' = (cont \/ more)
    /\ next' = next + 1
    /\ UNCHANGED <<setup, pc, job, failed, offered, plugins>>

(* The source fails: processEvent returns the error, which run logs.       *)
GetNextEventFails ==
    /\ pc = "source"
    /\ next <= Len(bindings[job])
    /\ Goto("run")
    /\ UNCHANGED <<setup, event, plugins>>

(* The end of the round, where there is nothing to emit.                   *)
NothingMerged ==
    /\ pc = "source"
    /\ next > Len(bindings[job])
    /\ merged = None
    /\ \/ cont /\ Round
       \/ ~cont /\ Goto("run") /\ UNCHANGED <<merged, cont, failed, answers, offered>>
    /\ UNCHANGED <<setup, job, plugins>>

EmitEvent ==
    /\ pc = "source"
    /\ next > Len(bindings[job])
    /\ merged # None
    /\ Goto("deliver")
    /\ UNCHANGED <<setup, event, plugins>>

(* A delivery that ends with the first target that fails.                  *)
DeliverUntilError ==
    /\ pc = "deliver"
    /\ next <= Len(targets)
    /\ offered' = offered \union {targets[next]}
    /\ \/ next' = next + 1 /\ UNCHANGED failed
       \/ next' = Len(targets) + 1 /\ failed' = TRUE
    /\ UNCHANGED <<setup, pc, job, merged, cont, answers, plugins>>

(* deliverEvent gives the event to the next target, and remembers errors.  *)
Deliver ==
    /\ pc = "deliver"
    /\ next <= Len(targets)
    /\ offered' = offered \union {targets[next]}
    /\ next' = next + 1
    /\ failed' \in {failed, TRUE}
    /\ UNCHANGED <<setup, pc, job, merged, cont, answers, plugins>>

(* Without an error there may be another round.                            *)
Delivered ==
    /\ pc = "deliver"
    /\ next > Len(targets)
    /\ \/ cont /\ ~failed /\ Round
       \/ /\ ~cont \/ failed
          /\ Goto("run")
          /\ UNCHANGED <<merged, cont, failed, answers, offered>>
    /\ UNCHANGED <<setup, job, plugins>>

ProcessEvent ==
    \/ GetNextEvent \/ GetNextEventFails \/ NothingMerged
    \/ EmitEvent \/ Deliver \/ Delivered

-----------------------------------------------------------------------------
(* Shutting down.                                                          *)

(* run returns, and main destroys the service.                             *)
RunReturns ==
    /\ pc = "run"
    /\ Goto("detach")
    /\ UNCHANGED <<setup, event, plugins>>

(* The destructor detaches the sources of every event in event_bindings_.  *)
DetachEvent ==
    /\ pc = "detach"
    /\ next <= Len(bindings)
    /\ live' = live \ ToSet(bindings[next])
    /\ next' = next + 1
    /\ UNCHANGED <<setup, pc, event, freed>>

(* A destructor that is done when the events are detached.                 *)
EventsDetachedOnly ==
    /\ pc = "detach"
    /\ next > Len(bindings)
    /\ Goto("free")
    /\ UNCHANGED <<setup, event, plugins>>

EventsDetached ==
    /\ pc = "detach"
    /\ next > Len(bindings)
    /\ Goto("detachTargets")
    /\ UNCHANGED <<setup, event, plugins>>

DetachTarget ==
    /\ pc = "detachTargets"
    /\ next <= Len(targets)
    /\ live' = live \ {targets[next]}
    /\ next' = next + 1
    /\ UNCHANGED <<setup, pc, event, freed>>

TargetsDetached ==
    /\ pc = "detachTargets"
    /\ next > Len(targets)
    /\ Goto("free")
    /\ UNCHANGED <<setup, event, plugins>>

(* The destructor of PluginMap: the source plugins that were initialized.  *)
FreePlugin(n) ==
    /\ pc = "free"
    /\ n \in (initialized \intersect SourceNames) \ freed
    /\ freed' = freed \union {n}
    /\ UNCHANGED <<setup, pc, next, event, live>>

PluginsFreed ==
    /\ pc = "free"
    /\ initialized \intersect SourceNames \subseteq freed
    /\ Goto("end")
    /\ UNCHANGED <<setup, event, plugins>>

Shutdown ==
    \/ DetachEvent \/ EventsDetached
    \/ DetachTarget \/ TargetsDetached
    \/ \E n \in Names : FreePlugin(n)
    \/ PluginsFreed

Next ==
    \/ Setup
    \/ \E e \in 1..Len(bindings) : Process(e)
    \/ ProcessEvent
    \/ RunReturns
    \/ Shutdown

Spec == Init /\ [][Next]_vars

(* Every step but the choice of run is a step of one thread, which goes on *)
(* as long as the plugins it calls return.                                 *)
FairSpec == Spec /\ WF_vars(Setup) /\ WF_vars(ProcessEvent) /\ WF_vars(Shutdown)

-----------------------------------------------------------------------------
(* Every variable has its type.                                            *)
TypeOK ==
    /\ config \in Configs
    /\ registered \subseteq Names
    /\ initialized \subseteq registered
    /\ building \in Seq(Attachment)
    /\ bindings \in Seq(Seq(Attachment))
    /\ targets \in Seq(Attachment)
    /\ pc \in Pc
    /\ next \in Nat \ {0}
    /\ job \in 0..Len(bindings)
    /\ merged \in Nat
    /\ cont \in BOOLEAN
    /\ failed \in BOOLEAN
    /\ live \subseteq Attachment
    /\ freed \subseteq Names
    /\ answers \in Seq(Answer)
    /\ offered \subseteq ToSet(targets)

Running == pc \in {"run", "source", "deliver"}
Processing == pc \in {"source", "deliver"}

PluginsOf(attachments) ==
    [i \in 1..Len(attachments) |-> attachments[i].plugin]

(* What is in event_bindings_ from the n-th on, and in all of it and        *)
(* targets_.                                                               *)
BoundFrom(n) == UNION {ToSet(bindings[e]) : e \in n..Len(bindings)}

Bound == BoundFrom(1) \union ToSet(targets)

(* run is only entered with all of the configuration in place, every event *)
(* with all of its sources and every target, each attached to a plugin     *)
(* that was initialized and is not freed: an error anywhere in the setup   *)
(* keeps main from it.                                                     *)
RunsFullConfig ==
    Running =>
        /\ [e \in 1..Len(bindings) |-> PluginsOf(bindings[e])] = config.events
        /\ PluginsOf(targets) = config.targets
        /\ Bound \subseteq live
        /\ \A a \in Bound : a.plugin \in initialized \ freed

(* Whatever fails during the setup, the destructor detaches what was       *)
(* attached before the plugin is freed, with one exception: the sources    *)
(* that addEvent had attached for an event when it gave that event up stay *)
(* attached for good, and their plugins are freed all the same.  It is     *)
(* exactly these, the first sources of one event: the one behind those     *)
(* that were added, with no target added yet.                              *)
DetachedUnlessGivenUp ==
    /\ \A a \in live : a.plugin \in freed => a \in ToSet(building)
    /\ pc = "end" => live = ToSet(building)
    /\ building # <<>> =>
          /\ targets = <<>> /\ Len(bindings) < Len(config.events)
          /\ IsPrefix(PluginsOf(building), config.events[Len(bindings) + 1])

(* The sources of the event have all answered.                             *)
Answered == Len(answers) = Len(bindings[job])

(* Of several sources it is only the last one that counts: whatever the    *)
(* others answered (and put behind them), the event that is emitted is the *)
(* answer of the last source, and without one nothing is emitted.          *)
OnlyLastSource ==
    Processing /\ Answered => merged = Last(answers).data

(* An event that was merged is handed to every target before processEvent  *)
(* asks a source again or returns, whichever targets fail (README.md:62).  *)
RoundOver == Processing /\ (pc' = "run" \/ answers' = <<>>)

EveryTargetTried ==
    [][RoundOver /\ Answered /\ merged # None => offered = ToSet(targets)]_vars

(* Once set up the service is back in run again and again, or shut down,   *)
(* unless there is no end of pending events: it goes round for another     *)
(* time only if a source said so in this one.                              *)
ProcessReturns ==
    \/ []<>(pc \in {"run", "end"})
    \/ []<>(Processing /\ \E i \in 1..Len(answers) : answers[i].more)
==============================================================================
