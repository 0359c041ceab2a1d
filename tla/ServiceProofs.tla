----------------------------- MODULE ServiceProofs -----------------------------
(***************************************************************************)
(* Proofs about Service, for any plugins and any configuration.            *)
(*                                                                         *)
(* The set-up copies the configuration piece by piece (Configured), and    *)
(* what is attached is always in event_bindings_, in targets_ or in the    *)
(* binding that addEvent works on (Accounted); the latter are never in the *)
(* former, since no two attachments have one userdata (Numbered).  While   *)
(* an event is processed, the answers so far and the targets so far are    *)
(* those in front of the loop's index (Progress).                          *)
(***************************************************************************)
EXTENDS Service, FiniteSetTheorems, SequenceTheorems, TLAPS

SettingUp == pc \in {"load", "addEvent", "addTarget"}

(* What the destructor's loops have still to detach.                       *)
TargetsFrom(n) == {targets[i] : i \in n..Len(targets)}

Accounted ==
    /\ SettingUp \/ Running => live = Bound \union ToSet(building)
    /\ pc = "detach" => live \subseteq BoundFrom(next) \union ToSet(targets) \union ToSet(building)
    /\ pc = "detachTargets" => live \subseteq TargetsFrom(next) \union ToSet(building)
    /\ pc \in {"free", "end"} => live \subseteq ToSet(building)
    /\ ToSet(building) \subseteq live
    /\ ToSet(building) \intersect Bound = {}

Numbered ==
    SettingUp => IsFiniteSet(live) /\ \A a \in live : a.userdata <= Cardinality(live)

Ready ==
    /\ \A a \in live : a.plugin \in initialized
    /\ pc \notin {"free", "end"} => freed = {}

(* The attachments of an event are those of its definition, up to n.       *)
Matches(attached, names, n) ==
    /\ Len(attached) = n
    /\ n <= Len(names)
    /\ \A i \in 1..n : attached[i].plugin = names[i]

Configured ==
    /\ Len(bindings) <= Len(config.events)
    /\ \A e \in 1..Len(bindings) :
          Matches(bindings[e], config.events[e], Len(config.events[e]))
    /\ Matches(targets, config.targets, Len(targets))
    /\ pc = "load" => bindings = <<>> /\ targets = <<>> /\ building = <<>>
    /\ pc = "addEvent" =>
          /\ targets = <<>>
          /\ next = Len(bindings) + 1
    /\ building # <<>> =>
          /\ targets = <<>> /\ Len(bindings) + 1 <= Len(config.events)
          /\ Matches(building, config.events[Len(bindings) + 1], Len(building))
    /\ pc = "addTarget" => building = <<>> /\ next = Len(targets) + 1
    /\ Running => building = <<>> /\ Len(targets) = Len(config.targets)
    /\ pc = "addTarget" \/ Running => Len(bindings) = Len(config.events)

Progress ==
    /\ Processing => job \in 1..Len(bindings) /\ bindings[job] # <<>>
    /\ Processing => merged = IF answers = <<>> THEN None ELSE answers[Len(answers)].data
    /\ pc = "source" =>
          /\ Len(answers) = next - 1
          /\ next <= Len(bindings[job]) + 1
          /\ offered = {}
    /\ pc = "deliver" =>
          /\ Len(answers) = Len(bindings[job])
          /\ next <= Len(targets) + 1
          /\ offered = {targets[i] : i \in 1..(next - 1)}

IndInv == TypeOK /\ Accounted /\ Numbered /\ Ready /\ Configured /\ Progress

-----------------------------------------------------------------------------
LEMMA ConfigTypes ==
    ASSUME config \in Configs
    PROVE  /\ config.plugins \in Seq(Names) /\ Len(config.plugins) \in Nat
           /\ config.events \in Seq(Seq(SourceNames)) /\ Len(config.events) \in Nat
           /\ config.targets \in Seq(OutputNames) /\ Len(config.targets) \in Nat
<1>1. config \in Config
  BY ConfigsAssumption
<1> QED BY <1>1, LenProperties DEF Config

LEMMA SetOfAppended ==
    ASSUME NEW S, NEW s \in Seq(S), NEW x \in S
    PROVE  ToSet(Append(s, x)) = ToSet(s) \union {x}
<1>1. /\ Append(s, x) \in Seq(S) /\ Len(Append(s, x)) = Len(s) + 1 /\ Len(s) \in Nat
      /\ \A i \in 1..Len(s) : Append(s, x)[i] = s[i]
      /\ Append(s, x)[Len(s) + 1] = x
  BY AppendProperties, LenProperties
<1>2. DOMAIN Append(s, x) = 1..(Len(s) + 1) /\ DOMAIN s = 1..Len(s)
  BY <1>1, LenProperties
<1>3. \A i \in 1..(Len(s) + 1) : i \in 1..Len(s) \/ i = Len(s) + 1
  BY <1>1
<1>4. 1..Len(s) \subseteq 1..(Len(s) + 1) /\ Len(s) + 1 \in 1..(Len(s) + 1)
  BY <1>1
<1>5. ToSet(Append(s, x)) \subseteq ToSet(s) \union {x}
  BY <1>1, <1>2, <1>3 DEF ToSet
<1>6. ToSet(s) \union {x} \subseteq ToSet(Append(s, x))
  BY <1>1, <1>2, <1>4 DEF ToSet
<1> QED BY <1>5, <1>6

LEMMA SetOfEmpty == ToSet(<<>>) = {}
BY DEF ToSet

LEMMA ElementInSet ==
    ASSUME NEW S, NEW s \in Seq(S), NEW i \in 1..Len(s)
    PROVE  s[i] \in ToSet(s) /\ s[i] \in S
<1>1. DOMAIN s = 1..Len(s)
  BY LenProperties
<1> QED BY <1>1, ElementOfSeq DEF ToSet

LEMMA SetOfSeq ==
    ASSUME NEW S, NEW s \in Seq(S)
    PROVE  ToSet(s) = {s[i] : i \in 1..Len(s)} /\ ToSet(s) \subseteq S
<1>1. DOMAIN s = 1..Len(s)
  BY LenProperties
<1> QED BY <1>1, ElementOfSeq DEF ToSet

LEMMA InitInv == Init => IndInv
<1> SUFFICES ASSUME Init PROVE IndInv
  OBVIOUS
<1>1. Bound = {} /\ ToSet(building) = {} /\ ToSet(targets) = {} /\ Len(bindings) = 0
      /\ Len(targets) = 0
  BY SetOfEmpty DEF Init, Bound, BoundFrom
<1>2. registered \subseteq Names /\ initialized \subseteq registered
  BY NamesAssumption DEF Init, Names
<1>3. TypeOK
  <2>1. config \in Configs /\ live \subseteq Attachment /\ freed \subseteq Names
    BY DEF Init
  <2>2. /\ building \in Seq(Attachment) /\ bindings \in Seq(Seq(Attachment))
        /\ targets \in Seq(Attachment) /\ answers \in Seq(Answer)
    BY DEF Init
  <2>3. pc \in Pc /\ next \in Nat \ {0} /\ merged \in Nat
    BY DEF Init, Pc, None
  <2>4. job = 0 /\ cont \in BOOLEAN /\ failed \in BOOLEAN
    BY DEF Init
  <2>5. offered \subseteq ToSet(targets) /\ 0 \in 0..Len(bindings)
    BY <1>1 DEF Init
  <2> QED BY <1>2, <2>1, <2>2, <2>3, <2>4, <2>5 DEF TypeOK
<1>4. Accounted /\ Numbered /\ Ready /\ Progress
  BY <1>1, FS_EmptySet
  DEF Init, Accounted, Numbered, Ready, Progress, SettingUp, Running, Processing
<1>5. Configured
  BY <1>1, ConfigTypes DEF Init, Configured, Matches, Running
<1> QED BY <1>3, <1>4, <1>5 DEF IndInv

-----------------------------------------------------------------------------
(* run and processEvent leave everything that is attached as it is.        *)
EventStep == ProcessEvent \/ \E e \in 1..Len(bindings) : Process(e)

LEMMA EventTypes ==
    ASSUME TypeOK, UNCHANGED <<setup, plugins>>, pc' \in Pc, next' \in Nat \ {0},
           job' \in 0..Len(bindings), merged' \in Nat, cont' \in BOOLEAN, failed' \in BOOLEAN,
           answers' \in Seq(Answer), offered' \subseteq ToSet(targets)
    PROVE  TypeOK'
BY DEF TypeOK, setup, plugins

LEMMA RoundInv ==
    ASSUME TypeOK, Round, UNCHANGED <<setup, plugins>>, job' \in 1..Len(bindings),
           bindings[job'] # <<>>
    PROVE  TypeOK' /\ Progress'
<1>1. /\ pc' = "source" /\ next' = 1 /\ answers' = <<>> /\ Len(answers') = 0
      /\ merged' = None /\ offered' = {} /\ cont' = FALSE /\ failed' = FALSE
  BY DEF Round, Goto
<1>2. bindings' = bindings /\ Len(bindings[job']) \in Nat /\ Len(bindings) \in Nat
  BY LenProperties, ElementOfSeq DEF TypeOK, setup
<1>3. pc' \in Pc /\ next' \in Nat \ {0} /\ merged' \in Nat /\ job' \in 0..Len(bindings)
  BY <1>1, <1>2 DEF Pc, None
<1>4. cont' \in BOOLEAN /\ failed' \in BOOLEAN /\ offered' \subseteq ToSet(targets)
  BY <1>1
<1>5. answers' \in Seq(Answer)
  BY <1>1
<1>6. TypeOK'
  BY <1>3, <1>4, <1>5, EventTypes
<1>7. Progress'
  BY <1>1, <1>2 DEF Progress, Processing
<1> QED BY <1>6, <1>7

(* Back to run, after an error or when there is nothing more to do.        *)
LEMMA ReturnInv ==
    ASSUME TypeOK, Goto("run"), UNCHANGED <<setup, event, plugins>>
    PROVE  TypeOK' /\ Progress'
<1>1. TypeOK'
  BY DEF TypeOK, Goto, setup, event, plugins, Pc
<1> QED BY <1>1 DEF Goto, Progress, Processing

LEMMA GetNextEventInv == ASSUME IndInv, GetNextEvent PROVE TypeOK' /\ Progress'
<1>0. /\ Len(bindings[job]) \in Nat /\ next \in Nat \ {0} /\ answers \in Seq(Answer)
      /\ job \in 1..Len(bindings) /\ bindings[job] # <<>> /\ job \in 0..Len(bindings)
      /\ Len(answers) = next - 1 /\ pc = "source" /\ pc' = "source" /\ offered = {}
  BY LenProperties, ElementOfSeq DEF IndInv, TypeOK, Progress, Processing, GetNextEvent
<1> PICK answer \in {None, next}, more \in BOOLEAN :
        /\ answers' = Append(answers, [data |-> answer, more |-> more])
        /\ merged' = IF merged = None THEN answer ELSE MergeEvents(merged, answer)
        /\ cont' = (cont \/ more)
  BY DEF GetNextEvent
<1>1. UNCHANGED <<setup, job, failed, offered, plugins>> /\ next' = next + 1
      /\ next <= Len(bindings[job])
  BY DEF GetNextEvent
<1>2. merged' = answer /\ answer \in Nat
  BY <1>0 DEF MergeEvents, None
<1>3. [data |-> answer, more |-> more] \in Answer
  BY <1>2 DEF Answer
<1>4. /\ answers' \in Seq(Answer) /\ answers' # <<>> /\ Len(answers') = Len(answers) + 1
      /\ answers'[Len(answers')] = [data |-> answer, more |-> more]
  BY <1>0, <1>3, AppendProperties, LenProperties
<1>5. cont' \in BOOLEAN
  OBVIOUS
<1>6. failed' \in BOOLEAN /\ offered' \subseteq ToSet(targets)
  BY <1>1 DEF IndInv, TypeOK
<1>7. pc' \in Pc /\ next' \in Nat \ {0} /\ merged' \in Nat /\ job' \in 0..Len(bindings)
  BY <1>0, <1>1, <1>2 DEF Pc
<1>8. TypeOK'
  BY <1>1, <1>4, <1>5, <1>6, <1>7, EventTypes DEF IndInv
<1>9. bindings' = bindings /\ job' = job /\ offered' = {} /\ answers'[Len(answers')].data = answer
  BY <1>0, <1>1, <1>4 DEF setup
<1>10. Len(answers') = next' - 1 /\ next' <= Len(bindings[job]) + 1
  BY <1>0, <1>1, <1>4
<1>11. Progress'
  BY <1>0, <1>2, <1>4, <1>9, <1>10 DEF Progress, Processing
<1> QED BY <1>8, <1>11

LEMMA DeliverInv == ASSUME IndInv, Deliver PROVE TypeOK' /\ Progress'
<1>0. /\ next \in Nat \ {0} /\ Len(targets) \in Nat /\ next <= Len(targets)
      /\ next' = next + 1 /\ pc' = "deliver" /\ targets \in Seq(Attachment)
      /\ offered = {targets[i] : i \in 1..(next - 1)}
      /\ offered' = offered \union {targets[next]}
      /\ UNCHANGED <<setup, pc, job, merged, cont, answers, plugins>>
  BY LenProperties DEF IndInv, TypeOK, Progress, Deliver
<1>1. targets[next] \in ToSet(targets)
  BY <1>0, ElementInSet
<1>2. offered' \subseteq ToSet(targets) /\ failed' \in BOOLEAN
  BY <1>0, <1>1 DEF IndInv, TypeOK, Deliver
<1>3. pc' \in Pc /\ next' \in Nat \ {0}
  BY <1>0 DEF Pc
<1>4. job' \in 0..Len(bindings) /\ merged' \in Nat /\ cont' \in BOOLEAN /\ answers' \in Seq(Answer)
  BY <1>0 DEF IndInv, TypeOK
<1>5. TypeOK'
  BY <1>0, <1>2, <1>3, <1>4, EventTypes DEF IndInv
<1>6. offered' = {targets[i] : i \in 1..next} /\ next' - 1 = next
  BY <1>0
<1>7. Progress'
  BY <1>0, <1>6 DEF IndInv, Progress, Processing, setup
<1> QED BY <1>5, <1>7

LEMMA ProcessInv == ASSUME IndInv, EventStep PROVE TypeOK' /\ Progress'
<1>1. ASSUME NEW e \in 1..Len(bindings), Process(e) PROVE TypeOK' /\ Progress'
  BY <1>1, RoundInv DEF Process, IndInv
<1>2. CASE GetNextEvent
  BY <1>2, GetNextEventInv
<1>3. CASE GetNextEventFails
  BY <1>3, ReturnInv DEF GetNextEventFails, IndInv
<1>4. CASE NothingMerged
  <2>1. CASE Round
    BY <1>4, <2>1, RoundInv DEF NothingMerged, IndInv, Progress, Processing, setup
  <2>2. CASE Goto("run") /\ UNCHANGED <<merged, cont, failed, answers, offered>>
    BY <1>4, <2>2, ReturnInv DEF NothingMerged, IndInv, event
  <2> QED BY <1>4, <2>1, <2>2 DEF NothingMerged
<1>5. CASE EmitEvent
  <2>1. pc = "source" /\ pc' = "deliver" /\ next' = 1 /\ UNCHANGED <<setup, event, plugins>>
    BY <1>5 DEF EmitEvent, Goto
  <2>2. TypeOK'
    BY <2>1 DEF IndInv, TypeOK, setup, event, plugins, Pc
  <2>3. Len(bindings[job]) \in Nat /\ next \in Nat /\ Len(targets) \in Nat
    BY <2>1, LenProperties, ElementOfSeq DEF IndInv, TypeOK, Progress, Processing
  <2>4. Len(answers) = Len(bindings[job])
    BY <1>5, <2>1, <2>3 DEF EmitEvent, IndInv, Progress
  <2>5. offered = {}
    BY <2>1 DEF IndInv, Progress
  <2>6. Progress'
    BY <2>1, <2>3, <2>4, <2>5 DEF IndInv, Progress, Processing, setup, event
  <2> QED BY <2>2, <2>6
<1>6. CASE Deliver
  BY <1>6, DeliverInv
<1>7. CASE Delivered
  <2>1. CASE Round
    BY <1>7, <2>1, RoundInv DEF Delivered, IndInv, Progress, Processing, setup
  <2>2. CASE Goto("run") /\ UNCHANGED <<merged, cont, failed, answers, offered>>
    BY <1>7, <2>2, ReturnInv DEF Delivered, IndInv, event
  <2> QED BY <1>7, <2>1, <2>2 DEF Delivered
<1> QED BY <1>1, <1>2, <1>3, <1>4, <1>5, <1>6, <1>7 DEF EventStep, ProcessEvent

LEMMA EventInv == ASSUME IndInv, EventStep PROVE IndInv'
<1>1. /\ UNCHANGED <<config, initialized, building, bindings, targets, live, freed>>
      /\ Running /\ Running'
  BY DEF EventStep, ProcessEvent, Process, GetNextEvent, GetNextEventFails, NothingMerged,
         EmitEvent, Deliver, Delivered, Round, Goto, Running, setup, plugins
<1>2. Accounted' /\ Numbered' /\ Ready'
  BY <1>1 DEF IndInv, Accounted, Numbered, Ready, SettingUp, Running, Bound, BoundFrom
<1>3. Configured'
  BY <1>1 DEF IndInv, Configured, Running
<1> QED BY <1>2, <1>3, ProcessInv DEF IndInv

-----------------------------------------------------------------------------
(* The way down: from any step of the set-up that fails, and from run.     *)
LEMMA DownInv ==
    ASSUME IndInv, SettingUp \/ pc = "run", Goto("detach"),
           UNCHANGED <<config, building, bindings, targets, event, live, freed>>,
           registered' \subseteq Names, initialized \subseteq initialized',
           initialized' \subseteq registered'
    PROVE  IndInv'
<1>1. pc' = "detach" /\ next' = 1 /\ live = Bound \union ToSet(building)
  BY DEF IndInv, Accounted, SettingUp, Running, Goto
<1>2. TypeOK'
  BY <1>1 DEF IndInv, TypeOK, Pc, event
<1>3. Bound = BoundFrom(1) \union ToSet(targets)
  BY DEF Bound
<1>4. Bound' = Bound /\ BoundFrom(next)' = BoundFrom(1)
  BY <1>1 DEF Bound, BoundFrom
<1>5. Accounted'
  BY <1>1, <1>3, <1>4 DEF IndInv, Accounted, SettingUp, Running
<1>6. Numbered' /\ Progress'
  BY <1>1 DEF Numbered, Progress, SettingUp, Processing
<1>7. Ready'
  BY <1>1 DEF IndInv, Ready, SettingUp
<1>8. Configured'
  BY <1>1 DEF IndInv, Configured, Running, SettingUp
<1> QED BY <1>2, <1>5, <1>6, <1>7, <1>8 DEF IndInv

LEMMA RestIsBelow ==
    ASSUME IndInv
    PROVE  /\ pc = "detach" /\ next <= Len(bindings) =>
                 /\ BoundFrom(next) \subseteq ToSet(bindings[next]) \union BoundFrom(next + 1)
                 /\ ToSet(bindings[next]) \subseteq Bound
           /\ pc = "detach" /\ next > Len(bindings) =>
                 BoundFrom(next) = {} /\ ToSet(targets) = TargetsFrom(1)
           /\ pc = "detachTargets" /\ next <= Len(targets) =>
                 /\ TargetsFrom(next) \subseteq {targets[next]} \union TargetsFrom(next + 1)
                 /\ targets[next] \in Bound
           /\ pc = "detachTargets" /\ next > Len(targets) => TargetsFrom(next) = {}
<1>1. next \in Nat \ {0} /\ Len(bindings) \in Nat /\ Len(targets) \in Nat
      /\ targets \in Seq(Attachment)
  BY LenProperties DEF IndInv, TypeOK
<1>2. \A n \in Nat : \A i \in next..n : i = next \/ i \in (next + 1)..n
  BY <1>1
<1>3. next <= Len(bindings) => next \in 1..Len(bindings)
  BY <1>1
<1>4. next <= Len(targets) => next \in 1..Len(targets)
  BY <1>1
<1>5. next > Len(bindings) => next..Len(bindings) = {}
  BY <1>1
<1>6. next > Len(targets) => next..Len(targets) = {}
  BY <1>1
<1>7. BoundFrom(next) \subseteq ToSet(bindings[next]) \union BoundFrom(next + 1)
  BY <1>1, <1>2 DEF BoundFrom
<1>8. next <= Len(bindings) => ToSet(bindings[next]) \subseteq Bound
  BY <1>3 DEF Bound, BoundFrom
<1>9. next > Len(bindings) => BoundFrom(next) = {}
  BY <1>5 DEF BoundFrom
<1>10. ToSet(targets) = TargetsFrom(1)
  BY <1>1, SetOfSeq DEF TargetsFrom
<1>11. TargetsFrom(next) \subseteq {targets[next]} \union TargetsFrom(next + 1)
  BY <1>1, <1>2 DEF TargetsFrom
<1>12. next <= Len(targets) => targets[next] \in Bound
  BY <1>1, <1>4, ElementInSet DEF Bound
<1>13. next > Len(targets) => TargetsFrom(next) = {}
  BY <1>6 DEF TargetsFrom
<1> QED BY <1>7, <1>8, <1>9, <1>10, <1>11, <1>12, <1>13

(* A step of the destructor detaches what is accounted for and frees no    *)
(* plugin before the last of it.                                           *)
LEMMA ShutdownInv == ASSUME IndInv, Shutdown PROVE IndInv'
<1>0. /\ next \in Nat \ {0} /\ next + 1 \in Nat \ {0}
      /\ UNCHANGED <<setup, event>>
      /\ pc \in {"detach", "detachTargets", "free"}
      /\ pc' \in {"detach", "detachTargets", "free", "end"} /\ live' \subseteq live
      /\ next' \in Nat \ {0}
      /\ freed' \subseteq Names
      /\ pc' \notin {"free", "end"} => freed' = freed /\ pc \notin {"free", "end"}
  BY DEF Shutdown, DetachEvent, EventsDetached, DetachTarget, TargetsDetached, FreePlugin,
         PluginsFreed, Goto, IndInv, TypeOK, plugins
<1>1. /\ Bound' = Bound
      /\ \A n \in Nat : BoundFrom(n)' = BoundFrom(n) /\ TargetsFrom(n)' = TargetsFrom(n)
      /\ UNCHANGED <<building, targets, bindings, config>>
  BY <1>0 DEF Bound, BoundFrom, TargetsFrom, setup
<1>2. TypeOK'
  BY <1>0 DEF IndInv, TypeOK, setup, event, Pc
<1>3. Numbered' /\ Progress'
  BY <1>0 DEF Numbered, Progress, SettingUp, Processing
<1>4. Ready'
  BY <1>0 DEF IndInv, Ready, setup
<1>5. Configured'
  BY <1>0, <1>1 DEF IndInv, Configured, Running
<1>6. Accounted'
  <2> USE RestIsBelow DEF IndInv, Accounted, SettingUp, Running
  <2>1. CASE DetachEvent
    <3>1. BoundFrom(next)' = BoundFrom(next + 1)
      BY <1>0, <2>1 DEF BoundFrom, DetachEvent, setup
    <3> QED BY <1>0, <1>1, <2>1, <3>1 DEF DetachEvent
  <2>2. CASE EventsDetached
    <3>1. TargetsFrom(next)' = TargetsFrom(1)
      BY <2>2 DEF TargetsFrom, EventsDetached, Goto, setup
    <3> QED BY <1>0, <1>1, <2>2, <3>1 DEF EventsDetached, Goto, plugins
  <2>3. CASE DetachTarget
    <3>1. TargetsFrom(next)' = TargetsFrom(next + 1)
      BY <1>0, <2>3 DEF TargetsFrom, DetachTarget, setup
    <3> QED BY <1>0, <1>1, <2>3, <3>1 DEF DetachTarget
  <2>4. CASE TargetsDetached
    BY <1>1, <2>4 DEF TargetsDetached, Goto, plugins
  <2>5. CASE \E n \in Names : FreePlugin(n)
    BY <1>1, <2>5 DEF FreePlugin
  <2>6. CASE PluginsFreed
    BY <1>1, <2>6 DEF PluginsFreed, Goto, plugins
  <2> QED BY <2>1, <2>2, <2>3, <2>4, <2>5, <2>6 DEF Shutdown
<1> QED BY <1>2, <1>3, <1>4, <1>5, <1>6 DEF IndInv

-----------------------------------------------------------------------------
(* The set-up.                                                             *)

(* A fresh attachment is not attached yet, and the next one comes after it. *)
LEMMA FreshIsNew ==
    ASSUME IndInv, SettingUp, NEW n \in Names, NEW a, a = [plugin |-> n, userdata |-> Fresh]
    PROVE  /\ a \in Attachment /\ a.plugin = n /\ a \notin live
           /\ IsFiniteSet(live \union {a})
           /\ \A b \in live \union {a} : b.userdata <= Cardinality(live \union {a})
<1>1. IsFiniteSet(live) /\ Cardinality(live) \in Nat
      /\ \A b \in live : b.userdata <= Cardinality(live)
  BY FS_CardinalityType DEF IndInv, Numbered
<1>2. a \in Attachment /\ a.plugin = n /\ a.userdata = 1 + Cardinality(live)
  BY <1>1 DEF Attachment, Fresh
<1>3. a \notin live
  BY <1>1, <1>2
<1>4. IsFiniteSet(live \union {a}) /\ Cardinality(live \union {a}) = Cardinality(live) + 1
  BY <1>1, <1>3, FS_AddElement
<1>5. \A b \in live : b.userdata \in Nat
  BY DEF IndInv, TypeOK, Attachment
<1> QED BY <1>1, <1>2, <1>3, <1>4, <1>5

LEMMA NameTypes ==
    ASSUME IndInv
    PROVE  /\ \A e \in 1..Len(config.events) :
                 /\ config.events[e] \in Seq(SourceNames)
                 /\ Len(config.events[e]) \in Nat
                 /\ \A i \in 1..Len(config.events[e]) : config.events[e][i] \in Names
           /\ \A i \in 1..Len(config.targets) : config.targets[i] \in Names
           /\ \A i \in 1..Len(config.plugins) : config.plugins[i] \in Names
           /\ Len(config.events) \in Nat /\ Len(config.targets) \in Nat
           /\ Len(config.plugins) \in Nat
<1>1. /\ config.plugins \in Seq(Names) /\ Len(config.plugins) \in Nat
      /\ config.events \in Seq(Seq(SourceNames)) /\ Len(config.events) \in Nat
      /\ config.targets \in Seq(OutputNames) /\ Len(config.targets) \in Nat
  BY ConfigTypes DEF IndInv, TypeOK
<1>2. ASSUME NEW e \in 1..Len(config.events)
      PROVE  /\ config.events[e] \in Seq(SourceNames)
             /\ Len(config.events[e]) \in Nat
             /\ \A i \in 1..Len(config.events[e]) : config.events[e][i] \in SourceNames
  BY <1>1, ElementOfSeq, LenProperties
<1>3. \A i \in 1..Len(config.targets) : config.targets[i] \in OutputNames
  BY <1>1, ElementOfSeq
<1>4. \A i \in 1..Len(config.plugins) : config.plugins[i] \in Names
  BY <1>1, ElementOfSeq
<1> QED BY <1>1, <1>2, <1>3, <1>4 DEF Names

LEMMA SetupLengths ==
    ASSUME IndInv
    PROVE  /\ next \in Nat \ {0} /\ Len(bindings) \in Nat /\ Len(targets) \in Nat
           /\ Len(building) \in Nat /\ building \in Seq(Attachment)
           /\ targets \in Seq(Attachment) /\ bindings \in Seq(Seq(Attachment))
BY LenProperties DEF IndInv, TypeOK

LEMMA LoadInv == ASSUME IndInv, LoadPlugin \/ PluginsLoaded PROVE IndInv'
<1>1. CASE Goto("detach") /\ LoadPlugin
  <2>1. next \in 1..Len(config.plugins)
    BY <1>1, NameTypes, SetupLengths DEF LoadPlugin
  <2>2. registered' \subseteq Names
    BY <1>1, <2>1, NameTypes, SMTT(30) DEF LoadPlugin, Goto, IndInv, TypeOK
  <2>3. registered \subseteq registered'
    BY <1>1 DEF LoadPlugin
  <2> QED BY <1>1, <2>2, <2>3, DownInv DEF LoadPlugin, SettingUp, plugins, IndInv, TypeOK
<1>2. CASE UNCHANGED pc /\ LoadPlugin
  <2>1. next \in 1..Len(config.plugins) /\ pc = "load" /\ pc' = "load"
        /\ UNCHANGED <<config, initialized, building, bindings, targets, event, plugins>>
    BY <1>2, NameTypes, SetupLengths DEF LoadPlugin
  <2>2. registered \subseteq registered' /\ registered' \subseteq Names /\ next' = next + 1
    BY <1>2, <2>1, NameTypes DEF LoadPlugin, Goto, IndInv, TypeOK
  <2>3. TypeOK'
    BY <2>1, <2>2, SetupLengths DEF IndInv, TypeOK, event, plugins
  <2> QED BY <2>1, <2>2, <2>3 DEF IndInv, Accounted, Numbered, Ready, Configured, Progress, SettingUp,
             Running, Processing, Bound, BoundFrom, plugins
<1>3. CASE PluginsLoaded
  <2>1. pc = "load" /\ pc' = "addEvent" /\ next' = 1 /\ UNCHANGED <<setup, event, plugins>>
    BY <1>3 DEF PluginsLoaded, Goto
  <2>2. TypeOK'
    BY <2>1 DEF IndInv, TypeOK, setup, event, plugins, Pc
  <2>3. Configured'
    BY <2>1, SetupLengths DEF IndInv, Configured, Running, setup
  <2> QED BY <2>1, <2>2, <2>3 DEF IndInv, Accounted, Numbered, Ready, Progress, SettingUp,
             Running, Processing, Bound, BoundFrom, setup, plugins
<1> QED BY <1>1, <1>2, <1>3 DEF LoadPlugin

LEMMA AttachSourceInv == ASSUME IndInv, AttachSource PROVE IndInv'
<1> DEFINE n == config.events[next][Len(building) + 1]
           a == [plugin |-> n, userdata |-> Fresh]
<1>0. /\ pc = "addEvent" /\ next \in 1..Len(config.events) /\ next = Len(bindings) + 1
      /\ Len(building) < Len(config.events[next]) /\ n \in Names /\ SettingUp
      /\ UNCHANGED <<config, registered, bindings, targets, event, freed>>
  <2>1. pc = "addEvent" /\ next \in 1..Len(config.events) /\ next = Len(bindings) + 1
        /\ Len(building) < Len(config.events[next])
    BY NameTypes, SetupLengths DEF AttachSource, IndInv, Configured
  <2>2. Len(building) + 1 \in 1..Len(config.events[next])
    BY <2>1, NameTypes, SetupLengths
  <2> QED BY <2>1, <2>2, NameTypes DEF AttachSource, SettingUp
<1>1. CASE Goto("detach") /\ (GetPlugin(n) \/ GetPluginFails(n)) /\ UNCHANGED <<building, live>>
  BY <1>0, <1>1, DownInv DEF GetPlugin, GetPluginFails, IndInv, TypeOK
<1>2. CASE /\ GetPlugin(n) /\ building' = Append(building, a) /\ live' = live \union {a}
           /\ UNCHANGED <<pc, next>>
  <2>1. /\ a \in Attachment /\ a.plugin = n /\ a \notin live
        /\ IsFiniteSet(live')
        /\ \A b \in live' : b.userdata <= Cardinality(live')
    BY <1>0, <1>2, FreshIsNew
  <2> HIDE DEF a, n
  <2>2. /\ building' \in Seq(Attachment) /\ Len(building') = Len(building) + 1
        /\ \A i \in 1..Len(building) : building'[i] = building[i]
        /\ building'[Len(building) + 1] = a
    BY <1>2, <2>1, SetupLengths, AppendProperties
  <2>3. ToSet(building') = ToSet(building) \union {a}
    BY <1>2, <2>1, SetupLengths, SetOfAppended
  <2>4. registered' = registered /\ n \in registered /\ initialized' = initialized \union {n}
    BY <1>0, <1>2 DEF GetPlugin
  <2>5. TypeOK'
    BY <1>0, <1>2, <2>1, <2>2, <2>4 DEF IndInv, TypeOK, event
  <2>6. Bound' = Bound
    BY <1>0 DEF Bound, BoundFrom
  <2>7. Accounted'
    BY <1>0, <1>2, <2>1, <2>3, <2>6 DEF IndInv, Accounted, SettingUp, Running
  <2>8. Numbered' /\ Ready' /\ Progress'
    BY <1>0, <1>2, <2>1, <2>4 DEF IndInv, Numbered, Ready, Progress, Processing
  <2>9. Matches(building, config.events[next], Len(building))
    <3>1. CASE building = <<>>
      BY <1>0, <3>1, SetupLengths, NameTypes DEF Matches
    <3>2. CASE building # <<>>
      BY <1>0, <3>2 DEF IndInv, Configured
    <3> QED BY <3>1, <3>2
  <2>10. Matches(building', config.events[next], Len(building'))
    <3>1. Len(building') <= Len(config.events[next])
      BY <1>0, <2>2, SetupLengths, NameTypes
    <3>2. ASSUME NEW i \in 1..Len(building') PROVE building'[i].plugin = config.events[next][i]
      <4>1. CASE i \in 1..Len(building)
        BY <2>2, <2>9, <4>1 DEF Matches
      <4>2. CASE i = Len(building) + 1
        BY <2>1, <2>2, <4>2 DEF n
      <4> QED BY <2>2, <4>1, <4>2, SetupLengths
    <3> QED BY <3>1, <3>2 DEF Matches
  <2>11. Configured'
    BY <1>0, <1>2, <2>10 DEF IndInv, Configured, Running
  <2> QED BY <2>5, <2>7, <2>8, <2>11 DEF IndInv
<1> QED BY <1>1, <1>2 DEF AttachSource

LEMMA AddEventInv == ASSUME IndInv, AddEvent \/ EventsAdded PROVE IndInv'
<1>1. CASE AddEvent
  <2>1. /\ pc = "addEvent" /\ pc' = "addEvent" /\ next \in 1..Len(config.events)
        /\ next = Len(bindings) + 1 /\ next' = next + 1 /\ targets = <<>>
        /\ Len(building) = Len(config.events[next])
        /\ bindings' = Append(bindings, building) /\ building' = <<>>
        /\ UNCHANGED <<config, registered, initialized, targets, event, plugins>>
    BY <1>1, NameTypes, SetupLengths DEF AddEvent, IndInv, Configured
  <2>2. /\ bindings' \in Seq(Seq(Attachment)) /\ Len(bindings') = Len(bindings) + 1
        /\ \A e \in 1..Len(bindings) : bindings'[e] = bindings[e]
        /\ bindings'[Len(bindings) + 1] = building
    BY <2>1, SetupLengths, AppendProperties
  <2>3. TypeOK'
    <3>1. job' \in 0..Len(bindings') /\ next' \in Nat \ {0}
      BY <2>1, <2>2, SetupLengths DEF IndInv, TypeOK, event
    <3>2. building' \in Seq(Attachment)
      BY <2>1
    <3> QED BY <2>1, <2>2, <3>1, <3>2 DEF IndInv, TypeOK, event, plugins
  <2>4. 1..Len(bindings') = 1..Len(bindings) \union {Len(bindings) + 1}
    BY <2>2, SetupLengths
  <2>5. BoundFrom(1)' = BoundFrom(1) \union ToSet(building)
    BY <2>2, <2>4 DEF BoundFrom
  <2>6. Bound' = Bound \union ToSet(building) /\ ToSet(building') = {}
    BY <2>1, <2>5, SetOfEmpty DEF Bound
  <2>7. Accounted'
    BY <2>1, <2>6 DEF IndInv, Accounted, SettingUp, Running, plugins
  <2>8. Numbered' /\ Ready' /\ Progress'
    BY <2>1 DEF IndInv, Numbered, Ready, Progress, SettingUp, Processing, plugins
  <2>9. Matches(building, config.events[next], Len(config.events[next]))
    <3>1. CASE building = <<>>
      BY <2>1, <3>1, SetupLengths DEF Matches
    <3>2. CASE building # <<>>
      BY <2>1, <3>2 DEF IndInv, Configured
    <3> QED BY <3>1, <3>2
  <2>10. ASSUME NEW e \in 1..Len(bindings')
         PROVE  Matches(bindings'[e], config.events[e], Len(config.events[e]))
    <3>1. CASE e \in 1..Len(bindings)
      BY <2>2, <3>1 DEF IndInv, Configured
    <3>2. CASE e = Len(bindings) + 1
      BY <2>1, <2>2, <2>9, <3>2
    <3> QED BY <2>4, <3>1, <3>2
  <2>11. Configured'
    BY <2>1, <2>2, <2>10, SetupLengths DEF IndInv, Configured, Running
  <2> QED BY <2>3, <2>7, <2>8, <2>11 DEF IndInv
<1>2. CASE EventsAdded
  <2>1. /\ pc = "addEvent" /\ pc' = "addTarget" /\ next' = 1 /\ next > Len(config.events)
        /\ UNCHANGED <<setup, event, plugins>> /\ targets = <<>> /\ Len(targets) = 0
    BY <1>2 DEF EventsAdded, Goto, IndInv, Configured
  <2>2. TypeOK'
    BY <2>1 DEF IndInv, TypeOK, setup, event, plugins, Pc
  <2>3. Len(bindings) = Len(config.events) /\ building = <<>>
    BY <2>1, SetupLengths, NameTypes DEF IndInv, Configured
  <2>4. Configured'
    BY <2>1, <2>3 DEF IndInv, Configured, Running, setup
  <2> QED BY <2>1, <2>2, <2>4 DEF IndInv, Accounted, Numbered, Ready, Progress, SettingUp,
             Running, Processing, Bound, BoundFrom, setup, plugins
<1> QED BY <1>1, <1>2

LEMMA AddTargetInv == ASSUME IndInv, AddTarget PROVE IndInv'
<1> DEFINE n == config.targets[next]
           a == [plugin |-> n, userdata |-> Fresh]
<1>0. /\ pc = "addTarget" /\ next \in 1..Len(config.targets) /\ next = Len(targets) + 1
      /\ n \in Names /\ SettingUp /\ building = <<>>
      /\ UNCHANGED <<config, registered, building, bindings, event, freed>>
  BY NameTypes, SetupLengths DEF AddTarget, IndInv, Configured, SettingUp
<1>1. CASE Goto("detach") /\ (GetPlugin(n) \/ GetPluginFails(n)) /\ UNCHANGED <<targets, live>>
  BY <1>0, <1>1, DownInv DEF GetPlugin, GetPluginFails, IndInv, TypeOK
<1>2. CASE /\ GetPlugin(n) /\ targets' = Append(targets, a) /\ live' = live \union {a}
           /\ next' = next + 1 /\ UNCHANGED pc
  <2>1. /\ a \in Attachment /\ a.plugin = n /\ a \notin live
        /\ IsFiniteSet(live')
        /\ \A b \in live' : b.userdata <= Cardinality(live')
    BY <1>0, <1>2, FreshIsNew
  <2> HIDE DEF a
  <2>2. /\ targets' \in Seq(Attachment) /\ Len(targets') = Len(targets) + 1
        /\ \A i \in 1..Len(targets) : targets'[i] = targets[i]
        /\ targets'[Len(targets) + 1] = a
    BY <1>2, <2>1, SetupLengths, AppendProperties
  <2>3. ToSet(targets') = ToSet(targets) \union {a}
    BY <1>2, <2>1, SetupLengths, SetOfAppended
  <2>4. registered' = registered /\ n \in registered /\ initialized' = initialized \union {n}
    BY <1>0, <1>2 DEF GetPlugin
  <2>5. TypeOK'
    BY <1>0, <1>2, <2>1, <2>2, <2>3, <2>4 DEF IndInv, TypeOK, event
  <2>6. Bound' = Bound \union {a} /\ ToSet(building) = {}
    BY <1>0, <2>3, SetOfEmpty DEF Bound, BoundFrom
  <2>7. Accounted'
    BY <1>0, <1>2, <2>1, <2>6 DEF IndInv, Accounted, SettingUp, Running
  <2>8. Numbered' /\ Ready' /\ Progress'
    BY <1>0, <1>2, <2>1, <2>4 DEF IndInv, Numbered, Ready, Progress, Processing
  <2>9. Matches(targets', config.targets, Len(targets'))
    <3>1. Matches(targets, config.targets, Len(targets))
      BY DEF IndInv, Configured
    <3>2. ASSUME NEW i \in 1..Len(targets') PROVE targets'[i].plugin = config.targets[i]
      <4>1. CASE i \in 1..Len(targets)
        BY <2>2, <3>1, <4>1 DEF Matches
      <4>2. CASE i = Len(targets) + 1
        BY <1>0, <2>1, <2>2, <4>2
      <4> QED BY <2>2, <4>1, <4>2, SetupLengths
    <3>3. Len(targets') <= Len(config.targets)
      BY <1>0, <2>2, SetupLengths, NameTypes
    <3> QED BY <3>2, <3>3 DEF Matches
  <2>10. Configured'
    BY <1>0, <1>2, <2>2, <2>9 DEF IndInv, Configured, Running
  <2> QED BY <2>5, <2>7, <2>8, <2>10 DEF IndInv
<1> QED BY <1>1, <1>2 DEF AddTarget

LEMMA TargetsAddedInv == ASSUME IndInv, TargetsAdded PROVE IndInv'
<1>1. CASE Goto("detach")
  BY <1>1, DownInv DEF TargetsAdded, SettingUp, setup, plugins, IndInv, TypeOK
<1>2. CASE Goto("run")
  <2>1. /\ pc = "addTarget" /\ pc' = "run" /\ next' = 1 /\ next > Len(config.targets)
        /\ UNCHANGED <<setup, event, plugins>>
    BY <1>2 DEF TargetsAdded, Goto
  <2>2. TypeOK'
    BY <2>1 DEF IndInv, TypeOK, setup, event, plugins, Pc
  <2>3. Len(targets) = Len(config.targets)
    BY <2>1, SetupLengths, NameTypes DEF IndInv, Configured, Matches
  <2>4. Configured'
    BY <2>1, <2>3 DEF IndInv, Configured, Running, setup
  <2> QED BY <2>1, <2>2, <2>4 DEF IndInv, Accounted, Numbered, Ready, Progress, SettingUp,
             Running, Processing, Bound, BoundFrom, setup, plugins
<1> QED BY <1>1, <1>2 DEF TargetsAdded

LEMMA IndInvHolds == Spec => []IndInv
<1>1. IndInv /\ [Next]_vars => IndInv'
  <2> SUFFICES ASSUME IndInv, [Next]_vars PROVE IndInv'
    OBVIOUS
  <2>1. CASE Setup
    BY <2>1, LoadInv, AttachSourceInv, AddEventInv, AddTargetInv, TargetsAddedInv DEF Setup
  <2>2. CASE EventStep
    BY <2>2, EventInv
  <2>3. CASE RunReturns
    BY <2>3, DownInv DEF RunReturns, setup, plugins, IndInv, TypeOK
  <2>4. CASE Shutdown
    BY <2>4, ShutdownInv
  <2>5. CASE UNCHANGED vars
    <3>1. TypeOK'
      BY <2>5 DEF vars, setup, event, plugins, IndInv, TypeOK
    <3>2. Accounted' /\ Numbered' /\ Ready'
      BY <2>5 DEF vars, setup, event, plugins, IndInv, Accounted, Numbered, Ready, SettingUp,
         Running, Bound, BoundFrom, TargetsFrom
    <3>3. Configured' /\ Progress'
      BY <2>5 DEF vars, setup, event, plugins, IndInv, Configured, Progress, Running, Processing
    <3> QED BY <3>1, <3>2, <3>3 DEF IndInv
  <2> QED BY <2>1, <2>2, <2>3, <2>4, <2>5 DEF Next, EventStep
<1> QED BY <1>1, InitInv, PTL DEF Spec

-----------------------------------------------------------------------------
(* Every variable of the service has its type.                             *)
THEOREM TypeCorrect == Spec => []TypeOK
<1>1. IndInv => TypeOK
  BY DEF IndInv
<1> QED BY <1>1, IndInvHolds, PTL

(* main enters run only with every event, source and target that the       *)
(* configuration names, attached to plugins that are initialized and not   *)
(* freed, wherever the set-up fails (evcollectd.cc:219-250, 289-293).      *)
THEOREM RunsAsConfigured == Spec => []RunsFullConfig
<1>1. IndInv => RunsFullConfig
  <2> SUFFICES ASSUME IndInv, Running PROVE RunsFullConfig
    BY DEF RunsFullConfig
  <2>1. /\ Len(bindings) = Len(config.events) /\ Len(targets) = Len(config.targets)
        /\ Matches(targets, config.targets, Len(targets))
        /\ \A e \in 1..Len(bindings) :
              Matches(bindings[e], config.events[e], Len(config.events[e]))
    BY DEF IndInv, Configured
  <2>2. /\ config.events \in Seq(Seq(SourceNames)) /\ config.targets \in Seq(OutputNames)
        /\ Len(config.events) \in Nat /\ Len(config.targets) \in Nat
    BY ConfigTypes DEF IndInv, TypeOK
  <2>3. PluginsOf(targets) = config.targets
    <3>1. config.targets = [i \in 1..Len(config.targets) |-> config.targets[i]]
      BY <2>2
    <3> QED BY <2>1, <3>1 DEF PluginsOf, Matches
  <2>4. ASSUME NEW e \in 1..Len(bindings) PROVE PluginsOf(bindings[e]) = config.events[e]
    <3>1. config.events[e] \in Seq(SourceNames)
      BY <2>1, <2>2, ElementOfSeq
    <3>2. config.events[e] = [i \in 1..Len(config.events[e]) |-> config.events[e][i]]
      BY <3>1
    <3>3. Matches(bindings[e], config.events[e], Len(config.events[e]))
      BY <2>1
    <3> QED BY <3>2, <3>3 DEF PluginsOf, Matches
  <2>5. [e \in 1..Len(bindings) |-> PluginsOf(bindings[e])] = config.events
    <3>1. config.events = [e \in 1..Len(config.events) |-> config.events[e]]
      BY <2>2
    <3> QED BY <2>1, <2>4, <3>1
  <2>6. Bound \subseteq live /\ \A a \in Bound : a.plugin \in initialized \ freed
    BY DEF IndInv, Accounted, Ready, Running
  <2> QED BY <2>3, <2>5, <2>6 DEF RunsFullConfig
<1> QED BY <1>1, IndInvHolds, PTL

(* What stays attached for good is what addEvent had attached for an event *)
(* that it gave up, the first sources of the next one to be added, and     *)
(* nothing else; everything else is detached before its plugin is freed    *)
(* (service.cc:124-137, 144-169, plugin.cc:254-262).                       *)
THEOREM OnlyTheGivenUpStaysAttached == Spec => []DetachedUnlessGivenUp
<1>1. IndInv => DetachedUnlessGivenUp
  <2> SUFFICES ASSUME IndInv PROVE DetachedUnlessGivenUp
    OBVIOUS
  <2>1. /\ \A a \in live : a.plugin \in freed => a \in ToSet(building)
        /\ pc = "end" => live = ToSet(building)
    BY DEF IndInv, Accounted, Ready
  <2>2. ASSUME building # <<>>
        PROVE  /\ targets = <<>> /\ Len(bindings) < Len(config.events)
               /\ IsPrefix(PluginsOf(building), config.events[Len(bindings) + 1])
    <3> DEFINE names == config.events[Len(bindings) + 1]
               n == Len(building)
    <3>1. /\ targets = <<>> /\ Len(bindings) + 1 <= Len(config.events)
          /\ Matches(building, names, n)
      BY <2>2 DEF IndInv, Configured
    <3>2. /\ Len(bindings) \in Nat /\ n \in Nat
          /\ Len(bindings) < Len(config.events)
          /\ Len(bindings) + 1 \in 1..Len(config.events)
      BY <3>1, SetupLengths, NameTypes
    <3>3. names \in Seq(SourceNames) /\ n <= Len(names)
      BY <3>1, <3>2, NameTypes DEF Matches
    <3>4. \A i \in 1..n : building[i].plugin = names[i]
      BY <3>1 DEF Matches
    <3> HIDE DEF names, n
    <3>5. PluginsOf(building) = [i \in 1..n |-> names[i]]
      BY <3>4 DEF PluginsOf, n
    <3>6. \A i \in 1..n : names[i] \in SourceNames
      BY <3>2, <3>3, ElementOfSeq, LenProperties
    <3>7. PluginsOf(building) \in Seq(SourceNames) /\ Len(PluginsOf(building)) = n
      BY <3>2, <3>5, <3>6
    <3>8. SubSeq(PluginsOf(building), 1, n) = SubSeq(names, 1, n)
      BY <3>2, <3>3, <3>5, <3>7
    <3>9. IsPrefix(PluginsOf(building), names)
      BY <3>3, <3>7, <3>8 DEF IsPrefix
    <3> QED BY <3>1, <3>2, <3>9 DEF names
  <2> QED BY <2>1, <2>2 DEF DetachedUnlessGivenUp
<1> QED BY <1>1, IndInvHolds, PTL

(* However many sources an event has, what is emitted is the answer of the *)
(* last one (service.cc:42, 384-390).                                      *)
THEOREM LastSourceDecides == Spec => []OnlyLastSource
<1>1. IndInv => OnlyLastSource
  <2> SUFFICES ASSUME IndInv, Processing, Answered PROVE merged = Last(answers).data
    BY DEF OnlyLastSource
  <2>1. bindings[job] \in Seq(Attachment) /\ bindings[job] # <<>>
    BY ElementOfSeq DEF IndInv, TypeOK, Progress
  <2>2. answers # <<>>
    BY <2>1, EmptySeq DEF Answered
  <2> QED BY <2>2 DEF IndInv, Progress, Last
<1> QED BY <1>1, IndInvHolds, PTL

(* An event that was merged is given to every target before the next one   *)
(* is asked for, whichever deliveries fail (service.cc:280-290).           *)
THEOREM EveryTargetGetsIt == Spec => EveryTargetTried
<1>1. IndInv /\ [Next]_vars =>
        [RoundOver /\ Answered /\ merged # None => offered = ToSet(targets)]_vars
  <2> SUFFICES ASSUME IndInv, Next, RoundOver, Answered, merged # None
               PROVE  offered = ToSet(targets)
    OBVIOUS
  <2>0. /\ Len(bindings[job]) \in Nat \ {0} /\ Len(answers) = Len(bindings[job])
        /\ answers \in Seq(Answer) /\ answers # <<>> /\ Processing
    <3>1. bindings[job] \in Seq(Attachment) /\ bindings[job] # <<>> /\ answers \in Seq(Answer)
      BY ElementOfSeq DEF IndInv, TypeOK, Progress, RoundOver
    <3> QED BY <3>1, EmptySeq DEF Answered, RoundOver
  <2>1. CASE pc = "source"
    <3>1. next > Len(bindings[job])
      BY <2>0, <2>1 DEF IndInv, TypeOK, Progress
    <3>2. EmitEvent
      BY <2>0, <2>1, <3>1, SetupLengths DEF Next, Setup, LoadPlugin, PluginsLoaded, AttachSource, AddEvent, EventsAdded,
         AddTarget, TargetsAdded, ProcessEvent, Process, GetNextEvent, GetNextEventFails,
         NothingMerged, Deliver, Delivered, RunReturns, Shutdown, DetachEvent, EventsDetached,
         DetachTarget, TargetsDetached, FreePlugin, PluginsFreed
    <3> QED BY <2>0, <3>2 DEF EmitEvent, Goto, RoundOver, event
  <2>2. CASE pc = "deliver"
    <3>1. Deliver \/ Delivered
      BY <2>2 DEF Next, Setup, LoadPlugin, PluginsLoaded, AttachSource, AddEvent, EventsAdded,
         AddTarget, TargetsAdded, ProcessEvent, Process, GetNextEvent, GetNextEventFails,
         NothingMerged, EmitEvent, RunReturns, Shutdown, DetachEvent, EventsDetached,
         DetachTarget, TargetsDetached, FreePlugin, PluginsFreed
    <3>2. next > Len(targets)
      BY <2>0, <2>2, <3>1 DEF Deliver, Delivered, RoundOver
    <3>3. next - 1 = Len(targets)
      BY <2>2, <3>2, SetupLengths DEF IndInv, Progress
    <3>4. offered = {targets[i] : i \in 1..Len(targets)}
      BY <2>2, <3>3 DEF IndInv, Progress
    <3>5. ToSet(targets) = {targets[i] : i \in 1..Len(targets)}
      BY SetupLengths, SetOfSeq
    <3> QED BY <3>4, <3>5
  <2> QED BY <2>0, <2>1, <2>2 DEF Processing
<1> QED BY <1>1, IndInvHolds, PTL DEF Spec, EveryTargetTried

-----------------------------------------------------------------------------
(* The steps that are left of the round processEvent is in.  Another round *)
(* only begins when a source said in this one that it has more.            *)
RoundLeft ==
    CASE pc = "source" -> (Len(bindings[job]) + 1 - next) + Len(targets) + 3
      [] pc = "deliver" -> (Len(targets) + 1 - next) + 1
      [] OTHER -> 0
SaysMore == \E i \in 1..Len(answers) : answers[i].more
AnotherRound == pc' = "source" /\ answers' = <<>> /\ SaysMore

(* cont is what the sources of this round said.                            *)
Pending == Processing /\ cont => SaysMore

LEMMA PendingStep == ASSUME IndInv, Pending, [Next]_vars PROVE Pending'
<1>1. CASE GetNextEvent
  <2>1. answers \in Seq(Answer) /\ Processing
    BY <1>1 DEF IndInv, TypeOK, GetNextEvent, Processing
  <2>2. PICK answer \in {None, next}, more \in BOOLEAN :
             /\ answers' = Append(answers, [data |-> answer, more |-> more])
             /\ cont' = (cont \/ more)
    BY <1>1 DEF GetNextEvent
  <2>3. [data |-> answer, more |-> more] \in Answer
    BY DEF IndInv, TypeOK, Answer, None
  <2>4. /\ Len(answers) \in Nat /\ Len(answers') = Len(answers) + 1
        /\ \A i \in 1..Len(answers) : answers'[i] = answers[i]
        /\ answers'[Len(answers) + 1].more = more
    BY <2>1, <2>2, <2>3, AppendProperties, LenProperties
  <2>5. CASE more
    <3>1. Len(answers) + 1 \in 1..Len(answers') /\ answers'[Len(answers) + 1].more
      BY <2>4, <2>5
    <3> QED BY <3>1 DEF Pending, SaysMore
  <2>6. CASE cont
    <3>1. PICK i \in 1..Len(answers) : answers[i].more
      BY <2>1, <2>6 DEF Pending, SaysMore
    <3>2. i \in 1..Len(answers') /\ answers'[i].more
      BY <2>4, <3>1
    <3> QED BY <3>2 DEF Pending, SaysMore
  <2> QED BY <2>2, <2>5, <2>6 DEF Pending
<1>2. ASSUME cont' = FALSE PROVE Pending'
  BY <1>2 DEF Pending
<1>3. ASSUME ~Processing' PROVE Pending'
  BY <1>3 DEF Pending
<1>4. ASSUME Processing, UNCHANGED <<cont, answers>> PROVE Pending'
  BY <1>4 DEF Pending, SaysMore
<1>5. CASE UNCHANGED vars
  BY <1>5 DEF vars, event, Pending, Processing, SaysMore
<1>6. CASE Setup \/ RunReturns \/ Shutdown
  <2>1. ~Processing'
    BY <1>6 DEF Setup, LoadPlugin, PluginsLoaded, AttachSource, AddEvent, EventsAdded,
       AddTarget, TargetsAdded, RunReturns, Shutdown, DetachEvent, EventsDetached,
       DetachTarget, TargetsDetached, FreePlugin, PluginsFreed, Goto, Processing
  <2> QED BY <1>3, <2>1
<1>7. ASSUME NEW e \in 1..Len(bindings), Process(e) PROVE Pending'
  BY <1>2, <1>7 DEF Process, Round
<1>8. CASE GetNextEventFails
  BY <1>3, <1>8 DEF GetNextEventFails, Goto, Processing
<1>9. CASE NothingMerged \/ Delivered
  <2>1. cont' = FALSE \/ ~Processing'
    BY <1>9 DEF NothingMerged, Delivered, Round, Goto, Processing
  <2> QED BY <1>2, <1>3, <2>1
<1>10. CASE EmitEvent \/ Deliver
  BY <1>4, <1>10 DEF EmitEvent, Deliver, event, Processing
<1> QED BY <1>1, <1>5, <1>6, <1>7, <1>8, <1>9, <1>10 DEF Next, ProcessEvent

LEMMA RoundGetsOn ==
    ASSUME IndInv, Pending, Next, Processing
    PROVE  RoundLeft \in Nat /\ (RoundLeft' < RoundLeft \/ AnotherRound)
<1>1. /\ Len(bindings[job]) \in Nat /\ Len(targets) \in Nat /\ next \in Nat
      /\ pc = "source" => next <= Len(bindings[job]) + 1
      /\ pc = "deliver" => next <= Len(targets) + 1
  BY LenProperties, ElementOfSeq DEF IndInv, TypeOK, Progress
<1>2. RoundLeft \in Nat /\ RoundLeft > 0
  BY <1>1, SMTT(30) DEF RoundLeft, Processing
<1>3. ASSUME pc' = "run" PROVE RoundLeft' < RoundLeft
  BY <1>2, <1>3 DEF RoundLeft
<1>4. CASE GetNextEvent
  <2>1. /\ pc = "source" /\ pc' = "source" /\ next' = next + 1
        /\ UNCHANGED <<bindings, targets, job>>
    BY <1>4 DEF GetNextEvent, setup
  <2> QED BY <1>1, <1>2, <2>1, SMTT(30) DEF RoundLeft
<1>5. CASE Deliver
  <2>1. /\ pc = "deliver" /\ pc' = "deliver" /\ next' = next + 1
        /\ UNCHANGED <<bindings, targets, job>>
    BY <1>5 DEF Deliver, setup
  <2> QED BY <1>1, <1>2, <2>1 DEF RoundLeft
<1>6. CASE EmitEvent
  <2>1. /\ pc = "source" /\ pc' = "deliver" /\ next' = 1 /\ UNCHANGED targets
    BY <1>6 DEF EmitEvent, Goto, setup
  <2> QED BY <1>1, <1>2, <2>1 DEF RoundLeft
<1>7. CASE GetNextEventFails
  BY <1>2, <1>3, <1>7 DEF GetNextEventFails, Goto
<1>8. CASE NothingMerged \/ Delivered
  <2>1. CASE cont /\ Round
    BY <1>2, <2>1 DEF Round, Goto, Pending, AnotherRound
  <2>2. CASE Goto("run")
    BY <1>2, <1>3, <2>2 DEF Goto
  <2> QED BY <1>8, <2>1, <2>2 DEF NothingMerged, Delivered
<1>9. ProcessEvent
  BY DEF Processing, Next, Setup, LoadPlugin, PluginsLoaded, AttachSource, AddEvent,
     EventsAdded, AddTarget, TargetsAdded, Process, RunReturns, Shutdown, DetachEvent,
     EventsDetached, DetachTarget, TargetsDetached, FreePlugin, PluginsFreed
<1> QED BY <1>4, <1>5, <1>6, <1>7, <1>8, <1>9 DEF ProcessEvent

(* Each step of processEvent brings the end of its round nearer, and the   *)
(* next round only begins when a source of this one said that it has more: *)
(* an event whose sources have nothing left is not processed for ever,     *)
(* whatever the plugins answer (service.cc:360-405).                       *)
THEOREM RoundsEnd ==
    Spec => [][Processing => RoundLeft \in Nat /\ (RoundLeft' < RoundLeft \/ AnotherRound)]_vars
<1>1. Init => Pending
  BY DEF Init, Pending, Processing
<1>2. IndInv /\ Pending /\ [Next]_vars => Pending'
  BY PendingStep
<1>3. IndInv /\ Pending /\ [Next]_vars =>
        [Processing => RoundLeft \in Nat /\ (RoundLeft' < RoundLeft \/ AnotherRound)]_vars
  BY RoundGetsOn
<1> QED BY <1>1, <1>2, <1>3, IndInvHolds, PTL DEF Spec

===============================================================================
