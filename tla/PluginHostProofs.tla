--------------------------- MODULE PluginHostProofs ----------------------------
(***************************************************************************)
(* Proofs about PluginHost, for any libraries, whatever they register, and *)
(* for any configuration.                                                  *)
(*                                                                         *)
(* A library is closed only while main loads plugins, and then main gives  *)
(* up: nothing is initialized (Unused), nothing attached, and from there   *)
(* on only plugins that were initialized are called (Reachable).  Until    *)
(* then every plugin in the map has an open library (Open).  MayCall says  *)
(* when main calls a function, and Calling that it stays so until the      *)
(* function returns.                                                       *)
(***************************************************************************)
EXTENDS PluginHost, SequenceTheorems, TLAPS

Open ==
    \A key \in Keys :
        /\ table[key] # None
        /\ pc \in {"load", "attach", "run"} \/ table[key].ready
        => handles[table[key].code] > 0

Unused ==
    pc = "load" =>
        /\ bound = <<>> /\ building = <<>>
        /\ \A key \in Keys : table[key] # None => ~table[key].ready

Ready(key) == table[key] # None /\ table[key].ready

Reachable ==
    /\ \A i \in 1..Len(bound) : Ready(bound[i].key)
    /\ \A i \in 1..Len(building) : Ready(building[i].key)

(* The attachments are numbered through.                                   *)
Numbered ==
    /\ \A i \in 1..Len(bound) : bound[i].user = i
    /\ \A i \in 1..Len(building) : building[i].user = Len(bound) + i

Ordered ==
    /\ pc = "attach" /\ next > Len(setup.bindings) => building = <<>>
    /\ pc \notin {"free", "end"} => freed = {}
    /\ \A key \in freed : Ready(key)

MayCall(fn, key, user) ==
    /\ key \in Keys
    /\ table[key] # None
    /\ \/ /\ fn = "init" /\ pc = "attach" /\ user = None
          /\ ~table[key].ready
       \/ /\ fn = "attach" /\ pc = "attach" /\ user = None
          /\ next <= Len(setup.bindings)
          /\ table[key].ready
       \/ /\ fn \in {"getnextevent", "hasnextevent", "emitevent"} /\ pc = "run"
          /\ \E i \in 1..Len(bound) : bound[i].key = key /\ bound[i].user = user
       \/ /\ fn = "detach" /\ pc = "detach" /\ next <= Len(bound)
          /\ bound[next].key = key /\ bound[next].user = user
       \/ /\ fn = "free" /\ pc = "free" /\ user = None
          /\ key \in ToFree

Calling ==
    call # None =>
        IF call.fn = "load"
        THEN /\ pc = "load" /\ next <= Len(setup.load)
             /\ call.code \in Libraries /\ handles[call.code] > 0
             /\ call.done <= Len(Library[call.code].registers)
        ELSE /\ MayCall(call.fn, call.key, call.user)
             /\ call.code = table[call.key].code

IndInv == TypeOK /\ Open /\ Unused /\ Reachable /\ Numbered /\ Ordered /\ Calling

-----------------------------------------------------------------------------
LEMMA SetupTypes ==
    ASSUME setup \in Setups
    PROVE  /\ setup.load \in Seq(Argument) /\ Len(setup.load) \in Nat
           /\ setup.bindings \in Seq(Seq(Keys)) /\ Len(setup.bindings) \in Nat
<1>1. setup \in Setup
  BY SetupsAssumption
<1> QED BY <1>1, LenProperties DEF Setup

LEMMA BindingTypes ==
    ASSUME NEW code \in Code, NEW functions \in SUBSET Optional
    PROVE  /\ Binding(code, functions) \in Bindings
           /\ Binding(code, functions) # None
           /\ Binding(code, functions).code = code
           /\ Binding(code, functions).ready = FALSE
<1>1. Binding(code, functions) \in Bindings
  BY DEF Binding, Bindings
<1>2. None \notin Bindings
  BY NoneAssumption, Zenon
<1> QED BY <1>1, <1>2 DEF Binding

(* Only what is there is located, so only libraries are loaded.            *)
LEMMA LoadableIsLibrary ==
    ASSUME NEW arg \in Argument PROVE Loadable(arg) \subseteq Libraries
<1>1. arg.asIs \in File /\ arg.inDir \in File /\ arg.soInDir \in File
  BY DEF Argument
<1>2. \A i \in DOMAIN Candidates(arg) : Candidates(arg)[i] \in File
  BY <1>1 DEF Candidates
<1>3. Located(arg) \subseteq Libraries
  BY <1>2 DEF Located, File
<1> QED BY <1>3 DEF Loadable

LEMMA LibraryTypes ==
    ASSUME NEW l \in Libraries
    PROVE  /\ Library[l].registers \in Seq(Registration)
           /\ Len(Library[l].registers) \in Nat
<1>1. Library[l] \in Content
  BY LibraryAssumption
<1> QED BY <1>1, LenProperties DEF Content

(* The next plugin that the event or target needs is a plugin.             *)
LEMMA WantedIsKey == ASSUME TypeOK, Wanting PROVE Wanted \in Keys
<1>1. setup.bindings \in Seq(Seq(Keys)) /\ next \in 1..Len(setup.bindings)
  BY SetupTypes DEF TypeOK, Wanting, Adding
<1>2. setup.bindings[next] \in Seq(Keys)
  BY <1>1, ElementOfSeq
<1>3. Len(building) + 1 \in 1..Len(setup.bindings[next])
  BY <1>2, LenProperties DEF TypeOK, Wanting
<1> QED BY <1>2, <1>3, ElementOfSeq DEF Wanted

LEMMA AttachmentTypes ==
    ASSUME TypeOK
    PROVE  /\ Len(bound) \in Nat /\ Len(building) \in Nat
           /\ \A i \in 1..Len(bound) : bound[i].key \in Keys /\ bound[i].user \in Nat
           /\ \A i \in 1..Len(building) : building[i].key \in Keys
<1>1. bound \in Seq(Attachment) /\ building \in Seq(Attachment)
  BY DEF TypeOK
<1>2. \A i \in 1..Len(bound) : bound[i] \in Attachment
  BY <1>1, ElementOfSeq
<1>3. \A i \in 1..Len(building) : building[i] \in Attachment
  BY <1>1, ElementOfSeq
<1> QED BY <1>1, <1>2, <1>3, LenProperties DEF Attachment

-----------------------------------------------------------------------------
LEMMA InitInv == Init => IndInv
<1> SUFFICES ASSUME Init PROVE IndInv
  OBVIOUS
<1>1. Binding(Program, Optional \ {"free"}) \in Bindings
      /\ Binding(Program, Optional \ {"free"}) # None
      /\ Binding(Program, Optional \ {"free"}).code = Program
      /\ Binding(Program, Optional \ {"free"}).ready = FALSE
  BY BindingTypes DEF Code
<1>2. TypeOK
  BY <1>1 DEF Init, TypeOK, Code
<1>3. Open /\ Unused
  <2>1. \A key \in Keys : table[key] # None =>
           table[key].code = Program /\ table[key].ready = FALSE
    BY <1>1 DEF Init
  <2>2. handles[Program] = 1
    BY DEF Init, Code
  <2>3. bound = <<>> /\ building = <<>>
    BY DEF Init
  <2>4. Open
    BY <2>1, <2>2 DEF Open
  <2>5. Unused
    BY <2>1, <2>3 DEF Unused
  <2> QED BY <2>4, <2>5
<1>4. Reachable /\ Numbered /\ Ordered /\ Calling
  BY DEF Init, Reachable, Numbered, Ordered, Calling
<1> QED BY <1>2, <1>3, <1>4 DEF IndInv

(* Main goes on, or gives up, without calling anything: what else has to   *)
(* hold then is what the next phase needs.                                 *)
LEMMA GotoInv ==
    ASSUME IndInv, NEW label \in {"attach", "run", "detach", "free", "end"},
           Goto(label), call' = None,
           UNCHANGED <<setup, table, freed, attachments>>,
           handles' \in [Code -> Nat],
           pc = "load" \/ UNCHANGED handles,
           label \in {"attach", "run"} => pc \in {"load", "attach"} /\ UNCHANGED handles,
           label = "attach" => building = <<>>,
           label \in {"attach", "run", "detach"} => pc \in {"load", "attach", "run"}
    PROVE  IndInv'
<1> USE DEF IndInv, Goto, attachments
<1>1. TypeOK'
  BY DEF TypeOK
<1>2. Open'
  BY DEF Open, Unused
<1>3. Unused' /\ Reachable' /\ Numbered'
  BY DEF Unused, Reachable, Numbered, Ready
<1>4. Ordered'
  BY DEF Ordered, Ready
<1>5. Calling'
  BY DEF Calling
<1> QED BY <1>1, <1>2, <1>3, <1>4, <1>5

LEMMA OpenLibraryInv == ASSUME IndInv, OpenLibrary PROVE IndInv'
<1> USE DEF IndInv
<1>1. PICK l \in Loadable(setup.load[next]) :
          /\ handles' = [handles EXCEPT ![l] = @ + 1]
          /\ Enter("load", l, None, None)
  BY DEF OpenLibrary
<1>2. l \in Libraries
  <2>1. setup.load \in Seq(Argument) /\ next \in 1..Len(setup.load)
    BY SetupTypes DEF TypeOK, OpenLibrary, Loading
  <2> QED BY <1>1, <2>1, ElementOfSeq, LoadableIsLibrary
<1>3. /\ handles' \in [Code -> Nat] /\ handles'[l] > 0
      /\ \A c \in Code : handles[c] > 0 => handles'[c] > 0
  BY <1>1, <1>2 DEF TypeOK, Code
<1>4. call' \in Calls /\ call' = [fn |-> "load", code |-> l, key |-> None,
                                   user |-> None, done |-> 0]
  BY <1>1, <1>2 DEF Enter, Calls, Code
<1>5. /\ UNCHANGED <<setup, pc, next, table, freed, building, bound>>
      /\ pc = "load" /\ next <= Len(setup.load)
  BY DEF OpenLibrary, Loading, attachments
<1>6. TypeOK'
  BY <1>3, <1>4, <1>5 DEF TypeOK
<1>7. Open'
  <2>1. \A key \in Keys : table[key] # None => table[key].code \in Code
    BY DEF TypeOK, Bindings
  <2> QED BY <1>3, <1>5, <2>1 DEF Open
<1>8. Unused' /\ Reachable' /\ Numbered' /\ Ordered'
  BY <1>5 DEF Unused, Reachable, Numbered, Ordered, Ready
<1>9. Calling'
  BY <1>2, <1>3, <1>4, <1>5, LibraryTypes DEF Calling
<1> QED BY <1>6, <1>7, <1>8, <1>9

LEMMA RegisterInv == ASSUME IndInv, Register PROVE IndInv'
<1> USE DEF IndInv
<1> DEFINE r == Library[call.code].registers[call.done + 1]
           entry == Binding(call.code, r.functions)
<1>1. /\ call # None /\ call \in Calls /\ call.fn = "load" /\ pc = "load"
      /\ call.code \in Libraries /\ handles[call.code] > 0
      /\ next <= Len(setup.load)
  BY DEF Register, Calling, TypeOK
<1>2. call.done \in Nat /\ call.done + 1 \in 1..Len(Library[call.code].registers)
  BY <1>1, LibraryTypes DEF Register, Pending, Calls
<1>3. r \in Registration
  BY <1>1, <1>2, LibraryTypes, ElementOfSeq
<1>4. r.key \in Keys /\ r.functions \in SUBSET Optional
  BY <1>3 DEF Registration
<1>5. /\ entry \in Bindings /\ entry # None /\ entry.code = call.code
      /\ entry.ready = FALSE
  BY <1>1, <1>4, BindingTypes DEF Code
<1>6. /\ table' = IF table[r.key] # None THEN table ELSE [table EXCEPT ![r.key] = entry]
      /\ call' = [call EXCEPT !.done = @ + 1]
      /\ UNCHANGED <<setup, pc, next, handles, freed, building, bound>>
  BY DEF Register, Pending, attachments
<1> HIDE DEF entry, r
<1>7. \/ UNCHANGED table
      \/ /\ table[r.key] = None
         /\ table' = [table EXCEPT ![r.key] = entry]
  BY <1>6
<1>8. \A key \in Keys : \/ table'[key] = table[key]
                        \/ table[key] = None /\ table'[key] = entry
  BY <1>4, <1>7 DEF TypeOK
<1>9. TypeOK'
  <2>1. table' \in [Keys -> Bindings \union {None}]
    BY <1>4, <1>5, <1>7 DEF TypeOK
  <2>2. call' \in Calls
    BY <1>1, <1>2, <1>6 DEF Calls
  <2> QED BY <1>6, <2>1, <2>2 DEF TypeOK
<1>10. Open' /\ Unused'
  <2>1. Open'
    BY <1>1, <1>5, <1>6, <1>8 DEF Open
  <2>2. Unused'
    BY <1>1, <1>5, <1>6, <1>8 DEF Unused
  <2> QED BY <2>1, <2>2
<1>11. Reachable' /\ Numbered' /\ Ordered'
  BY <1>1, <1>6 DEF Reachable, Numbered, Ordered, Unused
<1>12. Calling'
  <2>1. /\ call'.fn = "load" /\ call'.code = call.code
        /\ call'.done = call.done + 1
    BY <1>1, <1>6 DEF Calls
  <2> QED BY <1>1, <1>2, <1>6, <2>1 DEF Calling
<1> QED BY <1>9, <1>10, <1>11, <1>12

LEMMA LoadSucceedsInv == ASSUME IndInv, LoadSucceeds PROVE IndInv'
<1> USE DEF IndInv
<1>1. /\ call' = None /\ next' = next + 1 /\ pc = "load"
      /\ UNCHANGED <<setup, pc, handles, table, freed, building, bound>>
  BY DEF LoadSucceeds, Calling, plugins, attachments
<1>2. TypeOK'
  BY <1>1 DEF TypeOK
<1>3. Open' /\ Unused'
  BY <1>1 DEF Open, Unused
<1>4. Reachable' /\ Numbered' /\ Ordered' /\ Calling'
  BY <1>1 DEF Reachable, Numbered, Ordered, Calling, Ready
<1> QED BY <1>2, <1>3, <1>4

LEMMA LoadFailsInv == ASSUME IndInv, LoadFails PROVE IndInv'
<1>1. /\ call # None /\ call.fn = "load" /\ call' = None
      /\ handles' = [handles EXCEPT ![call.code] = @ - 1]
      /\ Goto("detach") /\ UNCHANGED <<setup, table, freed, attachments>>
  BY DEF LoadFails
<1>2. pc = "load" /\ call.code \in Libraries /\ handles[call.code] > 0
  BY <1>1 DEF IndInv, Calling
<1>3. handles' \in [Code -> Nat]
  BY <1>1, <1>2 DEF IndInv, TypeOK, Code
<1> QED BY <1>1, <1>2, <1>3, GotoInv

-----------------------------------------------------------------------------
(* A function returns or is skipped.                                       *)
LEMMA SucceedInv ==
    ASSUME IndInv, NEW fn, NEW key, NEW user, MayCall(fn, key, user),
           Succeed(fn, key, user), call' = None, UNCHANGED setup
    PROVE  IndInv'
<1> USE DEF IndInv
<1>1. /\ key \in Keys /\ table[key] # None /\ table[key] \in Bindings
      /\ UNCHANGED <<setup, pc, handles, bound>> /\ pc # "load"
  BY DEF MayCall, Succeed, TypeOK
<1>2. CASE fn = "init"
  <2>1. /\ table' = [table EXCEPT ![key].ready = TRUE]
        /\ pc = "attach" /\ ~table[key].ready
        /\ UNCHANGED <<setup, pc, next, handles, building, bound, freed>>
    BY <1>2 DEF Succeed, MayCall
  <2>2. [table[key] EXCEPT !.ready = TRUE] \in Bindings
    BY <1>1 DEF Bindings
  <2>3. [table[key] EXCEPT !.ready = TRUE] # None
    BY <2>2, NoneAssumption
  <2>4. table' \in [Keys -> Bindings \union {None}]
    BY <1>1, <2>1, <2>2 DEF TypeOK
  <2>5. \A k \in Keys : /\ table'[k] # None <=> table[k] # None
                        /\ table[k] # None => table'[k].code = table[k].code
                        /\ table'[k].ready <=> (table[k].ready \/ k = key)
    BY <1>1, <2>1, <2>3 DEF TypeOK, Bindings
  <2>6. TypeOK'
    BY <2>1, <2>4 DEF TypeOK
  <2>7. Open'
    BY <1>1, <2>1, <2>5 DEF Open
  <2>8. Unused' /\ Numbered' /\ Calling'
    BY <2>1 DEF Unused, Numbered, Calling
  <2>9. Reachable' /\ Ordered'
    <3>3. Reachable'
      BY <2>1, <2>5, AttachmentTypes DEF Reachable, Ready
    <3>4. Ordered'
      BY <2>1, <2>5 DEF Ordered, Ready, TypeOK
    <3> QED BY <3>3, <3>4
  <2> QED BY <2>6, <2>7, <2>8, <2>9
<1>3. CASE fn = "attach"
  <2> DEFINE a == [key |-> key, user |-> Fresh]
  <2>1. /\ building' = Append(building, a)
        /\ pc = "attach" /\ table[key].ready /\ next <= Len(setup.bindings)
        /\ UNCHANGED <<setup, pc, next, handles, table, bound, freed>>
    BY <1>3 DEF Succeed, MayCall
  <2>2. Len(bound) \in Nat /\ Len(building) \in Nat
    BY LenProperties DEF TypeOK
  <2>3. a \in Attachment /\ a.key = key /\ a.user = 1 + Len(bound) + Len(building)
    BY <1>1, <2>2 DEF Attachment, Fresh
  <2> HIDE DEF a
  <2>4. /\ building' \in Seq(Attachment) /\ Len(building') = Len(building) + 1
        /\ \A i \in 1..Len(building) : building'[i] = building[i]
        /\ building'[Len(building) + 1] = a
    BY <2>1, <2>3, AppendProperties DEF TypeOK
  <2>5. TypeOK'
    BY <2>1, <2>4 DEF TypeOK
  <2>6. Open' /\ Unused' /\ Calling'
    BY <2>1 DEF Open, Unused, Calling
  <2>7. Reachable'
    BY <1>1, <2>1, <2>2, <2>3, <2>4 DEF Reachable, Ready
  <2>8. Numbered'
    BY <2>1, <2>2, <2>3, <2>4 DEF Numbered
  <2>9. Ordered'
    <3>1. \A k : Ready(k)' <=> Ready(k)
      BY <2>1 DEF Ready
    <3> QED
      BY <2>1, <3>1, SetupTypes DEF Ordered, TypeOK
  <2> QED BY <2>5, <2>6, <2>7, <2>8, <2>9
<1>4. CASE fn = "free"
  <2>1. /\ freed' = freed \union {key} /\ pc = "free" /\ Ready(key)
        /\ UNCHANGED <<setup, pc, next, handles, table, bound, building>>
    BY <1>4 DEF Succeed, MayCall, ToFree, Ready
  <2>2. TypeOK'
    BY <1>1, <2>1 DEF TypeOK
  <2>3. Open' /\ Unused' /\ Numbered' /\ Calling'
    BY <2>1 DEF Open, Unused, Numbered, Calling
  <2>4. Reachable' /\ Ordered'
    BY <2>1 DEF Reachable, Ordered, Ready
  <2> QED BY <2>2, <2>3, <2>4
<1>5. CASE fn \notin {"init", "attach", "free"}
  <2>1. /\ next' \in Nat \ {0} /\ pc \in {"run", "detach"}
        /\ UNCHANGED <<setup, pc, handles, table, bound, building, freed>>
    <3>1. next' = IF fn = "detach" THEN next + 1 ELSE next
      BY DEF Succeed
    <3>2. next' \in Nat \ {0}
      BY <3>1 DEF TypeOK
    <3> QED BY <1>5, <3>2 DEF Succeed, MayCall
  <2>2. TypeOK'
    BY <2>1 DEF TypeOK
  <2>3. Open' /\ Unused' /\ Numbered' /\ Calling'
    BY <2>1 DEF Open, Unused, Numbered, Calling
  <2>4. Reachable' /\ Ordered'
    BY <2>1 DEF Reachable, Ordered, Ready
  <2> QED BY <2>2, <2>3, <2>4
<1> QED BY <1>2, <1>3, <1>4, <1>5

LEMMA ReturnsInv == ASSUME IndInv, Returns PROVE IndInv'
<1>1. MayCall(call.fn, call.key, call.user)
  BY DEF Returns, IndInv, Calling
<1>2. Succeed(call.fn, call.key, call.user) /\ call' = None /\ UNCHANGED setup
  BY DEF Returns
<1> QED BY <1>1, <1>2, SucceedInv

LEMMA ReturnsErrorInv == ASSUME IndInv, ReturnsError PROVE IndInv'
<1>1. Goto("detach") /\ call' = None /\ UNCHANGED <<setup, handles, table, freed, attachments>>
  BY DEF ReturnsError, plugins
<1>2. pc = "attach"
  BY DEF ReturnsError, IndInv, Calling, MayCall
<1>3. handles' \in [Code -> Nat]
  BY <1>1 DEF IndInv, TypeOK
<1> QED BY <1>1, <1>2, <1>3, GotoInv

(* The types of the calls, and that what may be called is there.           *)
LEMMA MayCallTypes ==
    ASSUME IndInv, NEW fn, NEW key, NEW user, MayCall(fn, key, user)
    PROVE  /\ fn \in Functions /\ key \in Keys /\ user \in Nat \union {None}
           /\ table[key] \in Bindings /\ table[key].code \in Code
           /\ handles[table[key].code] > 0
<1>1. fn \in Functions /\ key \in Keys /\ table[key] # None
  BY DEF MayCall, Functions, Optional
<1>2. table[key] \in Bindings /\ table[key].code \in Code
  BY <1>1 DEF IndInv, TypeOK, Bindings
<1>3. pc \in {"load", "attach", "run"} \/ table[key].ready
  BY AttachmentTypes DEF MayCall, IndInv, TypeOK, Reachable, Ready, ToFree
<1>4. handles[table[key].code] > 0
  BY <1>1, <1>3 DEF IndInv, Open
<1>5. user \in Nat \union {None}
  BY AttachmentTypes DEF MayCall, IndInv, TypeOK
<1> QED BY <1>1, <1>2, <1>4, <1>5

LEMMA InvokeInv ==
    ASSUME IndInv, NEW fn, NEW key, NEW user, MayCall(fn, key, user),
           call = None, Invoke(fn, key, user)
    PROVE  IndInv'
<1>1. CASE fn \in table[key].functions \union Needed(key)
  <2> DEFINE c == [fn |-> fn, code |-> table[key].code, key |-> key,
                   user |-> user, done |-> 0]
  <2>1. /\ call' = c
        /\ UNCHANGED <<setup, pc, next, handles, table, freed, building, bound>>
    BY <1>1 DEF Invoke, Enter, plugins, attachments
  <2>2. /\ fn \in Functions /\ key \in Keys /\ user \in Nat \union {None}
        /\ table[key].code \in Code
    BY MayCallTypes
  <2>3. c \in Calls
    BY <2>2 DEF Calls
  <2>4. c.fn = fn /\ c.key = key /\ c.user = user /\ c.code = table[key].code
    OBVIOUS
  <2> HIDE DEF c
  <2>5. TypeOK'
    BY <2>1, <2>3 DEF IndInv, TypeOK
  <2>6. Open' /\ Unused' /\ Reachable' /\ Numbered' /\ Ordered'
    BY <2>1 DEF IndInv, Open, Unused, Reachable, Numbered, Ordered, Ready
  <2>7. MayCall(fn, key, user)'
    BY <2>1 DEF MayCall, ToFree
  <2>8. fn # "load"
    BY <2>2 DEF Functions, Optional
  <2>9. Calling'
    BY <2>1, <2>4, <2>7, <2>8 DEF Calling
  <2> QED BY <2>5, <2>6, <2>9 DEF IndInv
<1>2. CASE fn \notin table[key].functions \union Needed(key)
  <2>1. Succeed(fn, key, user) /\ call' = None /\ UNCHANGED setup
    BY <1>2 DEF Invoke
  <2> QED BY <2>1, SucceedInv
<1> QED BY <1>1, <1>2

-----------------------------------------------------------------------------
(* When main calls a function, it may.                                     *)
LEMMA GetPluginMay ==
    ASSUME IndInv, GetPlugin PROVE MayCall("init", Wanted, None) /\ call = None
BY WantedIsKey DEF IndInv, GetPlugin, Wanting, Adding, MayCall

LEMMA AttachPluginMay ==
    ASSUME IndInv, AttachPlugin PROVE MayCall("attach", Wanted, None) /\ call = None
BY WantedIsKey DEF IndInv, AttachPlugin, Wanting, Adding, MayCall

LEMMA UsePluginMay ==
    ASSUME IndInv, pc = "run", NEW i \in 1..Len(bound), NEW fn \in Uses(bound[i].key)
    PROVE  MayCall(fn, bound[i].key, bound[i].user)
<1>1. fn \in {"getnextevent", "hasnextevent", "emitevent"}
  BY DEF Uses, Needed
<1>2. bound[i].key \in Keys /\ table[bound[i].key] # None
  BY AttachmentTypes DEF IndInv, Reachable, Ready
<1> QED BY <1>1, <1>2 DEF MayCall

LEMMA DetachPluginMay ==
    ASSUME IndInv, DetachPlugin
    PROVE  MayCall("detach", bound[next].key, bound[next].user) /\ call = None
<1>1. next \in 1..Len(bound) /\ pc = "detach" /\ call = None
  BY AttachmentTypes DEF IndInv, DetachPlugin, TypeOK
<1>2. bound[next].key \in Keys /\ table[bound[next].key] # None
  BY <1>1, AttachmentTypes DEF IndInv, Reachable, Ready
<1> QED BY <1>1, <1>2 DEF MayCall

LEMMA FreePluginMay ==
    ASSUME IndInv, FreePlugin, NEW key \in ToFree
    PROVE  MayCall("free", key, None) /\ call = None
BY DEF FreePlugin, ToFree, MayCall

LEMMA KeepBindingInv == ASSUME IndInv, KeepBinding PROVE IndInv'
<1> USE DEF IndInv
<1>1. /\ bound' = bound \o building /\ building' = <<>> /\ next' = next + 1
      /\ pc = "attach" /\ call = None
      /\ UNCHANGED <<setup, pc, handles, table, freed, call>>
  BY DEF KeepBinding, Adding, plugins
<1>2. /\ bound' \in Seq(Attachment) /\ Len(bound') = Len(bound) + Len(building)
      /\ \A i \in 1..(Len(bound) + Len(building)) :
            bound'[i] = IF i <= Len(bound) THEN bound[i] ELSE building[i - Len(bound)]
  BY <1>1, ConcatProperties DEF TypeOK
<1>3. Len(bound) \in Nat /\ Len(building) \in Nat
  BY AttachmentTypes
<1>4. \A i \in 1..Len(bound') :
         \/ i \in 1..Len(bound) /\ bound'[i] = bound[i]
         \/ i - Len(bound) \in 1..Len(building) /\ bound'[i] = building[i - Len(bound)]
  BY <1>2, <1>3
<1>5. TypeOK'
  BY <1>1, <1>2 DEF TypeOK
<1>6. Open' /\ Unused' /\ Calling'
  BY <1>1 DEF Open, Unused, Calling
<1>7. Len(building') = 0
  BY <1>1
<1>8. Reachable'
  BY <1>1, <1>4, <1>7 DEF Reachable, Ready
<1>9. Numbered'
  BY <1>1, <1>2, <1>3, <1>4, <1>7 DEF Numbered
<1>10. Ordered'
  BY <1>1 DEF Ordered, Ready
<1> QED BY <1>5, <1>6, <1>8, <1>9, <1>10

(* The steps that call nothing and only lead main elsewhere.               *)
LEMMA GoesOnInv ==
    ASSUME IndInv,
           \/ OpenFails \/ PluginsLoaded \/ NotRegistered \/ AllAdded
           \/ RunReturns \/ AllDetached \/ AllFreed
    PROVE  IndInv'
<1> DEFINE Rest == call' = None /\ UNCHANGED <<setup, handles, table, freed, attachments>>
<1> USE DEF plugins
<1>0. handles \in [Code -> Nat]
  BY DEF IndInv, TypeOK
<1>1. CASE OpenFails
  <2>1. Goto("detach") /\ pc = "load" /\ Rest
    BY <1>1 DEF OpenFails, Loading
  <2> QED BY <1>0, <2>1, GotoInv
<1>2. CASE PluginsLoaded
  <2>1. Goto("attach") /\ pc = "load" /\ Rest
    BY <1>2 DEF PluginsLoaded
  <2>2. building = <<>>
    BY <2>1 DEF IndInv, Unused
  <2> QED BY <1>0, <2>1, <2>2, GotoInv
<1>3. CASE NotRegistered
  <2>1. Goto("detach") /\ pc = "attach" /\ Rest
    BY <1>3 DEF NotRegistered, Wanting, Adding
  <2> QED BY <1>0, <2>1, GotoInv
<1>4. CASE AllAdded
  <2>1. pc = "attach" /\ Rest
    BY <1>4 DEF AllAdded
  <2>2. CASE Goto("run")
    BY <1>0, <2>1, <2>2, GotoInv
  <2>3. CASE Goto("detach")
    BY <1>0, <2>1, <2>3, GotoInv
  <2> QED BY <1>4, <2>2, <2>3 DEF AllAdded
<1>5. CASE RunReturns
  <2>1. Goto("detach") /\ pc = "run" /\ Rest
    BY <1>5 DEF RunReturns
  <2> QED BY <1>0, <2>1, GotoInv
<1>6. CASE AllDetached
  <2>1. Goto("free") /\ Rest
    BY <1>6 DEF AllDetached
  <2> QED BY <1>0, <2>1, GotoInv
<1>7. CASE AllFreed
  <2>1. Goto("end") /\ Rest
    BY <1>7 DEF AllFreed
  <2> QED BY <1>0, <2>1, GotoInv
<1> QED BY <1>1, <1>2, <1>3, <1>4, <1>5, <1>6, <1>7

LEMMA StutterInv == ASSUME IndInv, UNCHANGED vars PROVE IndInv'
<1>1. UNCHANGED <<setup, pc, next, handles, table, freed, building, bound, call>>
  BY DEF vars, plugins, attachments
<1> QED
  BY <1>1 DEF IndInv, TypeOK, Open, Unused, Reachable, Numbered, Ordered, Calling,
     Ready, MayCall, ToFree

(* A step that uses a plugin uses one of the attachments.                  *)
LEMMA UsePluginInvokes ==
    ASSUME IndInv, UsePlugin
    PROVE  \E i \in 1..Len(bound) : \E fn \in Uses(bound[i].key) :
              Invoke(fn, bound[i].key, bound[i].user)
<1>1. bound \in Seq(Attachment)
  BY DEF IndInv, TypeOK
<1>2. ToSet(bound) = {bound[i] : i \in 1..Len(bound)}
  BY <1>1, LenProperties DEF ToSet
<1> QED BY <1>2 DEF UsePlugin

LEMMA NextInv == ASSUME IndInv, [Next]_vars PROVE IndInv'
<1>1. CASE OpenLibrary
  BY <1>1, OpenLibraryInv
<1>2. CASE Register
  BY <1>2, RegisterInv
<1>3. CASE LoadSucceeds
  BY <1>3, LoadSucceedsInv
<1>4. CASE LoadFails
  BY <1>4, LoadFailsInv
<1>5. CASE Returns
  BY <1>5, ReturnsInv
<1>6. CASE ReturnsError
  BY <1>6, ReturnsErrorInv
<1>7. CASE GetPlugin
  <2>1. Invoke("init", Wanted, None)
    BY <1>7 DEF GetPlugin
  <2> QED BY <1>7, <2>1, GetPluginMay, InvokeInv
<1>8. CASE AttachPlugin
  <2>1. Invoke("attach", Wanted, None)
    BY <1>8 DEF AttachPlugin
  <2> QED BY <1>8, <2>1, AttachPluginMay, InvokeInv
<1>9. CASE KeepBinding
  BY <1>9, KeepBindingInv
<1>10. CASE UsePlugin
  <2>1. PICK i \in 1..Len(bound) : \E fn \in Uses(bound[i].key) :
            Invoke(fn, bound[i].key, bound[i].user)
    BY <1>10, UsePluginInvokes
  <2>2. PICK fn \in Uses(bound[i].key) : Invoke(fn, bound[i].key, bound[i].user)
    BY <2>1
  <2>3. pc = "run" /\ call = None
    BY <1>10 DEF UsePlugin
  <2>4. MayCall(fn, bound[i].key, bound[i].user)
    BY <2>3, UsePluginMay
  <2> QED BY <2>2, <2>3, <2>4, InvokeInv
<1>11. CASE DetachPlugin
  <2>1. Invoke("detach", bound[next].key, bound[next].user)
    BY <1>11 DEF DetachPlugin
  <2> QED BY <1>11, <2>1, DetachPluginMay, InvokeInv
<1>12. CASE FreePlugin
  <2>1. PICK key \in ToFree : Invoke("free", key, None)
    BY <1>12 DEF FreePlugin
  <2> QED BY <1>12, <2>1, FreePluginMay, InvokeInv
<1>13. CASE \/ OpenFails \/ PluginsLoaded \/ NotRegistered \/ AllAdded
            \/ RunReturns \/ AllDetached \/ AllFreed
  BY <1>13, GoesOnInv
<1>14. CASE UNCHANGED vars
  BY <1>14, StutterInv
<1> QED
  BY <1>1, <1>2, <1>3, <1>4, <1>5, <1>6, <1>7, <1>8, <1>9, <1>10, <1>11, <1>12,
     <1>13, <1>14
  DEF Next

LEMMA Invariance == Spec => []IndInv
<1>1. Init => IndInv
  BY InitInv
<1>2. IndInv /\ [Next]_vars => IndInv'
  BY NextInv
<1> QED BY <1>1, <1>2, PTL DEF Spec

(* Every variable keeps its type; in particular no library is closed more  *)
(* often than it was opened.                                               *)
THEOREM TypeCorrect == Spec => []TypeOK
<1>1. IndInv => TypeOK
  BY DEF IndInv
<1> QED BY <1>1, Invariance, PTL

(* No function is called whose library is not open, whatever the libraries *)
(* register and in whichever order, and wherever the setup fails.          *)
THEOREM CalledCodeIsLoaded == Spec => []CallsLoadedCode
<1>1. ASSUME IndInv PROVE CallsLoadedCode
  <2> SUFFICES ASSUME call # None PROVE handles[call.code] > 0
    BY DEF CallsLoadedCode
  <2>1. CASE call.fn = "load"
    BY <1>1, <2>1 DEF IndInv, Calling
  <2>2. CASE call.fn # "load"
    <3>1. MayCall(call.fn, call.key, call.user) /\ call.code = table[call.key].code
      BY <1>1, <2>2 DEF IndInv, Calling
    <3> QED BY <1>1, <3>1, MayCallTypes
  <2> QED BY <2>1, <2>2
<1> QED BY <1>1, Invariance, PTL

-----------------------------------------------------------------------------
(* The refinement.                                                         *)

LEMMA UsersOf ==
    /\ \A p \in Keys : \A u : u \in Users[p] <=> \E a \in Attached : a.key = p /\ a.user = u
    /\ Users = [p \in Keys |-> Users[p]]
    /\ \A p \in Keys : \A u : u \in Users'[p] <=> \E a \in Attached' : a.key = p /\ a.user = u
    /\ Users' = [p \in Keys |-> Users'[p]]
BY DEF Users

LEMMA SetOfSeq ==
    ASSUME NEW s \in Seq(Attachment) PROVE ToSet(s) = {s[i] : i \in 1..Len(s)}
BY LenProperties DEF ToSet

LEMMA AttachedWhile ==
    ASSUME TypeOK
    PROVE  /\ pc = "attach" => Attached = {bound[i] : i \in 1..Len(bound)} \union
                                          {building[i] : i \in 1..Len(building)}
           /\ pc = "run" => Attached = {bound[i] : i \in 1..Len(bound)}
           /\ pc = "detach" => Attached = {bound[i] : i \in next..Len(bound)}
           /\ pc \in {"load", "free", "end"} => Attached = {}
<1>1. /\ ToSet(bound) = {bound[i] : i \in 1..Len(bound)}
      /\ ToSet(building) = {building[i] : i \in 1..Len(building)}
  BY SetOfSeq DEF TypeOK
<1> QED BY <1>1 DEF Attached

LEMMA AttachedWhilePrimed ==
    ASSUME TypeOK'
    PROVE  /\ pc' = "attach" => Attached' = {bound'[i] : i \in 1..Len(bound')} \union
                                            {building'[i] : i \in 1..Len(building')}
           /\ pc' = "run" => Attached' = {bound'[i] : i \in 1..Len(bound')}
           /\ pc' = "detach" => Attached' = {bound'[i] : i \in next'..Len(bound')}
           /\ pc' \in {"load", "free", "end"} => Attached' = {}
<1>1. /\ ToSet(bound') = {bound'[i] : i \in 1..Len(bound')}
      /\ ToSet(building') = {building'[i] : i \in 1..Len(building')}
  BY SetOfSeq DEF TypeOK
<1> QED BY <1>1 DEF Attached

LEMMA VisibleCall ==
    ASSUME IndInv, call # None, call.fn # "load"
    PROVE  Visible # None /\ Visible = PluginCall(call.fn, call.key, call.user)
<1>1. MayCall(call.fn, call.key, call.user)
  BY DEF IndInv, Calling
<1>2. PluginCall(call.fn, call.key, call.user) \in PluginCalls
  BY <1>1, MayCallTypes DEF PluginCall, PluginCalls
<1>3. PluginCall(call.fn, call.key, call.user) # None
  BY <1>2, NoneAssumption
<1> QED BY <1>3 DEF Visible

(* What main may call, the plugin expects.                                 *)
LEMMA MayCallIsAllowed ==
    ASSUME IndInv, NEW fn, NEW key, NEW user, MayCall(fn, key, user)
    PROVE  /\ fn \in Lifecycle!Functions /\ key \in Keys
           /\ user \in Users[key] \union {None}
           /\ Lifecycle!Allowed(fn, key, user)
<1>1. fn \in Lifecycle!Functions
  BY DEF MayCall, Lifecycle!Functions, Lifecycle!Use
<1>2. key \in Keys /\ table[key] # None
  BY DEF MayCall
<1>3. Phases[key] = Phase(key)
  BY <1>2 DEF Phases
<1>4. CASE fn = "init"
  <2>1. pc = "attach" /\ ~table[key].ready /\ user = None /\ freed = {}
    BY <1>4 DEF MayCall, IndInv, Ordered
  <2>2. Stage = "setup" /\ Phases[key] = "new"
    BY <1>3, <2>1 DEF Stage, Phase
  <2> QED BY <1>1, <1>2, <1>4, <2>1, <2>2 DEF Lifecycle!Allowed
<1>5. CASE fn = "attach"
  <2>1. pc = "attach" /\ table[key].ready /\ user = None /\ freed = {}
    BY <1>5 DEF MayCall, IndInv, Ordered
  <2>2. Stage = "setup" /\ Phases[key] = "ready"
    BY <1>2, <1>3, <2>1 DEF Stage, Phase
  <2> QED BY <1>1, <1>2, <1>5, <2>1, <2>2 DEF Lifecycle!Allowed
<1>6. CASE fn \in {"getnextevent", "hasnextevent", "emitevent"}
  <2>1. pc = "run" /\ freed = {}
    BY <1>6 DEF MayCall, IndInv, Ordered
  <2>2. PICK i \in 1..Len(bound) : bound[i].key = key /\ bound[i].user = user
    BY <1>6 DEF MayCall
  <2>3. Attached = {bound[j] : j \in 1..Len(bound)}
    BY <2>1, AttachedWhile DEF IndInv
  <2>4. user \in Users[key]
    BY <1>2, <2>2, <2>3, UsersOf
  <2>5. Ready(key)
    BY <2>2 DEF IndInv, Reachable
  <2>6. Stage = "running" /\ Phases[key] = "ready"
    BY <1>3, <2>1, <2>5 DEF Stage, Phase, Ready
  <2> QED BY <1>1, <1>2, <1>6, <2>4, <2>6 DEF Lifecycle!Allowed, Lifecycle!Use
<1>7. CASE fn = "detach"
  <2>1. /\ pc = "detach" /\ freed = {} /\ next \in 1..Len(bound)
        /\ bound[next].key = key /\ bound[next].user = user
    BY <1>7, AttachmentTypes DEF MayCall, IndInv, Ordered, TypeOK
  <2>2. Attached = {bound[j] : j \in next..Len(bound)} /\ next \in next..Len(bound)
    BY <2>1, AttachedWhile, AttachmentTypes DEF IndInv
  <2>3. user \in Users[key]
    BY <1>2, <2>1, <2>2, UsersOf
  <2>4. Ready(key)
    BY <2>1 DEF IndInv, Reachable
  <2>5. Stage = "down" /\ Phases[key] = "ready"
    BY <1>3, <2>1, <2>4 DEF Stage, Phase, Ready
  <2> QED BY <1>1, <1>2, <1>7, <2>3, <2>5 DEF Lifecycle!Allowed
<1>8. CASE fn = "free"
  <2>1. pc = "free" /\ user = None /\ Ready(key) /\ key \notin freed
    BY <1>8 DEF MayCall, ToFree, Ready
  <2>2. Attached = {}
    BY <2>1, AttachedWhile DEF IndInv
  <2>3. Users[key] = {}
    BY <1>2, <2>2, UsersOf
  <2>4. Stage = "down" /\ Phases[key] = "ready"
    BY <1>3, <2>1 DEF Stage, Phase, Ready
  <2> QED BY <1>1, <1>2, <1>8, <2>1, <2>3, <2>4 DEF Lifecycle!Allowed
<1> QED BY <1>4, <1>5, <1>6, <1>7, <1>8 DEF MayCall

(* A function that returned or was skipped has the effect it promises.     *)
LEMMA SucceedIsSuccess ==
    ASSUME IndInv, IndInv', NEW fn, NEW key, NEW user, MayCall(fn, key, user),
           Succeed(fn, key, user), UNCHANGED setup
    PROVE  Lifecycle!Succeed(fn, key, user)
<1>1. /\ key \in Keys /\ table[key] # None /\ table[key] \in Bindings
      /\ UNCHANGED <<setup, pc, handles, bound>>
  BY DEF MayCall, Succeed, IndInv, TypeOK
<1>2. Stage' = Stage
  BY <1>1 DEF Stage
<1>3. CASE fn = "init"
  <2>1. /\ table' = [table EXCEPT ![key].ready = TRUE]
        /\ pc = "attach" /\ freed = {}
        /\ UNCHANGED <<next, building, freed>>
    BY <1>3 DEF Succeed, MayCall, IndInv, Ordered
  <2>2. Users' = Users
    BY <1>1, <2>1 DEF Users, Attached
  <2>3. [table[key] EXCEPT !.ready = TRUE] \in Bindings
    BY <1>1 DEF Bindings
  <2>4. [table[key] EXCEPT !.ready = TRUE] # None
    BY <2>3, NoneAssumption
  <2>5. \A k \in Keys : Ready(k)' <=> (Ready(k) \/ k = key)
    BY <1>1, <2>1, <2>4 DEF IndInv, TypeOK, Bindings, Ready
  <2>6. \A k \in Keys : Phase(k)' = IF k = key THEN "ready" ELSE Phase(k)
    BY <2>1, <2>5 DEF Phase, Ready
  <2>7. Phases' = [Phases EXCEPT ![key] = "ready"]
    BY <2>6 DEF Phases
  <2> QED BY <1>2, <1>3, <2>2, <2>7 DEF Lifecycle!Succeed
<1>4. CASE fn = "attach"
  <2> DEFINE a == [key |-> key, user |-> Fresh]
  <2>1. /\ building' = Append(building, a) /\ pc = "attach"
        /\ UNCHANGED <<next, table, freed>>
    BY <1>4 DEF Succeed, MayCall
  <2>2. Len(bound) \in Nat /\ Len(building) \in Nat
    BY AttachmentTypes DEF IndInv
  <2>3. a \in Attachment /\ a.key = key /\ a.user = Fresh
        /\ Fresh = 1 + Len(bound) + Len(building)
    BY <1>1, <2>2 DEF Attachment, Fresh
  <2> HIDE DEF a
  <2>4. /\ Len(building') = Len(building) + 1
        /\ \A i \in 1..Len(building) : building'[i] = building[i]
        /\ building'[Len(building) + 1] = a
    BY <2>1, <2>3, AppendProperties DEF IndInv, TypeOK
  <2>5. {building'[i] : i \in 1..Len(building')} =
           {building[i] : i \in 1..Len(building)} \union {a}
    BY <2>2, <2>4
  <2>6. Attached' = Attached \union {a}
    <3>1. Attached = {bound[i] : i \in 1..Len(bound)} \union
                     {building[i] : i \in 1..Len(building)}
      BY <2>1, AttachedWhile DEF IndInv
    <3>2. Attached' = {bound'[i] : i \in 1..Len(bound')} \union
                      {building'[i] : i \in 1..Len(building')}
      BY <1>1, <2>1, AttachedWhilePrimed DEF IndInv
    <3> QED BY <1>1, <2>5, <3>1, <3>2
  <2>7. \A p \in Keys : Users'[p] = IF p = key THEN Users[p] \union {Fresh} ELSE Users[p]
    BY <2>3, <2>6 DEF Users
  <2>8. Users' = [Users EXCEPT ![key] = @ \union {Fresh}]
    BY <2>7 DEF Users
  <2>9. Fresh \notin Users[key]
    <3> SUFFICES ASSUME NEW b \in Attached, b.user = Fresh PROVE FALSE
      BY <1>1, UsersOf
    <3>1. \/ \E i \in 1..Len(bound) : b = bound[i]
          \/ \E i \in 1..Len(building) : b = building[i]
      BY <2>1, AttachedWhile DEF IndInv
    <3>2. \/ \E i \in 1..Len(bound) : b.user = i
          \/ \E i \in 1..Len(building) : b.user = Len(bound) + i
      BY <3>1 DEF IndInv, Numbered
    <3> QED BY <2>2, <2>3, <3>2
  <2>10. Phases' = Phases
    BY <2>1 DEF Phases, Phase
  <2>11. Fresh \in Users'[key] \ Users[key]
    BY <1>1, <2>7, <2>9
  <2>12. \E new \in Users'[key] \ Users[key] : Users' = [Users EXCEPT ![key] = @ \union {new}]
    BY <2>8, <2>11
  <2> QED BY <1>2, <1>4, <2>10, <2>12 DEF Lifecycle!Succeed
<1>5. CASE fn \in {"getnextevent", "hasnextevent", "emitevent"}
  <2>1. UNCHANGED <<next, table, freed, building>>
    BY <1>5 DEF Succeed
  <2>2. Phases' = Phases /\ Users' = Users
    BY <1>1, <2>1 DEF Phases, Phase, Users, Attached
  <2> QED BY <1>2, <1>5, <2>2 DEF Lifecycle!Succeed
<1>6. CASE fn = "detach"
  <2>1. /\ pc = "detach" /\ next \in 1..Len(bound) /\ next' = next + 1
        /\ bound[next].key = key /\ bound[next].user = user
        /\ UNCHANGED <<table, freed, building>>
    BY <1>6, AttachmentTypes DEF Succeed, MayCall, IndInv, TypeOK
  <2>2. Phases' = Phases
    BY <2>1 DEF Phases, Phase
  <2>3. /\ Attached = {bound[i] : i \in next..Len(bound)}
        /\ Attached' = {bound[i] : i \in (next + 1)..Len(bound)}
    BY <1>1, <2>1, AttachedWhile, AttachedWhilePrimed DEF IndInv
  <2>4. \A i \in 1..Len(bound) : bound[i].user = i
    BY DEF IndInv, Numbered
  <2>5. next..Len(bound) = {next} \union ((next + 1)..Len(bound))
    BY <2>1, AttachmentTypes DEF IndInv
  <2>6. Attached = {bound[next]} \union Attached'
    BY <2>3, <2>5
  <2>7. \A b \in Attached' : b.user # user
    <3> SUFFICES ASSUME NEW i \in (next + 1)..Len(bound) PROVE bound[i].user # user
      BY <2>3
    <3> QED BY <2>1, <2>4, AttachmentTypes DEF IndInv
  <2>8. \A p \in Keys : Users'[p] = IF p = key THEN Users[p] \ {user} ELSE Users[p]
    <3> SUFFICES ASSUME NEW p \in Keys
                 PROVE  Users'[p] = IF p = key THEN Users[p] \ {user} ELSE Users[p]
      OBVIOUS
    <3>1. \A u : u \in Users'[p] <=> \E b \in Attached' : b.key = p /\ b.user = u
      BY UsersOf
    <3>2. \A u : u \in Users[p] <=> \E b \in Attached : b.key = p /\ b.user = u
      BY UsersOf
    <3>3. \A u : u \in Users[p] <=> u \in Users'[p] \/ (p = key /\ u = user)
      BY <2>1, <2>6, <3>1, <3>2
    <3>4. user \notin Users'[p]
      BY <2>7, <3>1
    <3>5. CASE p = key
      BY <3>3, <3>4, <3>5
    <3>6. CASE p # key
      BY <3>3, <3>6
    <3> QED BY <3>5, <3>6
  <2>9. Users' = [Users EXCEPT ![key] = @ \ {user}]
    BY <2>8 DEF Users
  <2> QED BY <1>2, <1>6, <2>2, <2>9 DEF Lifecycle!Succeed
<1>7. CASE fn = "free"
  <2>1. /\ freed' = freed \union {key} /\ pc = "free"
        /\ UNCHANGED <<next, table, building>>
    BY <1>7 DEF Succeed, MayCall
  <2>2. Users' = Users
    BY <1>1, <2>1 DEF Users, Attached
  <2>3. \A k \in Keys : Phase(k)' = IF k = key THEN "freed" ELSE Phase(k)
    BY <2>1 DEF Phase
  <2>4. Phases' = [Phases EXCEPT ![key] = "freed"]
    BY <2>3 DEF Phases
  <2> QED BY <1>2, <1>7, <2>2, <2>4 DEF Lifecycle!Succeed
<1> QED BY <1>3, <1>4, <1>5, <1>6, <1>7 DEF MayCall

LEMMA InitIsInit == Init => Lifecycle!Init
<1> SUFFICES ASSUME Init PROVE Lifecycle!Init
  OBVIOUS
<1>1. IndInv
  BY InitInv
<1>2. pc = "load" /\ freed = {} /\ call = None
  BY DEF Init
<1>3. \A key \in Keys : Phase(key) = "new"
  BY <1>1, <1>2 DEF Phase, IndInv, Unused
<1>4. Attached = {}
  BY <1>1, <1>2, AttachedWhile DEF IndInv
<1>5. Phases = [p \in Keys |-> "new"]
  BY <1>3 DEF Phases
<1>6. Users = [p \in Keys |-> {}]
  BY <1>4 DEF Users
<1>7. Stage = "setup" /\ Visible = None
  BY <1>2 DEF Stage, Visible
<1> QED BY <1>5, <1>6, <1>7 DEF Lifecycle!Init

(* A function that main calls is called, or skipped and has succeeded.     *)
LEMMA InvokeIsCall ==
    ASSUME IndInv, IndInv', NEW fn, NEW key, NEW user, MayCall(fn, key, user),
           call = None, Invoke(fn, key, user)
    PROVE  Lifecycle!Next
<1>1. /\ fn \in Lifecycle!Functions /\ key \in Keys /\ user \in Users[key] \union {None}
      /\ Lifecycle!Allowed(fn, key, user)
  BY MayCallIsAllowed
<1>2. Visible = None
  BY DEF Visible
<1>3. CASE fn \in table[key].functions \union Needed(key)
  <2>1. /\ call' = [fn |-> fn, code |-> table[key].code, key |-> key, user |-> user,
                    done |-> 0]
        /\ UNCHANGED <<setup, pc, next, handles, table, freed, building, bound>>
    BY <1>3 DEF Invoke, Enter, plugins, attachments
  <2>2. call' \in Calls /\ fn # "load"
    BY <2>1, MayCallTypes DEF Calls, Functions, Optional
  <2>3. call' # None
    BY <2>2, NoneAssumption
  <2>4. Visible' = [fn |-> fn, plugin |-> key, user |-> user]
    BY <2>1, <2>2, <2>3 DEF Visible, PluginCall
  <2>5. Stage' = Stage /\ Phases' = Phases /\ Users' = Users
    BY <2>1 DEF Stage, Phases, Phase, Users, Attached
  <2>6. Lifecycle!Begin(fn, key, user)
    BY <1>1, <1>2, <2>4, <2>5 DEF Lifecycle!Begin
  <2> QED BY <1>1, <2>6 DEF Lifecycle!Next
<1>4. CASE fn \notin table[key].functions \union Needed(key)
  <2>1. Succeed(fn, key, user) /\ call' = None /\ UNCHANGED setup
    BY <1>4 DEF Invoke
  <2>2. Lifecycle!Succeed(fn, key, user)
    BY <2>1, SucceedIsSuccess
  <2>3. Visible' = None
    BY <2>1 DEF Visible
  <2>4. Lifecycle!Skip(fn, key, user)
    BY <1>1, <1>2, <2>2, <2>3 DEF Lifecycle!Skip
  <2> QED BY <1>1, <2>4 DEF Lifecycle!Next
<1> QED BY <1>3, <1>4

LEMMA ReturnsIsEnd == ASSUME IndInv, IndInv', Returns PROVE Lifecycle!Next
<1>1. /\ call # None /\ call.fn # "load" /\ call' = None /\ UNCHANGED setup
      /\ Succeed(call.fn, call.key, call.user)
  BY DEF Returns
<1>2. MayCall(call.fn, call.key, call.user)
  BY <1>1 DEF IndInv, Calling
<1>3. Lifecycle!Succeed(call.fn, call.key, call.user)
  BY <1>1, <1>2, SucceedIsSuccess
<1>4. Visible # None /\ Visible = PluginCall(call.fn, call.key, call.user)
  BY <1>1, VisibleCall
<1>5. /\ Visible.fn = call.fn /\ Visible.plugin = call.key /\ Visible.user = call.user
      /\ Visible' = None
  BY <1>1, <1>4 DEF PluginCall, Visible
<1>6. Lifecycle!End
  BY <1>3, <1>4, <1>5 DEF Lifecycle!End
<1> QED BY <1>6 DEF Lifecycle!Next

(* Main gives up while it sets up: only attachments are forgotten.         *)
LEMMA GotoIsFail ==
    ASSUME IndInv, IndInv', pc \in {"load", "attach"}, Goto("detach"),
           UNCHANGED <<table, freed, bound>>
    PROVE  Lifecycle!Fail
<1>1. pc' = "detach" /\ next' = 1
  BY DEF Goto
<1>2. Stage = "setup" /\ Stage' = "down"
  BY <1>1 DEF Stage
<1>3. Phases' = Phases
  BY DEF Phases, Phase
<1>4. Attached' \subseteq Attached
  <2>1. Attached' = {bound[i] : i \in 1..Len(bound)}
    BY <1>1, AttachedWhilePrimed DEF IndInv
  <2>2. CASE pc = "attach"
    BY <2>1, <2>2, AttachedWhile DEF IndInv
  <2>3. CASE pc = "load"
    <3>1. bound = <<>>
      BY <2>3 DEF IndInv, Unused
    <3>2. Attached' = {}
      BY <2>1, <3>1
    <3> QED BY <3>2
  <2> QED BY <2>2, <2>3
<1>5. \A p \in Keys : Users'[p] \subseteq Users[p]
  BY <1>4, UsersOf
<1> QED BY <1>2, <1>3, <1>5 DEF Lifecycle!Fail

LEMMA ReturnsErrorIsEnd == ASSUME IndInv, IndInv', ReturnsError PROVE Lifecycle!Next
<1>1. /\ call # None /\ call.fn \in {"init", "attach"} /\ call' = None
      /\ Goto("detach") /\ UNCHANGED <<table, freed, bound>>
  BY DEF ReturnsError, plugins, attachments
<1>2. pc = "attach"
  BY <1>1 DEF IndInv, Calling, MayCall
<1>3. Lifecycle!Fail
  BY <1>1, <1>2, GotoIsFail
<1>4. Visible # None /\ Visible.fn = call.fn /\ Visible' = None
  BY <1>1, VisibleCall DEF PluginCall, Visible
<1>5. Lifecycle!End
  BY <1>1, <1>3, <1>4 DEF Lifecycle!End
<1> QED BY <1>5 DEF Lifecycle!Next

LEMMA GivesUp ==
    ASSUME IndInv, IndInv',
           \/ OpenFails \/ LoadFails \/ NotRegistered
           \/ AllAdded /\ pc' = "detach"
    PROVE  Lifecycle!Next
<1>1. /\ pc \in {"load", "attach"} /\ Goto("detach") /\ call' = None
      /\ call = None \/ call.fn = "load"
      /\ UNCHANGED <<table, freed, bound>>
  BY DEF OpenFails, LoadFails, NotRegistered, AllAdded, Loading, Wanting, Adding, Goto,
     plugins, attachments, IndInv, Calling
<1>2. Lifecycle!Fail
  BY <1>1, GotoIsFail
<1>3. Visible = None /\ Visible' = None
  BY <1>1 DEF Visible
<1>4. Lifecycle!GiveUp
  BY <1>2, <1>3 DEF Lifecycle!GiveUp
<1> QED BY <1>4 DEF Lifecycle!Next

LEMMA RunsAndStops ==
    ASSUME IndInv, IndInv', RunReturns \/ (AllAdded /\ pc' = "run")
    PROVE  Lifecycle!Next
<1>1. /\ call = None /\ call' = None /\ UNCHANGED <<table, freed, bound, building>>
      /\ next' = 1
      /\ \/ pc = "run" /\ pc' = "detach"
         \/ pc = "attach" /\ pc' = "run" /\ next > Len(setup.bindings)
  BY DEF RunReturns, AllAdded, Goto, plugins, attachments
<1>2. Visible = None /\ Visible' = None /\ Phases' = Phases
  BY <1>1 DEF Visible, Phases, Phase
<1>3. Attached' = {bound[i] : i \in 1..Len(bound)}
  BY <1>1, AttachedWhilePrimed DEF IndInv
<1>4. CASE pc = "run" /\ pc' = "detach"
  <2>1. Attached' = Attached
    BY <1>3, <1>4, AttachedWhile DEF IndInv
  <2>2. Users' = Users
    BY <2>1 DEF Users
  <2>3. Stage = "running" /\ Stage' = "down"
    BY <1>4 DEF Stage
  <2>4. Lifecycle!Stop
    BY <1>2, <2>2, <2>3 DEF Lifecycle!Stop
  <2> QED BY <2>4 DEF Lifecycle!Next
<1>5. CASE pc = "attach" /\ pc' = "run" /\ next > Len(setup.bindings)
  <2>1. building = <<>> /\ Len(building) = 0
    BY <1>5 DEF IndInv, Ordered
  <2>2. Attached' = Attached
    BY <1>3, <1>5, <2>1, AttachedWhile DEF IndInv
  <2>3. Users' = Users
    BY <2>2 DEF Users
  <2>4. Stage = "setup" /\ Stage' = "running"
    BY <1>5 DEF Stage
  <2>5. Lifecycle!Run
    BY <1>2, <2>3, <2>4 DEF Lifecycle!Run
  <2> QED BY <2>5 DEF Lifecycle!Next
<1> QED BY <1>1, <1>4, <1>5

(* The steps that no plugin sees.                                          *)
LEMMA Unseen ==
    ASSUME IndInv, IndInv',
           \/ OpenLibrary \/ Register \/ LoadSucceeds \/ PluginsLoaded
           \/ KeepBinding \/ AllDetached \/ AllFreed \/ UNCHANGED vars
    PROVE  UNCHANGED <<Stage, Phases, Users, Visible>>
<1>1. CASE OpenLibrary \/ Register \/ LoadSucceeds \/ PluginsLoaded
  <2>1. /\ pc = "load" /\ pc' \in {"load", "attach"} /\ UNCHANGED <<bound, building>>
        /\ call = None \/ call.fn = "load"
    BY <1>1 DEF OpenLibrary, Register, LoadSucceeds, PluginsLoaded, Loading, Goto,
       attachments, IndInv, Calling
  <2>2. bound' = <<>> /\ building' = <<>> /\ freed = {} /\ freed' = {}
    BY <2>1 DEF IndInv, Unused, Ordered
  <2>3. call' = None \/ call'.fn = "load"
    <3>1. CASE OpenLibrary
      BY <3>1 DEF OpenLibrary, Enter
    <3>2. CASE Register
      <4>1. call' = [call EXCEPT !.done = @ + 1] /\ call \in Calls /\ call.fn = "load"
        BY <3>2 DEF Register, IndInv, TypeOK
      <4> QED BY <4>1 DEF Calls
    <3>3. CASE LoadSucceeds \/ PluginsLoaded
      BY <2>1, <3>3 DEF LoadSucceeds, PluginsLoaded
    <3> QED BY <1>1, <3>1, <3>2, <3>3
  <2>4. Attached = {} /\ Attached' = {}
    <3>1. Attached = {}
      BY <2>1, AttachedWhile DEF IndInv
    <3>2. Len(bound') = 0 /\ Len(building') = 0
      BY <2>2
    <3>3. Attached' = {}
      BY <2>1, <3>2, AttachedWhilePrimed DEF IndInv
    <3> QED BY <3>1, <3>3
  <2>5. \A key \in Keys : ~Ready(key)
    BY <2>1 DEF IndInv, Unused, Ready
  <2>6. \A key \in Keys : ~Ready(key)'
    <3>1. CASE pc' = "load"
      BY <3>1 DEF IndInv, Unused, Ready
    <3>2. CASE pc' = "attach"
      <4>1. PluginsLoaded
        BY <1>1, <2>1, <3>2 DEF OpenLibrary, Register, LoadSucceeds
      <4>2. UNCHANGED table
        BY <4>1 DEF PluginsLoaded, plugins
      <4> QED BY <2>5, <4>2 DEF Ready
    <3> QED BY <2>1, <3>1, <3>2
  <2>7. \A key \in Keys : Phase(key)' = Phase(key)
    BY <2>2, <2>5, <2>6 DEF Phase, Ready
  <2>8. Phases' = Phases
    BY <2>7 DEF Phases
  <2>9. Users' = Users
    BY <2>4 DEF Users
  <2>10. Stage' = Stage /\ Visible' = Visible
    BY <2>1, <2>3 DEF Stage, Visible
  <2> QED BY <2>8, <2>9, <2>10
<1>2. CASE KeepBinding
  <2>1. /\ pc = "attach" /\ bound' = bound \o building /\ building' = <<>>
        /\ UNCHANGED <<pc, table, freed, call>>
    BY <1>2 DEF KeepBinding, Adding, plugins
  <2>2. /\ Len(bound') = Len(bound) + Len(building)
        /\ \A i \in 1..(Len(bound) + Len(building)) :
              bound'[i] = IF i <= Len(bound) THEN bound[i] ELSE building[i - Len(bound)]
    BY <2>1, ConcatProperties DEF IndInv, TypeOK
  <2>3. Len(bound) \in Nat /\ Len(building) \in Nat /\ Len(building') = 0
    BY <2>1, AttachmentTypes DEF IndInv
  <2>4. \A i \in 1..Len(bound) : i \in 1..Len(bound') /\ bound'[i] = bound[i]
    BY <2>2, <2>3
  <2>5. \A i \in 1..Len(building) :
           Len(bound) + i \in 1..Len(bound') /\ bound'[Len(bound) + i] = building[i]
    BY <2>2, <2>3
  <2>6. \A i \in 1..Len(bound') :
           \/ i \in 1..Len(bound) /\ bound'[i] = bound[i]
           \/ i - Len(bound) \in 1..Len(building) /\ bound'[i] = building[i - Len(bound)]
    BY <2>2, <2>3
  <2>7. Attached = {bound[i] : i \in 1..Len(bound)} \union
                   {building[i] : i \in 1..Len(building)}
    BY <2>1, AttachedWhile DEF IndInv
  <2>8. Attached' = {bound'[i] : i \in 1..Len(bound')}
    BY <2>1, <2>3, AttachedWhilePrimed DEF IndInv
  <2>9. Attached' = Attached
    <3>1. \A x : x \in Attached => x \in Attached'
      BY <2>4, <2>5, <2>7, <2>8
    <3>2. \A x : x \in Attached' => x \in Attached
      BY <2>6, <2>7, <2>8
    <3> QED BY <3>1, <3>2
  <2>10. Users' = Users
    BY <2>9 DEF Users
  <2> QED BY <2>1, <2>10 DEF Stage, Phases, Phase, Visible
<1>3. CASE AllDetached \/ AllFreed
  <2>1. /\ call = None /\ call' = None /\ UNCHANGED <<table, freed, bound, building>>
        /\ pc \in {"detach", "free"} /\ pc' \in {"free", "end"}
        /\ pc = "detach" => next > Len(bound)
    BY <1>3 DEF AllDetached, AllFreed, Goto, plugins, attachments
  <2>2. Attached' = {}
    BY <2>1, AttachedWhilePrimed DEF IndInv
  <2>3. Attached = {}
    <3>1. CASE pc = "detach"
      <4>1. next..Len(bound) = {}
        BY <2>1, <3>1, AttachmentTypes DEF IndInv, TypeOK
      <4> QED BY <3>1, <4>1, AttachedWhile DEF IndInv
    <3>2. CASE pc = "free"
      BY <3>2, AttachedWhile DEF IndInv
    <3> QED BY <2>1, <3>1, <3>2
  <2>4. Users' = Users
    BY <2>2, <2>3 DEF Users
  <2> QED BY <2>1, <2>4 DEF Stage, Phases, Phase, Visible
<1>4. CASE UNCHANGED vars
  <2>1. UNCHANGED <<pc, next, table, freed, building, bound, call>>
    BY <1>4 DEF vars, plugins, attachments
  <2> QED BY <2>1 DEF Stage, Phases, Phase, Users, Attached, Visible
<1> QED BY <1>1, <1>2, <1>3, <1>4

LEMMA LifecycleStep ==
    ASSUME IndInv, IndInv', [Next]_vars PROVE [Lifecycle!Next]_Lifecycle!vars
<1>1. CASE \/ OpenLibrary \/ Register \/ LoadSucceeds \/ PluginsLoaded
           \/ KeepBinding \/ AllDetached \/ AllFreed \/ UNCHANGED vars
  BY <1>1, Unseen DEF Lifecycle!vars
<1>2. CASE OpenFails \/ LoadFails \/ NotRegistered
  BY <1>2, GivesUp
<1>3. CASE AllAdded
  <2>1. pc' = "run" \/ pc' = "detach"
    BY <1>3 DEF AllAdded, Goto
  <2> QED BY <1>3, <2>1, GivesUp, RunsAndStops
<1>4. CASE RunReturns
  BY <1>4, RunsAndStops
<1>5. CASE Returns
  BY <1>5, ReturnsIsEnd
<1>6. CASE ReturnsError
  BY <1>6, ReturnsErrorIsEnd
<1>7. CASE GetPlugin
  <2>1. Invoke("init", Wanted, None)
    BY <1>7 DEF GetPlugin
  <2> QED BY <1>7, <2>1, GetPluginMay, InvokeIsCall
<1>8. CASE AttachPlugin
  <2>1. Invoke("attach", Wanted, None)
    BY <1>8 DEF AttachPlugin
  <2> QED BY <1>8, <2>1, AttachPluginMay, InvokeIsCall
<1>9. CASE UsePlugin
  <2>1. PICK i \in 1..Len(bound) : \E fn \in Uses(bound[i].key) :
            Invoke(fn, bound[i].key, bound[i].user)
    BY <1>9, UsePluginInvokes
  <2>2. PICK fn \in Uses(bound[i].key) : Invoke(fn, bound[i].key, bound[i].user)
    BY <2>1
  <2>3. pc = "run" /\ call = None
    BY <1>9 DEF UsePlugin
  <2>4. MayCall(fn, bound[i].key, bound[i].user)
    BY <2>3, UsePluginMay
  <2> QED BY <2>2, <2>3, <2>4, InvokeIsCall
<1>10. CASE DetachPlugin
  <2>1. Invoke("detach", bound[next].key, bound[next].user)
    BY <1>10 DEF DetachPlugin
  <2> QED BY <1>10, <2>1, DetachPluginMay, InvokeIsCall
<1>11. CASE FreePlugin
  <2>1. PICK key \in ToFree : Invoke("free", key, None)
    BY <1>11 DEF FreePlugin
  <2> QED BY <1>11, <2>1, FreePluginMay, InvokeIsCall
<1> QED
  BY <1>1, <1>2, <1>3, <1>4, <1>5, <1>6, <1>7, <1>8, <1>9, <1>10, <1>11 DEF Next

(* Every plugin is called in the order that plugin.h promises its author,  *)
(* whatever is loaded and configured and whichever calls fail.             *)
THEOREM HostKeepsLifecycle == Spec => LifecycleSpec
<1>1. IndInv /\ IndInv' /\ [Next]_vars => [Lifecycle!Next]_Lifecycle!vars
  BY LifecycleStep
<1> QED BY Invariance, InitIsInit, <1>1, PTL DEF Spec, LifecycleSpec, Lifecycle!Spec
================================================================================
