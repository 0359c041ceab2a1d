------------------------- MODULE EventQLTargetProofs -------------------------
(***************************************************************************)
(* Proofs about EventQLTarget for every set of names, every routing table, *)
(* every queue length and every number of emissions.                       *)
(***************************************************************************)
EXTENDS EventQLTarget, TLAPS

(* The sequences over a set are closed under what the queue does to them.  *)
LEMMA SeqClosed ==
  ASSUME NEW S
  PROVE  /\ \A e \in S : <<e>> \in Seq(S)
         /\ \A s \in Seq(S), e \in S : Append(s, e) \in Seq(S)
         /\ \A s, t \in Seq(S) : s \o t \in Seq(S)
  OBVIOUS

(* Moving the head of the second part of a concatenation to the first part *)
(* leaves the concatenation as it is.                                      *)
LEMMA AppendHeadThenTail ==
  ASSUME NEW S, NEW s \in Seq(S), NEW t \in Seq(S), t # <<>>
  PROVE  s \o t = Append(s, Head(t)) \o Tail(t)
  OBVIOUS

LEMMA InitInv == Init => IndInv
  <1> SUFFICES ASSUME Init PROVE IndInv
    OBVIOUS
  <1> USE QueueMaxAssumption, MaxEmitsAssumption DEF Init, NoCall
  <1>1. TypeOK
    <2>1. \A S : <<>> \in Seq(S)
      OBVIOUS
    <2> QED  BY <2>1 DEF TypeOK, Threads, MainPc, UploadPc
  <1>2. ThreadStarted /\ CallInRange /\ LockHeld
    BY DEF ThreadStarted, CallInRange, LockHeld, InEmit
  <1>3. QueueBounded /\ NoLostWakeup /\ NoUseAfterDelete
    BY DEF QueueBounded, NoLostWakeup, NoUseAfterDelete
  <1>4. QueueIsSuffix  BY DEF QueueIsSuffix
  <1> QED  BY <1>1, <1>2, <1>3, <1>4 DEF IndInv

LEMMA StepInv == IndInv /\ [Next]_vars => IndInv'
  <1> SUFFICES ASSUME IndInv, [Next]_vars PROVE IndInv'
    OBVIOUS
  <1> USE QueueMaxAssumption, MaxEmitsAssumption, RoutesAssumption
  <1> USE DEF IndInv, TypeOK, ThreadStarted, CallInRange, LockHeld, QueueBounded,
      NoLostWakeup, NoUseAfterDelete, QueueIsSuffix, Threads, MainPc, UploadPc,
      InEmit, NoCall, shared, service, upload, MoreRoutes, NextRoute
  <1>1. CASE PluginAttach  BY <1>1 DEF PluginAttach
  <1>2. CASE PluginAttachFails  BY <1>2 DEF PluginAttachFails
  <1>3. CASE StartService  BY <1>3 DEF StartService
  <1>4. ASSUME NEW name \in EventNames, PluginEmitEvent(name) PROVE IndInv'
    BY <1>4 DEF PluginEmitEvent
  <1>5. CASE SkipRoute
    <2>1. call.route \in Nat /\ call.route <= Len(Routes) /\ call.route > 0
      BY <1>5 DEF SkipRoute
    <2>2. /\ call' \in [name : EventNames \union {"none"}, route : Nat]
          /\ call'.route = call.route + 1
      BY <1>5, <2>1 DEF SkipRoute
    <2>3. Len(Routes) \in Nat
      OBVIOUS
    <2> QED  BY <1>5, <2>1, <2>2, <2>3 DEF SkipRoute
  <1>6. CASE TakeRoute  BY <1>6 DEF TakeRoute
  <1>7. CASE EmitReturn  BY <1>7 DEF EmitReturn
  <1>8. CASE EnqueueLock  BY <1>8 DEF EnqueueLock
  <1>9. CASE EnqueueWait  BY <1>9 DEF EnqueueWait
  <1>10. CASE EnqueuePush
    <2> DEFINE event == [id |-> Len(emitted), route |-> call.route]
    <2>1. event \in EnqueuedEvent
      <3>1. Len(emitted) \in 1..MaxEmits /\ call.route \in 1..Len(Routes)
        BY <1>10 DEF EnqueuePush
      <3> QED  BY <3>1 DEF EnqueuedEvent
    <2>2. /\ call' \in [name : EventNames \union {"none"}, route : Nat]
          /\ call'.route = call.route + 1
      BY <1>10 DEF EnqueuePush
    <2>3. queue' = Append(queue, event) /\ accepted' = Append(accepted, event)
      BY <1>10 DEF EnqueuePush
    <2> HIDE DEF event
    <2>4. /\ queue' \in Seq(EnqueuedEvent) /\ accepted' \in Seq(EnqueuedEvent)
          /\ Len(queue') = Len(queue) + 1
      BY <2>1, <2>3
    <2>5. QueueIsSuffix'
      <3>0. taken \in Seq(EnqueuedEvent) /\ queue \in Seq(EnqueuedEvent)
        OBVIOUS
      <3>1. Append(taken \o queue, event) = taken \o Append(queue, event)
        BY ONLY <2>1, <3>0
      <3>2. taken' = taken
        BY <1>10 DEF EnqueuePush
      <3> QED  BY <2>3, <3>1, <3>2
    <2>6. TypeOK'  BY <1>10, <2>2, <2>4 DEF EnqueuePush
    <2>7. ThreadStarted' /\ LockHeld' /\ NoLostWakeup' /\ NoUseAfterDelete'
      BY <1>10 DEF EnqueuePush
    <2>8. CallInRange'  BY <1>10, <2>2, SMTT(30) DEF EnqueuePush
    <2>9. QueueBounded'  BY <1>10, <2>4 DEF EnqueuePush
    <2> QED  BY <2>5, <2>6, <2>7, <2>8, <2>9
  <1>11. CASE StopFlag  BY <1>11 DEF StopFlag
  <1>12. CASE StopNotify  BY <1>12 DEF StopNotify
  <1>13. CASE StopJoin  BY <1>13 DEF StopJoin
  <1>14. CASE UploadCheckLock  BY <1>14 DEF UploadCheckLock
  <1>15. CASE UploadCheck  BY <1>15 DEF UploadCheck
  <1>16. CASE AwaitLock  BY <1>16 DEF AwaitLock
  <1>17. CASE AwaitWait  BY <1>17 DEF AwaitWait
  <1>18. CASE AwaitNothing  BY <1>18 DEF AwaitNothing
  <1>19. CASE AwaitTake
    <2>1. queue # <<>> /\ queue \in Seq(EnqueuedEvent)
      BY <1>19 DEF AwaitTake
    <2>2. /\ Head(queue) \in EnqueuedEvent /\ Tail(queue) \in Seq(EnqueuedEvent)
          /\ Len(Tail(queue)) = Len(queue) - 1
      BY <2>1
    <2>3. QueueIsSuffix'
      <3>0. taken \in Seq(EnqueuedEvent)
        OBVIOUS
      <3>1. taken \o queue = Append(taken, Head(queue)) \o Tail(queue)
        BY ONLY <2>1, <3>0, AppendHeadThenTail
      <3>2. /\ taken' = Append(taken, Head(queue)) /\ queue' = Tail(queue)
            /\ accepted' = accepted
        BY <1>19 DEF AwaitTake
      <3> QED  BY <3>1, <3>2
    <2>4. uploading' \in Seq(EnqueuedEvent) /\ taken' \in Seq(EnqueuedEvent)
      BY <1>19, <2>2, SeqClosed DEF AwaitTake
    <2>10. TypeOK'  BY <1>19, <2>2, <2>4 DEF AwaitTake
    <2>5. /\ ThreadStarted' /\ CallInRange' /\ LockHeld' /\ NoLostWakeup'
          /\ NoUseAfterDelete'
      BY <1>19 DEF AwaitTake
    <2>6. QueueBounded'  BY <1>19, <2>1, <2>2 DEF AwaitTake
    <2> QED  BY <2>3, <2>5, <2>6, <2>10
  <1>20. CASE UploadEvent
    <2>1. stored' \in Seq(EnqueuedEvent)
      <3>1. stored \o uploading \in Seq(EnqueuedEvent)
        BY SeqClosed
      <3> QED  BY <1>20, <3>1 DEF UploadEvent
    <2>2. TypeOK'  BY <1>20, <2>1 DEF UploadEvent
    <2>3. /\ ThreadStarted' /\ CallInRange' /\ LockHeld' /\ NoLostWakeup'
          /\ NoUseAfterDelete' /\ QueueBounded' /\ QueueIsSuffix'
      BY <1>20 DEF UploadEvent
    <2> QED  BY <2>2, <2>3
  <1>21. ASSUME NEW t \in Threads, SpuriousWake(t) PROVE IndInv'
    BY <1>21 DEF SpuriousWake
  <1>22. CASE UNCHANGED vars  BY <1>22 DEF vars
  <1> QED
    BY <1>1, <1>2, <1>3, <1>4, <1>5, <1>6, <1>7, <1>8, <1>9, <1>10, <1>11,
       <1>12, <1>13, <1>14, <1>15, <1>16, <1>17, <1>18, <1>19, <1>20, <1>21,
       <1>22 DEF Next, Attach, Route, Enqueue, Stop, AwaitStep

(* The inductive invariant holds in every reachable state.                 *)
THEOREM Invariance == Spec => []IndInv
  BY InitInv, StepInv, PTL DEF Spec

(* Type correctness of the plugin's state.                                 *)
THEOREM TypeCorrect == Spec => []TypeOK
  BY Invariance, PTL DEF IndInv

(* The queue never exceeds queue_maxlen.                                   *)
THEOREM QueueNeverOverfull == Spec => []QueueBounded
  BY Invariance, PTL DEF IndInv

(* No thread ever sleeps in cv_.wait, un-notified, while it has work.      *)
THEOREM NoThreadStranded == Spec => []NoLostWakeup
  BY Invariance, PTL DEF IndInv

(* A deleted target is used by no thread.                                  *)
THEOREM DeleteIsSafe == Spec => []NoUseAfterDelete
  BY Invariance, PTL DEF IndInv

-----------------------------------------------------------------------------
(* The pushes and pops of the two threads are the steps of a bounded FIFO. *)

LEMMA FifoInit == Init => Fifo!Init
  BY DEF Init, Fifo!Init

(* The event at the head of the queue is the first one not yet taken.      *)
LEMMA HeadIsNext ==
  ASSUME NEW S, NEW s \in Seq(S), NEW t \in Seq(S), t # <<>>
  PROVE  /\ Len(s) < Len(s \o t)
         /\ (s \o t)[Len(s) + 1] = Head(t)
         /\ Len(s \o t) - Len(s) = Len(t)
  OBVIOUS

LEMMA FifoStep ==
  IndInv /\ [Next]_vars => [Fifo!Next]_<<accepted, taken>>
  <1> SUFFICES ASSUME IndInv, [Next]_vars
               PROVE  Fifo!Next \/ UNCHANGED <<accepted, taken>>
    OBVIOUS
  <1> USE DEF shared, service, upload
  <1>0. /\ queue \in Seq(EnqueuedEvent) /\ taken \in Seq(EnqueuedEvent)
        /\ accepted = taken \o queue
    BY DEF IndInv, TypeOK, QueueIsSuffix
  <1>1. CASE EnqueuePush
    <2>1. Len(accepted) - Len(taken) < QueueMax
      <3>1. Len(accepted) - Len(taken) = Len(queue)
        BY <1>0
      <3> QED  BY <1>1, <3>1 DEF EnqueuePush
    <2>2. [id |-> Len(emitted), route |-> call.route] \in EnqueuedEvent
      BY <1>1, MaxEmitsAssumption
      DEF EnqueuePush, IndInv, CallInRange, TypeOK, InEmit, EnqueuedEvent
    <2>3. /\ accepted' = Append(accepted,
                                [id |-> Len(emitted), route |-> call.route])
          /\ taken' = taken
      BY <1>1 DEF EnqueuePush
    <2> QED  BY <2>1, <2>2, <2>3 DEF Fifo!Next, Fifo!Accept
  <1>2. CASE AwaitTake
    <2>1. queue # <<>>
      BY <1>2 DEF AwaitTake
    <2>2. /\ Len(taken) < Len(accepted)
          /\ accepted[Len(taken) + 1] = Head(queue)
      BY <1>0, <2>1, HeadIsNext
    <2>3. taken' = Append(taken, Head(queue)) /\ accepted' = accepted
      BY <1>2 DEF AwaitTake
    <2> QED  BY <2>2, <2>3 DEF Fifo!Next, Fifo!Take
  <1>3. CASE Attach
    BY <1>3 DEF Attach, PluginAttach, PluginAttachFails, StartService
  <1>4. ASSUME NEW name \in EventNames, PluginEmitEvent(name)
        PROVE  UNCHANGED <<accepted, taken>>
    BY <1>4 DEF PluginEmitEvent
  <1>5. CASE Route \/ EnqueueLock \/ EnqueueWait
    BY <1>5 DEF Route, SkipRoute, TakeRoute, EmitReturn, EnqueueLock, EnqueueWait
  <1>6. CASE Stop
    BY <1>6 DEF Stop, StopFlag, StopNotify, StopJoin
  <1>7. CASE UploadCheckLock \/ AwaitLock \/ UploadCheck \/ AwaitWait
             \/ AwaitNothing \/ UploadEvent
    BY <1>7 DEF UploadCheckLock, AwaitLock, UploadCheck, AwaitWait,
                AwaitNothing, UploadEvent
  <1>8. ASSUME NEW t \in Threads, SpuriousWake(t)
        PROVE  UNCHANGED <<accepted, taken>>
    BY <1>8 DEF SpuriousWake
  <1>9. CASE UNCHANGED vars
    BY <1>9 DEF vars
  <1> QED
    BY <1>1, <1>2, <1>3, <1>4, <1>5, <1>6, <1>7, <1>8, <1>9
    DEF Next, Enqueue, AwaitStep

(* The target implements BoundedFifo: events are handed to the upload      *)
(* thread once each, oldest first, and never more than queue_maxlen of     *)
(* them are outstanding.                                                   *)
THEOREM TargetImplementsFifo == Spec => FifoSpec
  <1>1. IndInv /\ [Next]_vars => [Fifo!Next]_Fifo!fifoVars
    BY FifoStep DEF Fifo!fifoVars
  <1> QED  BY Invariance, FifoInit, <1>1, PTL DEF Spec, FifoSpec, Fifo!Spec

-----------------------------------------------------------------------------
(* The order of the events and the routes they take.  Every event that is  *)
(* somewhere in the target belongs to an emission and a route that the     *)
(* service thread is past (Past), so that the next one comes after it.     *)

Past(e) ==
    /\ e.id <= Len(emitted)
    /\ mpc \in InEmit /\ e.id = Len(emitted) => e.route < call.route

PastEvents == {e \in EnqueuedEvent : Past(e)}
AllPast(s) == \A n \in 1..Len(s) : s[n] \in PastEvents
InOrder(s) == \A m, n \in 1..Len(s) : m < n => Precedes(s[m], s[n])
Before(s, t) == \A m \in 1..Len(s), n \in 1..Len(t) : Precedes(s[m], t[n])

OrderInv ==
    /\ InOrder(stored) /\ InOrder(queue) /\ InOrder(accepted)
    /\ Before(stored, uploading) /\ Before(stored, queue) /\ Before(uploading, queue)
    /\ Len(uploading) <= 1
    /\ AllPast(stored) /\ AllPast(uploading) /\ AllPast(queue) /\ AllPast(accepted)

Shape(s) == s \in Seq(EnqueuedEvent)

LEMMA EventTypes ==
  ASSUME NEW s, Shape(s), NEW n \in 1..Len(s)
  PROVE  s[n] \in EnqueuedEvent /\ s[n].id \in Int /\ s[n].route \in Int
  <1>1. s[n] \in EnqueuedEvent
    BY DEF Shape
  <1>2. Len(Routes) \in Nat
    BY RoutesAssumption
  <1> QED  BY <1>1, <1>2, MaxEmitsAssumption DEF EnqueuedEvent

(* An event behind all others keeps a sequence in order.                   *)
LEMMA OrderAppend ==
  ASSUME NEW s, Shape(s), NEW e \in EnqueuedEvent, InOrder(s),
         \A n \in 1..Len(s) : Precedes(s[n], e)
  PROVE  InOrder(Append(s, e))
  <1>1. /\ Len(Append(s, e)) = Len(s) + 1 /\ Len(s) \in Nat
        /\ \A n \in 1..Len(s) : Append(s, e)[n] = s[n]
        /\ Append(s, e)[Len(s) + 1] = e
    BY DEF Shape
  <1>2. SUFFICES ASSUME NEW m \in 1..(Len(s) + 1), NEW n \in 1..(Len(s) + 1), m < n
                 PROVE  Precedes(Append(s, e)[m], Append(s, e)[n])
    BY <1>1 DEF InOrder
  <1>3. m \in 1..Len(s)
    BY <1>1, <1>2
  <1>4. CASE n \in 1..Len(s)
    BY <1>1, <1>2, <1>3, <1>4 DEF InOrder
  <1>5. CASE n = Len(s) + 1
    BY <1>1, <1>3, <1>5
  <1> QED  BY <1>1, <1>4, <1>5

LEMMA BeforeAppend ==
  ASSUME NEW s, Shape(s), NEW t, Shape(t), NEW e \in EnqueuedEvent, Before(s, t),
         \A n \in 1..Len(s) : Precedes(s[n], e)
  PROVE  Before(s, Append(t, e))
  <1>1. /\ Len(Append(t, e)) = Len(t) + 1 /\ Len(t) \in Nat
        /\ \A n \in 1..Len(t) : Append(t, e)[n] = t[n]
        /\ Append(t, e)[Len(t) + 1] = e
    BY DEF Shape
  <1>2. \A n \in 1..(Len(t) + 1) : n \in 1..Len(t) \/ n = Len(t) + 1
    BY <1>1
  <1> QED  BY <1>1, <1>2 DEF Before

LEMMA SingleOrNone ==
  ASSUME NEW s, Shape(s), Len(s) <= 1
  PROVE  s = <<>> \/ (s = <<s[1]>> /\ s[1] \in EnqueuedEvent)
  <1>1. Len(s) \in Nat /\ s \in [1..Len(s) -> EnqueuedEvent]
    BY DEF Shape
  <1>2. CASE Len(s) = 0
    BY <1>2 DEF Shape
  <1>3. CASE Len(s) = 1
    BY <1>1, <1>3
  <1> QED  BY <1>1, <1>2, <1>3

LEMMA TailInOrder ==
  ASSUME NEW t, Shape(t), t # <<>>, InOrder(t)
  PROVE  /\ Shape(Tail(t)) /\ InOrder(Tail(t)) /\ Head(t) = t[1] /\ 1 \in 1..Len(t)
         /\ Before(<<Head(t)>>, Tail(t))
         /\ \A n \in 1..Len(Tail(t)) : n + 1 \in 1..Len(t) /\ Tail(t)[n] = t[n + 1]
  <1>1. /\ Shape(Tail(t)) /\ Len(Tail(t)) = Len(t) - 1 /\ Len(t) \in Nat \ {0}
        /\ Head(t) = t[1]
        /\ \A n \in 1..(Len(t) - 1) : Tail(t)[n] = t[n + 1]
    BY DEF Shape
  <1>2. \A n \in 1..(Len(t) - 1) : n + 1 \in 1..Len(t)
    BY <1>1
  <1>3. InOrder(Tail(t))
    BY <1>1, <1>2 DEF InOrder
  <1>4. Len(<<Head(t)>>) = 1 /\ \A m \in 1..1 : <<Head(t)>>[m] = t[1]
    BY <1>1
  <1>5. \A n \in 1..(Len(t) - 1) : 1 < n + 1
    BY <1>1
  <1>6. Before(<<Head(t)>>, Tail(t))
    BY <1>1, <1>2, <1>4, <1>5 DEF Before, InOrder
  <1> QED  BY <1>1, <1>2, <1>3, <1>6

(* What the service thread is past, it stays past.                         *)
LEMMA PastStays ==
  ASSUME IndInv, [Next]_vars, NEW e \in EnqueuedEvent, Past(e)
  PROVE  Past(e)'
  <1>0. /\ Len(emitted) \in Nat /\ e.id \in Int /\ e.route \in Int /\ call.route \in Nat
        /\ e.id <= Len(emitted)
    BY MaxEmitsAssumption, RoutesAssumption DEF IndInv, TypeOK, EnqueuedEvent, Past
  <1> USE <1>0 DEF Past, InEmit
  <1>1. ASSUME NEW name \in EventNames, PluginEmitEvent(name) PROVE Past(e)'
    <2>1. Len(emitted') = Len(emitted) + 1
      BY <1>1 DEF PluginEmitEvent, IndInv, TypeOK
    <2> QED  BY <2>1
  <1>2. CASE EnqueuePush \/ SkipRoute
    <2>1. call'.route = call.route + 1 /\ emitted' = emitted /\ mpc \in InEmit
      BY <1>2 DEF EnqueuePush, SkipRoute, NextRoute
    <2> QED  BY <2>1
  <1>3. CASE TakeRoute \/ EmitReturn \/ EnqueueLock \/ EnqueueWait
    BY <1>3 DEF TakeRoute, EmitReturn, EnqueueLock, EnqueueWait
  <1>4. CASE Attach \/ Stop
    BY <1>4 DEF Attach, PluginAttach, PluginAttachFails, StartService, Stop, StopFlag,
                StopNotify, StopJoin
  <1>5. CASE UploadCheckLock \/ AwaitLock \/ AwaitStep \/ UploadEvent
    BY <1>5 DEF UploadCheckLock, AwaitLock, AwaitStep, UploadCheck, AwaitWait, AwaitNothing,
                AwaitTake, UploadEvent, service
  <1>6. ASSUME NEW t \in Threads, SpuriousWake(t) PROVE Past(e)'
    BY <1>6 DEF SpuriousWake, service
  <1>7. CASE UNCHANGED vars
    BY <1>7 DEF vars
  <1> QED
    BY <1>1, <1>2, <1>3, <1>4, <1>5, <1>6, <1>7 DEF Next, Route, Enqueue

LEMMA OrderInit == Init => OrderInv
  <1> SUFFICES ASSUME Init PROVE OrderInv
    OBVIOUS
  <1>1. Len(stored) = 0 /\ Len(queue) = 0 /\ Len(accepted) = 0 /\ Len(uploading) = 0
    BY DEF Init
  <1> QED  BY <1>1 DEF OrderInv, InOrder, Before, AllPast

LEMMA OrderStep == IndInv /\ OrderInv /\ [Next]_vars => OrderInv'
  <1> SUFFICES ASSUME IndInv, OrderInv, [Next]_vars PROVE OrderInv'
    OBVIOUS
  <1>0. Shape(stored) /\ Shape(queue) /\ Shape(accepted) /\ Shape(uploading)
    BY DEF IndInv, TypeOK, Shape
  <1>1. \A e \in EnqueuedEvent : Past(e) => Past(e)'
    BY PastStays
  <1>2. PastEvents \subseteq PastEvents'
    BY <1>1 DEF PastEvents
  <1>3. CASE EnqueuePush
    <2> DEFINE e == [id |-> Len(emitted), route |-> call.route]
    <2>1. /\ e \in EnqueuedEvent /\ e.id = Len(emitted) /\ e.route = call.route
          /\ mpc \in InEmit /\ call.route \in Nat
      BY <1>3, MaxEmitsAssumption
      DEF EnqueuePush, IndInv, CallInRange, TypeOK, InEmit, EnqueuedEvent
    <2>2. /\ queue' = Append(queue, e) /\ accepted' = Append(accepted, e)
          /\ UNCHANGED <<stored, uploading, emitted>> /\ call'.route = call.route + 1
      BY <1>3 DEF EnqueuePush, upload, NextRoute
    <2> HIDE DEF e
    <2>3. ASSUME NEW f \in EnqueuedEvent, Past(f) PROVE Precedes(f, e)
      <3>1. f.id \in Int /\ f.route \in Int /\ Len(emitted) \in Nat
        BY MaxEmitsAssumption, RoutesAssumption DEF EnqueuedEvent, IndInv, TypeOK
      <3> QED  BY <2>1, <2>3, <3>1 DEF Past, Precedes
    <2>4. /\ \A n \in 1..Len(stored) : Precedes(stored[n], e)
          /\ \A n \in 1..Len(queue) : Precedes(queue[n], e)
          /\ \A n \in 1..Len(accepted) : Precedes(accepted[n], e)
          /\ \A n \in 1..Len(uploading) : Precedes(uploading[n], e)
      BY <2>3 DEF OrderInv, AllPast, PastEvents
    <2>5. e \in PastEvents'
      BY <2>1, <2>2 DEF Past, PastEvents
    <2>6. /\ Len(queue') = Len(queue) + 1 /\ Len(accepted') = Len(accepted) + 1
          /\ \A n \in 1..Len(queue') : queue'[n] = IF n <= Len(queue) THEN queue[n] ELSE e
          /\ \A n \in 1..Len(accepted') :
                accepted'[n] = IF n <= Len(accepted) THEN accepted[n] ELSE e
          /\ Len(queue) \in Nat /\ Len(accepted) \in Nat
      BY <1>0, <2>1, <2>2 DEF Shape
    <2>7. /\ \A n \in 1..Len(queue') : queue'[n] \in PastEvents'
          /\ \A n \in 1..Len(accepted') : accepted'[n] \in PastEvents'
      BY <1>2, <2>5, <2>6 DEF OrderInv, AllPast
    <2>8. AllPast(queue)' /\ AllPast(accepted)' /\ AllPast(stored)' /\ AllPast(uploading)'
      BY <1>2, <2>2, <2>7 DEF OrderInv, AllPast
    <2>9. InOrder(queue') /\ InOrder(accepted')
      BY <1>0, <2>1, <2>2, <2>4, OrderAppend DEF OrderInv
    <2>10. Before(stored, queue') /\ Before(uploading, queue')
      BY <1>0, <2>1, <2>2, <2>4, BeforeAppend DEF OrderInv
    <2>11. /\ InOrder(queue)' /\ InOrder(accepted)' /\ InOrder(stored)'
           /\ Before(stored, queue)' /\ Before(uploading, queue)' /\ Before(stored, uploading)'
           /\ Len(uploading') <= 1
      BY <2>2, <2>9, <2>10, SMTT(30) DEF OrderInv, InOrder, Before, Precedes
    <2> QED  BY <2>8, <2>11 DEF OrderInv
  <1>4. CASE AwaitTake
    <2>1. /\ queue # <<>> /\ queue' = Tail(queue) /\ uploading' = <<Head(queue)>>
          /\ UNCHANGED <<stored, accepted>>
      BY <1>4 DEF AwaitTake
    <2>2. /\ Shape(queue') /\ InOrder(queue') /\ Head(queue) = queue[1] /\ 1 \in 1..Len(queue)
          /\ Before(uploading', queue')
          /\ \A n \in 1..Len(queue') : n + 1 \in 1..Len(queue) /\ queue'[n] = queue[n + 1]
      BY <1>0, <2>1, TailInOrder DEF OrderInv
    <2>3. Len(uploading') = 1 /\ \A n \in 1..1 : uploading'[n] = queue[1]
      BY <2>1, <2>2
    <2>4. Before(stored, queue') /\ Before(stored, uploading')
      BY <2>2, <2>3 DEF OrderInv, Before
    <2>5. AllPast(queue)' /\ AllPast(accepted)' /\ AllPast(stored)' /\ AllPast(uploading)'
      BY <1>2, <2>1, <2>2, <2>3 DEF OrderInv, AllPast
    <2>6. /\ InOrder(queue)' /\ InOrder(accepted)' /\ InOrder(stored)'
          /\ Before(stored, queue)' /\ Before(uploading, queue)' /\ Before(stored, uploading)'
          /\ Len(uploading') <= 1
      BY <2>1, <2>2, <2>3, <2>4 DEF OrderInv, InOrder, Before, Precedes
    <2> QED  BY <2>5, <2>6 DEF OrderInv
  <1>5. CASE UploadEvent
    <2>1. /\ stored' \in {stored, stored \o uploading} /\ uploading' = <<>> /\ Len(uploading') = 0
          /\ UNCHANGED <<queue, accepted>>
      BY <1>5 DEF UploadEvent, shared
    <2>2. \/ stored' = stored
          \/ /\ Len(uploading) = 1 /\ uploading[1] \in EnqueuedEvent
             /\ stored' = Append(stored, uploading[1])
      <3>1. uploading = <<>> \/ (uploading = <<uploading[1]>> /\ uploading[1] \in EnqueuedEvent)
        BY <1>0, SingleOrNone DEF OrderInv
      <3>2. stored \o <<>> = stored
        BY <1>0 DEF Shape
      <3>3. \A u \in EnqueuedEvent : stored \o <<u>> = Append(stored, u) /\ Len(<<u>>) = 1
        BY <1>0 DEF Shape
      <3> QED  BY <2>1, <3>1, <3>2, <3>3
    <2>3. CASE stored' = stored
      <3>1. AllPast(queue)' /\ AllPast(accepted)' /\ AllPast(stored)' /\ AllPast(uploading)'
        BY <1>2, <2>1, <2>3 DEF OrderInv, AllPast
      <3> QED  BY <2>1, <2>3, <3>1 DEF OrderInv, InOrder, Before, Precedes
    <2>4. CASE /\ Len(uploading) = 1 /\ uploading[1] \in EnqueuedEvent
               /\ stored' = Append(stored, uploading[1])
      <3>1. 1 \in 1..Len(uploading)
        BY <2>4
      <3>2. InOrder(stored')
        BY <1>0, <2>4, <3>1, OrderAppend DEF OrderInv, Before
      <3>3. /\ Len(stored') = Len(stored) + 1 /\ Len(stored) \in Nat
            /\ \A n \in 1..Len(stored') :
                  stored'[n] = IF n <= Len(stored) THEN stored[n] ELSE uploading[1]
        BY <1>0, <2>4 DEF Shape
      <3>4. Before(stored', queue)
        BY <3>1, <3>3 DEF OrderInv, Before
      <3>5. \A n \in 1..Len(stored') : stored'[n] \in PastEvents'
        BY <1>2, <3>1, <3>3 DEF OrderInv, AllPast
      <3>6. AllPast(queue)' /\ AllPast(accepted)' /\ AllPast(stored)' /\ AllPast(uploading)'
        BY <1>2, <2>1, <3>5 DEF OrderInv, AllPast
      <3>7. /\ InOrder(queue)' /\ InOrder(accepted)' /\ InOrder(stored)'
            /\ Before(stored, queue)' /\ Before(uploading, queue)' /\ Before(stored, uploading)'
        BY <2>1, <3>2, <3>4 DEF OrderInv, InOrder, Before, Precedes
      <3> QED  BY <2>1, <3>6, <3>7 DEF OrderInv
    <2> QED  BY <2>2, <2>3, <2>4
  <1>6. CASE UNCHANGED <<stored, queue, accepted, uploading>>
    <2>1. AllPast(queue)' /\ AllPast(accepted)' /\ AllPast(stored)' /\ AllPast(uploading)'
      BY <1>2, <1>6 DEF OrderInv, AllPast
    <2> QED  BY <1>6, <2>1, SMTT(30) DEF OrderInv, InOrder, Before, Precedes
  <1>7. EnqueuePush \/ AwaitTake \/ UploadEvent \/ UNCHANGED <<stored, queue, accepted, uploading>>
    BY DEF Next, Attach, PluginAttach, PluginAttachFails, StartService, PluginEmitEvent, Route,
       SkipRoute, TakeRoute, EmitReturn, EnqueueLock, Enqueue, EnqueueWait, Stop, StopFlag,
       StopNotify, StopJoin, UploadCheckLock, AwaitLock, AwaitStep, UploadCheck, AwaitWait,
       AwaitNothing, SpuriousWake, vars, shared, service, upload
  <1> QED  BY <1>3, <1>4, <1>5, <1>6, <1>7

LEMMA OrderHolds == Spec => []OrderInv
  BY Invariance, OrderInit, OrderStep, PTL DEF Spec

(* The server stores every event at most once and in the order of the      *)
(* emissions and routes, whatever requests fail (line 233).                *)
THEOREM StoresInOrder == Spec => []StoredInOrder
  <1>1. OrderInv => StoredInOrder
    BY DEF OrderInv, InOrder, StoredInOrder
  <1> QED  BY <1>1, OrderHolds, PTL

-----------------------------------------------------------------------------
(* The events a routing table asks for: of the emissions that returned,    *)
(* the delivered routes; of the one in progress, the matching routes that  *)
(* the service thread is past.  No invalid target was among those.         *)

InProgress(e) == mpc \in InEmit /\ e.id = Len(emitted)

Wanted(e) ==
    /\ e.id <= Len(emitted)
    /\ InProgress(e) => e.route < call.route /\ Routes[e.route].match = call.name
    /\ ~InProgress(e) => e.route \in Delivered(emitted[e.id])

WantedEvents == {e \in EnqueuedEvent : Wanted(e)}
AcceptedEvents == {accepted[n] : n \in 1..Len(accepted)}

RouteInv ==
    /\ mpc \in InEmit => call.name = emitted[Len(emitted)]
    /\ mpc \in InEmit =>
          \A q \in 1..(call.route - 1) :
              Routes[q].match = call.name => Routes[q].target # BadTarget
    /\ mpc \in {"lock", "enqueue", "wait"} => RouteMatches /\ RouteValid
    /\ AcceptedEvents = WantedEvents

LEMMA RouteInit == Init => RouteInv
  <1> SUFFICES ASSUME Init PROVE RouteInv
    OBVIOUS
  <1>1. Len(accepted) = 0 /\ Len(emitted) = 0 /\ mpc \notin InEmit
        /\ mpc \notin {"lock", "enqueue", "wait"}
    BY DEF Init, InEmit
  <1>2. \A e \in EnqueuedEvent : ~Wanted(e)
    BY <1>1 DEF Wanted, EnqueuedEvent
  <1> QED  BY <1>1, <1>2 DEF RouteInv, AcceptedEvents, WantedEvents

(* The fields of an event and of the call in progress are numbers.         *)
LEMMA Numbers ==
  ASSUME IndInv
  PROVE  /\ Len(Routes) \in Nat /\ Len(emitted) \in Nat /\ call.route \in Nat
         /\ \A e \in EnqueuedEvent : /\ e.id \in Nat \ {0} /\ e.route \in 1..Len(Routes)
                                     /\ e = [id |-> e.id, route |-> e.route]
  BY RoutesAssumption, MaxEmitsAssumption DEF IndInv, TypeOK, EnqueuedEvent

LEMMA RouteStep == IndInv /\ RouteInv /\ [Next]_vars => RouteInv'
  <1> SUFFICES ASSUME IndInv, RouteInv, [Next]_vars PROVE RouteInv'
    OBVIOUS
  <1>0. /\ Len(Routes) \in Nat /\ Len(emitted) \in Nat /\ call.route \in Nat
        /\ \A e \in EnqueuedEvent : /\ e.id \in Nat \ {0} /\ e.route \in 1..Len(Routes)
                                    /\ e = [id |-> e.id, route |-> e.route]
    BY Numbers
  <1>1. ASSUME NEW name \in EventNames, PluginEmitEvent(name) PROVE RouteInv'
    <2>1. /\ mpc = "idle" /\ mpc' = "route" /\ call'.route = 1 /\ call'.name = name
          /\ accepted' = accepted /\ emitted' = Append(emitted, name)
      BY <1>1 DEF PluginEmitEvent
    <2>2. /\ Len(emitted') = Len(emitted) + 1 /\ emitted'[Len(emitted')] = name
          /\ \A k \in 1..Len(emitted) : emitted'[k] = emitted[k]
      BY <2>1 DEF IndInv, TypeOK
    <2>3. ASSUME NEW e \in EnqueuedEvent PROVE Wanted(e)' <=> Wanted(e)
      <3>1. ~InProgress(e)
        BY <2>1 DEF InProgress, InEmit
      <3>2. InProgress(e)' <=> e.id = Len(emitted')
        BY <2>1 DEF InProgress, InEmit
      <3>3. CASE e.id <= Len(emitted)
        <4>1. emitted'[e.id] = emitted[e.id] /\ ~InProgress(e)'
          BY <1>0, <2>2, <3>2, <3>3
        <4>2. Delivered(emitted[e.id])' = Delivered(emitted[e.id])
          BY <4>1 DEF Delivered
        <4> QED  BY <1>0, <2>2, <3>1, <3>3, <4>1, <4>2 DEF Wanted
      <3>4. CASE ~(e.id <= Len(emitted))
        BY <1>0, <2>1, <2>2, <3>2, <3>4 DEF Wanted
      <3> QED  BY <3>3, <3>4
    <2>4. AcceptedEvents' = WantedEvents'
      BY <2>1, <2>3 DEF RouteInv, AcceptedEvents, WantedEvents
    <2> QED  BY <2>1, <2>2, <2>4 DEF RouteInv
  <1>2. CASE SkipRoute
    <2>1. /\ mpc = "route" /\ mpc' = "route" /\ mpc \in InEmit /\ emitted' = emitted
          /\ accepted' = accepted /\ call'.route = call.route + 1 /\ call'.name = call.name
          /\ Routes[call.route].match # call.name
      BY <1>2 DEF SkipRoute, NextRoute, RouteMatches, InEmit
    <2>2. ASSUME NEW e \in EnqueuedEvent PROVE Wanted(e)' <=> Wanted(e)
      BY <1>0, <2>1 DEF Wanted, InProgress, Delivered
    <2>3. AcceptedEvents' = WantedEvents'
      BY <2>1, <2>2 DEF RouteInv, AcceptedEvents, WantedEvents
    <2>4. \A q \in 1..(call'.route - 1) : q \in 1..(call.route - 1) \/ q = call.route
      BY <1>0, <2>1
    <2> QED  BY <2>1, <2>3, <2>4 DEF RouteInv
  <1>3. CASE EmitReturn
    <2>1. /\ mpc = "route" /\ mpc \in InEmit /\ mpc' = "idle" /\ mpc' \notin InEmit
          /\ emitted' = emitted /\ accepted' = accepted
          /\ call.route <= Len(Routes) =>
                Routes[call.route].match = call.name /\ Routes[call.route].target = BadTarget
      BY <1>3 DEF EmitReturn, InEmit, MoreRoutes, RouteMatches, RouteValid
    <2>2. /\ call.name = emitted[Len(emitted)]
          /\ \A q \in 1..(call.route - 1) :
                Routes[q].match = call.name => Routes[q].target # BadTarget
          /\ call.route \in 1..(Len(Routes) + 1)
      BY <2>1 DEF RouteInv, IndInv, CallInRange
    <2>3. ASSUME NEW r \in 1..Len(Routes)
          PROVE  r \in Delivered(call.name) <=>
                    r < call.route /\ Routes[r].match = call.name
      <3>1. CASE r < call.route
        <4>1. 1..r \subseteq 1..(call.route - 1)
          BY <1>0, <3>1
        <4> QED  BY <2>2, <3>1, <4>1 DEF Delivered
      <3>2. CASE ~(r < call.route)
        <4>1. call.route \in 1..r /\ call.route <= Len(Routes)
          BY <1>0, <2>2, <3>2
        <4> QED  BY <2>1, <3>2, <4>1 DEF Delivered
      <3> QED  BY <3>1, <3>2
    <2>4. ASSUME NEW e \in EnqueuedEvent PROVE Wanted(e)' <=> Wanted(e)
      <3>1. ~InProgress(e)' /\ (InProgress(e) <=> e.id = Len(emitted))
        BY <2>1 DEF InProgress
      <3>2. Delivered(emitted[e.id])' = Delivered(emitted[e.id])
        BY <2>1 DEF Delivered
      <3>3. Wanted(e)' <=> e.id <= Len(emitted) /\ e.route \in Delivered(emitted[e.id])
        BY <2>1, <3>1, <3>2 DEF Wanted
      <3>4. CASE e.id = Len(emitted)
        BY <1>0, <2>2, <2>3, <3>1, <3>3, <3>4 DEF Wanted
      <3>5. CASE e.id # Len(emitted)
        BY <3>1, <3>3, <3>5 DEF Wanted
      <3> QED  BY <3>4, <3>5
    <2>5. AcceptedEvents' = WantedEvents'
      BY <2>1, <2>4 DEF RouteInv, AcceptedEvents, WantedEvents
    <2> QED  BY <2>1, <2>5 DEF RouteInv
  <1>4. CASE EnqueuePush
    <2> DEFINE new == [id |-> Len(emitted), route |-> call.route]
    <2>1. /\ mpc = "enqueue" /\ mpc \in InEmit /\ mpc' = "route" /\ mpc' \in InEmit
          /\ emitted' = emitted /\ accepted' = Append(accepted, new)
          /\ call'.route = call.route + 1 /\ call'.name = call.name
      BY <1>4 DEF EnqueuePush, NextRoute, InEmit
    <2>2. /\ Routes[call.route].match = call.name /\ Routes[call.route].target # BadTarget
          /\ call.name = emitted[Len(emitted)]
      BY <2>1 DEF RouteInv, RouteMatches, RouteValid
    <2>3. /\ new \in EnqueuedEvent /\ new.id = Len(emitted) /\ new.route = call.route
          /\ \A e \in EnqueuedEvent : e.id = Len(emitted) /\ e.route = call.route => e = new
      BY <1>0, <2>1, MaxEmitsAssumption DEF IndInv, CallInRange, EnqueuedEvent, InEmit
    <2> HIDE DEF new
    <2>4. /\ Len(accepted') = Len(accepted) + 1 /\ Len(accepted) \in Nat
          /\ \A n \in 1..Len(accepted) : accepted'[n] = accepted[n]
          /\ accepted'[Len(accepted) + 1] = new
      BY <2>1, <2>3 DEF IndInv, TypeOK
    <2>5. \A n \in 1..Len(accepted') : n \in 1..Len(accepted) \/ n = Len(accepted) + 1
      BY <2>4
    <2>6. /\ \A n \in 1..Len(accepted) : n \in 1..Len(accepted')
          /\ Len(accepted) + 1 \in 1..Len(accepted')
      BY <2>4
    <2>7. AcceptedEvents' = AcceptedEvents \union {new}
      BY <2>4, <2>5, <2>6 DEF AcceptedEvents
    <2>8. ASSUME NEW e \in EnqueuedEvent PROVE Wanted(e)' <=> Wanted(e) \/ e = new
      <3>1. /\ InProgress(e)' <=> e.id = Len(emitted)
            /\ InProgress(e) <=> e.id = Len(emitted)
            /\ Delivered(emitted[e.id])' = Delivered(emitted[e.id])
        BY <2>1 DEF InProgress, Delivered
      <3>2. CASE e.id = Len(emitted)
        BY <1>0, <2>1, <2>2, <2>3, <3>1, <3>2 DEF Wanted
      <3>3. CASE e.id # Len(emitted)
        BY <2>1, <2>3, <3>1, <3>3 DEF Wanted
      <3> QED  BY <3>2, <3>3
    <2>9. AcceptedEvents' = WantedEvents'
      BY <2>3, <2>7, <2>8 DEF RouteInv, WantedEvents
    <2>10. \A q \in 1..(call'.route - 1) : q \in 1..(call.route - 1) \/ q = call.route
      BY <1>0, <2>1
    <2> QED  BY <2>1, <2>2, <2>9, <2>10 DEF RouteInv
  <1>5. CASE TakeRoute \/ EnqueueLock \/ EnqueueWait
    <2>1. UNCHANGED <<emitted, accepted, call>> /\ mpc \in InEmit /\ mpc' \in InEmit
          /\ RouteMatches /\ RouteValid
      BY <1>5 DEF TakeRoute, EnqueueLock, EnqueueWait, InEmit, RouteInv
    <2>2. ASSUME NEW e \in EnqueuedEvent PROVE Wanted(e)' <=> Wanted(e)
      BY <2>1 DEF Wanted, InProgress, Delivered
    <2>3. AcceptedEvents' = WantedEvents'
      BY <2>1, <2>2 DEF RouteInv, AcceptedEvents, WantedEvents
    <2> QED  BY <2>1, <2>3 DEF RouteInv, RouteMatches, RouteValid
  <1>6. CASE /\ UNCHANGED <<emitted, accepted, call>>
             /\ mpc' = mpc \/ (mpc \notin InEmit /\ mpc' \notin InEmit)
    <2>1. ASSUME NEW e \in EnqueuedEvent PROVE Wanted(e)' <=> Wanted(e)
      BY <1>6 DEF Wanted, InProgress, Delivered
    <2>2. AcceptedEvents' = WantedEvents'
      BY <1>6, <2>1 DEF RouteInv, AcceptedEvents, WantedEvents
    <2>3. {"lock", "enqueue", "wait"} \subseteq InEmit
      BY DEF InEmit
    <2> QED  BY <1>6, <2>2, <2>3 DEF RouteInv, RouteMatches, RouteValid
  <1>7. CASE Attach \/ Stop
    <2>1. /\ UNCHANGED <<emitted, accepted, call>>
          /\ mpc \notin InEmit /\ mpc' \notin InEmit
      BY <1>7 DEF Attach, PluginAttach, PluginAttachFails, StartService, Stop, StopFlag,
                  StopNotify, StopJoin, InEmit
    <2> QED  BY <1>6, <2>1
  <1>8. CASE UploadCheckLock \/ AwaitLock \/ AwaitStep \/ UploadEvent \/ UNCHANGED vars
             \/ \E t \in Threads : SpuriousWake(t)
    <2>1. UNCHANGED <<emitted, accepted, call>> /\ mpc' = mpc
      BY <1>8 DEF UploadCheckLock, AwaitLock, AwaitStep, UploadCheck, AwaitWait, AwaitNothing,
                  AwaitTake, UploadEvent, SpuriousWake, service, vars
    <2> QED  BY <1>6, <2>1
  <1> QED
    BY <1>1, <1>2, <1>3, <1>4, <1>5, <1>7, <1>8 DEF Next, Route, Enqueue

(* Between two calls of emitEvent exactly the events are enqueued that the *)
(* routing table asks for, each once (lines 201-242).                      *)
THEOREM RoutesAreComplete == Spec => []RouteComplete
  <1>1. IndInv /\ OrderInv /\ RouteInv => RouteComplete
    <2> SUFFICES ASSUME IndInv, OrderInv, RouteInv, mpc \notin InEmit
                 PROVE  /\ AcceptedEvents =
                              UNION {{[id |-> k, route |-> r] : r \in Delivered(emitted[k])} :
                                        k \in 1..Len(emitted)}
                        /\ \A m, n \in 1..Len(accepted) : accepted[m] = accepted[n] => m = n
      BY DEF RouteComplete, AcceptedEvents
    <2>1. /\ Len(Routes) \in Nat /\ Len(emitted) \in Nat /\ call.route \in Nat
          /\ \A e \in EnqueuedEvent : /\ e.id \in Nat \ {0} /\ e.route \in 1..Len(Routes)
                                      /\ e = [id |-> e.id, route |-> e.route]
      BY Numbers
    <2>2. \A e \in EnqueuedEvent :
              Wanted(e) <=> e.id <= Len(emitted) /\ e.route \in Delivered(emitted[e.id])
      BY DEF Wanted, InProgress
    <2>3. ASSUME NEW k \in 1..Len(emitted), NEW r \in Delivered(emitted[k])
          PROVE  [id |-> k, route |-> r] \in WantedEvents
      <3>1. [id |-> k, route |-> r] \in EnqueuedEvent
        BY <2>1, <2>3, MaxEmitsAssumption DEF IndInv, CallInRange, EnqueuedEvent, Delivered
      <3> QED  BY <2>1, <2>2, <2>3, <3>1 DEF WantedEvents
    <2>4. ASSUME NEW e \in WantedEvents
          PROVE  \E k \in 1..Len(emitted) : \E r \in Delivered(emitted[k]) :
                    e = [id |-> k, route |-> r]
      <3>1. e \in EnqueuedEvent /\ e.id \in 1..Len(emitted) /\ e.route \in Delivered(emitted[e.id])
        BY <2>1, <2>2, <2>4 DEF WantedEvents
      <3> QED  BY <2>1, <3>1
    <2>5. AcceptedEvents = WantedEvents
      BY DEF RouteInv
    <2>6. WantedEvents = UNION {{[id |-> k, route |-> r] : r \in Delivered(emitted[k])} :
                                   k \in 1..Len(emitted)}
      BY <2>3, <2>4
    <2>7. ASSUME NEW m \in 1..Len(accepted), NEW n \in 1..Len(accepted),
                 accepted[m] = accepted[n], m < n
          PROVE  FALSE
      <3>1. Shape(accepted)
        BY DEF IndInv, TypeOK, Shape
      <3>2. accepted[m].id \in Int /\ accepted[m].route \in Int
        BY <3>1, EventTypes
      <3> QED  BY <2>7, <3>2 DEF OrderInv, InOrder, Precedes
    <2>8. \A m, n \in 1..Len(accepted) : accepted[m] = accepted[n] => m = n
      BY <2>7
    <2> QED  BY <2>5, <2>6, <2>8
  <1>2. Spec => []RouteInv
    BY Invariance, RouteInit, RouteStep, PTL DEF Spec
  <1> QED  BY <1>1, <1>2, Invariance, OrderHolds, PTL
==============================================================================
