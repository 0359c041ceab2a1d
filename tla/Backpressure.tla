----------------------------- MODULE Backpressure ------------------------------
(***************************************************************************)
(* The scheduling loop with the targets that its events are delivered to   *)
(* (service.cc and eventql_plugin.cc).  Module Scheduler has processEvent  *)
(* as one step that always comes to an end.  Here it enqueues what the     *)
(* sources of the event answered, and waits where a queue is full: for the *)
(* upload thread of that target, while the clock goes on and signals come. *)
(*                                                                         *)
(* What a source answers is open, and so is how many routes of a target    *)
(* match: the constant Deliveries lists the enqueueEvent calls that        *)
(* processEvent may make.  A target is the number of events it has         *)
(* outstanding, of which module EventQLTarget keeps the history.           *)
(***************************************************************************)
EXTENDS Scheduler

CONSTANTS
    Targets,        \* targets_
    Capacity,       \* queue_max_length_ of each
    Deliveries      \* the targets processEvent enqueues to, in order

ASSUME CapacityAssumption == Capacity \in [Targets -> Nat \ {0}]
ASSUME DeliveriesAssumption == Deliveries \subseteq Seq(Targets) /\ <<>> \in Deliveries

VARIABLES
    deliveries,     \* what processEvent has still to enqueue
    outstanding     \* how many events are in the queue of each target

loopVars == <<vars, deliveries, outstanding>>

LoopInit ==
    /\ Init
    /\ deliveries = <<>>
    /\ outstanding = [t \in Targets |-> 0]

-----------------------------------------------------------------------------
(* The event is due: its sources are asked.  Without an answer, after an   *)
(* error and where no route matches there is nothing to enqueue.           *)
BeginProcess ==
    /\ CheckDue
    /\ pc' = "process"
    /\ deliveries' \in Deliveries
    /\ UNCHANGED outstanding

(* An enqueueEvent that waits until all of the event fits.                 *)
EnqueueEventWhole ==
    /\ pc = "process"
    /\ deliveries # <<>>
    /\ LET t == Head(deliveries)
       IN  /\ outstanding[t] + Len(deliveries) <= Capacity[t]
           /\ outstanding' = [outstanding EXCEPT ![t] = @ + 1]
    /\ deliveries' = Tail(deliveries)
    /\ UNCHANGED vars

(* enqueueEvent gets past its wait.                                        *)
EnqueueEvent ==
    /\ pc = "process"
    /\ deliveries # <<>>
    /\ LET t == Head(deliveries)
       IN  /\ outstanding[t] < Capacity[t]
           /\ outstanding' = [outstanding EXCEPT ![t] = @ + 1]
    /\ deliveries' = Tail(deliveries)
    /\ UNCHANGED vars

(* processEvent returns when all is delivered.                             *)
EndProcess ==
    /\ deliveries = <<>>
    /\ Reschedule
    /\ UNCHANGED <<deliveries, outstanding>>

(* The loop between two events.                                            *)
Between ==
    /\ ComputeSleep \/ SelectWakeup \/ SelectTimeout \/ (CheckDue /\ pc' = "top")
    /\ UNCHANGED <<deliveries, outstanding>>

LoopStep == (BeginProcess \/ EndProcess \/ Between) /\ UNCHANGED platform

(* The upload thread is done with one event and takes the next one.        *)
AwaitEvent(t) ==
    /\ outstanding[t] > 0
    /\ outstanding' = [outstanding EXCEPT ![t] = @ - 1]
    /\ UNCHANGED <<vars, deliveries>>

(* What goes on beside the loop, in the middle of processEvent too.        *)
Signal == Kill /\ UNCHANGED <<platform, deliveries, outstanding>>

Clock == Tick /\ UNCHANGED <<platform, deliveries, outstanding>>

SetUp ==
    /\ (\E e \in Events : AddEvent(e)) \/ StartupFails
    /\ UNCHANGED <<platform, deliveries, outstanding>>

EnterLoop == Run /\ UNCHANGED <<platform, deliveries, outstanding>>

LoopNext ==
    \/ SetUp \/ EnterLoop
    \/ LoopStep \/ EnqueueEvent
    \/ Signal \/ Clock
    \/ \E t \in Targets : AwaitEvent(t)

(* The fairness of Scheduler, but for the end of processEvent: that is up  *)
(* to the upload threads, whose requests end since curl has a timeout.     *)
(* That they take what is in the queue is AcceptedIsTaken of EventQLTarget. *)
LoopFairness ==
    /\ WF_loopVars(EnterLoop)
    /\ WF_loopVars(LoopStep)
    /\ WF_loopVars(EnqueueEvent)
    /\ WF_loopVars(Clock)
    /\ \A t \in Targets : WF_loopVars(AwaitEvent(t))

LoopSpec == LoopInit /\ [][LoopNext]_loopVars /\ LoopFairness

-----------------------------------------------------------------------------
(* A full queue makes an event late, and no more than that: as long as the *)
(* requests of every target end, the loop with its targets does what       *)
(* Scheduler says, fairness included.  processEvent returns however much   *)
(* more than a queue holds one event brings, and a signal that arrives     *)
(* while it waits is not lost.                                             *)
SchedulerSpec == FairSpec
================================================================================
