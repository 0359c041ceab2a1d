------------------------------ MODULE Scheduler ------------------------------
(***************************************************************************)
(* The scheduling loop of the service (ServiceImpl::run in service.cc):    *)
(* a multiset of event bindings ordered by next_tick, a select that sleeps *)
(* until the first of them is due or a byte arrives in the wakeup pipe,    *)
(* and the signal handler that writes that byte.                           *)
(*                                                                         *)
(* Time is relative: due[e] is next_tick of e minus the monotonic clock,   *)
(* so a tick of the clock decrements it everywhere.  next_tick - now is    *)
(* computed in unsigned arithmetic: Modulus stands for 2^64 microseconds.  *)
(* A timeout above SelectMax is what select is not asked for in earnest:   *)
(* Darwin rejects it with EINVAL, Linux sleeps as good as for ever.        *)
(***************************************************************************)
EXTENDS Integers, Sequences, FiniteSets

CONSTANTS
    Events,             \* the event definitions of the configuration
    Interval,           \* interval_micros of each
    Modulus,            \* the modulus of uint64_t arithmetic
    SelectMax,          \* the longest timeout that select takes at its word
    Platforms,          \* where the daemon may run: "linux", "darwin"
    MaxLate             \* bound: the clock stops when an event is this late

ASSUME EventsAssumption == IsFiniteSet(Events)
ASSUME IntervalAssumption == Interval \in [Events -> Nat]
ASSUME MaxLateAssumption == MaxLate \in Nat
ASSUME ModulusAssumption ==
    /\ Modulus \in Nat /\ SelectMax \in Nat
    /\ \A e \in Events : Interval[e] <= SelectMax
    /\ SelectMax + MaxLate < Modulus
ASSUME PlatformsAssumption == Platforms \subseteq {"linux", "darwin"}

VARIABLES
    platform,   \* the one this process runs on
    due,        \* next_tick of each event, relative to the clock
    queue,      \* queue_, in the order of its iterator
    pc,         \* where run is
    job,        \* the local variable job: <<>> or <<event>>
    sleep,      \* what is left of the timeout given to select
    pipe,       \* whether the wakeup pipe holds a byte
    killed,     \* ghost: whether kill was called
    bypass,     \* ghost: events processed since this one became due
    late        \* ghost: events processed since kill was called, up to 2

vars == <<platform, due, queue, pc, job, sleep, pipe, killed, bypass, late>>

Pc == {"setup", "top", "select", "woke", "process", "stopped"}

Queued == {queue[i] : i \in 1..Len(queue)}

Init ==
    /\ platform \in Platforms
    /\ due = [e \in Events |-> 0]
    /\ queue = <<>>
    /\ pc = "setup"
    /\ job = <<>>
    /\ sleep = 0
    /\ pipe = FALSE
    /\ killed = FALSE
    /\ bypass = [e \in Events |-> 0]
    /\ late = 0

(* multiset::insert before the elements with an equal key.                 *)
InsertBeforeEqual(q, e, tick) ==
    LET k == Cardinality({i \in 1..Len(q) : tick[q[i]] < tick[e]})
    IN  SubSeq(q, 1, k) \o <<e>> \o SubSeq(q, k + 1, Len(q))

(* multiset::insert: behind the elements with an equal key.                *)
Insert(q, e, tick) ==
    LET k == Cardinality({i \in 1..Len(q) : tick[q[i]] <= tick[e]})
    IN  SubSeq(q, 1, k) \o <<e>> \o SubSeq(q, k + 1, Len(q))

-----------------------------------------------------------------------------
(* addEvent, for the events of the configuration in any order.             *)
AddEvent(e) ==
    /\ pc = "setup"
    /\ e \notin Queued
    /\ due' = [due EXCEPT ![e] = Interval[e]]
    /\ queue' = Insert(queue, e, due')
    /\ UNCHANGED <<pc, job, sleep, pipe, killed, bypass, late>>

(* run returns at once if there is nothing to schedule.                    *)
Run ==
    /\ pc = "setup"
    /\ pc' = IF queue = <<>> THEN "stopped" ELSE "top"
    /\ UNCHANGED <<due, queue, job, sleep, pipe, killed, bypass, late>>

(* A step of the start-up failed: main does not call run.                  *)
StartupFails ==
    /\ pc = "setup"
    /\ pc' = "stopped"
    /\ UNCHANGED <<due, queue, job, sleep, pipe, killed, bypass, late>>

(* The top of the loop: pick the first job and compute the timeout.        *)
ComputeSleep ==
    /\ pc = "top"
    /\ job' = <<Head(queue)>>
    /\ sleep' = due[Head(queue)] % Modulus
    /\ pc' = "select"
    /\ UNCHANGED <<due, queue, pipe, killed, bypass, late>>

(* select returns a readable pipe: run returns.                            *)
SelectWakeup ==
    /\ pc = "select"
    /\ pipe
    /\ pc' = "stopped"
    /\ UNCHANGED <<due, queue, job, sleep, pipe, killed, bypass, late>>

(* A timeout that is taken without a look at the pipe.                     *)
SelectTimeoutFirst ==
    /\ pc = "select"
    /\ sleep = 0
    /\ pc' = "woke"
    /\ UNCHANGED <<due, queue, job, sleep, pipe, killed, bypass, late>>

(* select returns 0 after the timeout, or -1 with EINVAL.                  *)
SelectTimeout ==
    /\ pc = "select"
    /\ \/ sleep = 0 /\ ~pipe
       \/ sleep > SelectMax /\ platform = "darwin"
    /\ pc' = "woke"
    /\ UNCHANGED <<due, queue, job, sleep, pipe, killed, bypass, late>>

(* An interrupted select taken for one that timed out.                     *)
CheckDueNot ==
    /\ pc = "woke"
    /\ pc' = "process"
    /\ UNCHANGED <<due, queue, job, sleep, pipe, killed, bypass, late>>

(* After select: continue if the job is not due yet.                       *)
CheckDue ==
    /\ pc = "woke"
    /\ pc' = IF due[job[1]] > 0 THEN "top" ELSE "process"
    /\ UNCHANGED <<due, queue, job, sleep, pipe, killed, bypass, late>>

(* next_tick = next_tick + interval, but not before now.                   *)
NextDue(e) ==
    LET next == due[e] + Interval[e] IN IF next < 0 THEN 0 ELSE next

Account ==
    /\ bypass' = [e \in Events |->
                    IF e \in Queued /\ e # job[1] /\ due[e] <= 0
                    THEN bypass[e] + 1 ELSE 0]
    /\ late' = IF killed /\ late < 2 THEN late + 1 ELSE late

(* A binding whose tick is moved while it stays where it is in the queue.   *)
RescheduleInPlace ==
    /\ pc = "process"
    /\ due' = [due EXCEPT ![job[1]] = NextDue(job[1])]
    /\ Account
    /\ pc' = "top"
    /\ UNCHANGED <<queue, job, sleep, pipe, killed>>

(* A binding that is not inserted again when it overran its interval.      *)
RescheduleUnlessLate ==
    /\ pc = "process"
    /\ due' = [due EXCEPT ![job[1]] = NextDue(job[1])]
    /\ queue' = IF due[job[1]] + Interval[job[1]] < 0 /\ Len(queue) > 1
                THEN Tail(queue) ELSE Insert(Tail(queue), job[1], due')
    /\ Account
    /\ pc' = "top"
    /\ UNCHANGED <<job, sleep, pipe, killed>>

(* processEvent has returned, with or without an error, which is logged:   *)
(* erase the first element, move the tick of the job and insert it again.  *)
Reschedule ==
    /\ pc = "process"
    /\ due' = [due EXCEPT ![job[1]] = NextDue(job[1])]
    /\ queue' = Insert(Tail(queue), job[1], due')
    /\ Account
    /\ pc' = "top"
    /\ UNCHANGED <<job, sleep, pipe, killed>>

-----------------------------------------------------------------------------
(* A signal that is only seen by a select it interrupts.                   *)
KillInterruptOnly ==
    /\ pc # "stopped"
    /\ ~killed
    /\ killed' = TRUE
    /\ pipe' = (pc = "select")
    /\ pc' = IF pc = "select" THEN "woke" ELSE pc
    /\ UNCHANGED <<due, queue, job, sleep, bypass, late>>

(* SIGTERM: the handler calls kill, which writes a byte to the pipe.  If   *)
(* the service thread runs the handler while it is in select, select       *)
(* returns EINTR; another thread of the process may run it as well.        *)
Kill ==
    /\ pc # "stopped"
    /\ ~killed
    /\ killed' = TRUE
    /\ pipe' = TRUE
    /\ pc' \in {pc} \union (IF pc = "select" THEN {"woke"} ELSE {})
    /\ UNCHANGED <<due, queue, job, sleep, bypass, late>>

(* The clock advances.  A sleep in select runs down with it.               *)
Tick ==
    /\ pc # "stopped"
    /\ \A e \in Queued : due[e] > -MaxLate
    /\ due' = [e \in Events |-> IF e \in Queued THEN due[e] - 1 ELSE due[e]]
    /\ sleep' = IF pc = "select" /\ sleep > 0 THEN sleep - 1 ELSE sleep
    /\ UNCHANGED <<queue, pc, job, pipe, killed, bypass, late>>

Loop == ComputeSleep \/ SelectWakeup \/ SelectTimeout \/ CheckDue \/ Reschedule

Step ==
    \/ \E e \in Events : AddEvent(e)
    \/ Run
    \/ StartupFails
    \/ Loop
    \/ Kill
    \/ Tick

Next == Step /\ UNCHANGED platform

(* The service thread runs whenever it can, processEvent returns, and time *)
(* passes.  Nothing obliges anyone to send a signal.                       *)
Fairness ==
    /\ WF_vars(Run /\ UNCHANGED platform)
    /\ WF_vars(Loop /\ UNCHANGED platform)
    /\ WF_vars(Tick /\ UNCHANGED platform)

Spec == Init /\ [][Next]_vars

FairSpec == Spec /\ Fairness

-----------------------------------------------------------------------------
(* Every variable has its type.                                            *)
TypeOK ==
    /\ platform \in Platforms
    /\ due \in [Events -> Int]
    /\ queue \in Seq(Events)
    /\ pc \in Pc
    /\ job \in {<<>>} \union {<<e>> : e \in Events}
    /\ sleep \in 0..(Modulus - 1)
    /\ pipe \in BOOLEAN
    /\ killed \in BOOLEAN
    /\ bypass \in [Events -> Nat]
    /\ late \in 0..2

(* The queue holds every event that was added exactly once, in the order   *)
(* of the ticks: run changes next_tick only while the event is outside,    *)
(* and what it erases with begin() is the job it has processed.            *)
QueueIsSchedule ==
    /\ \A i, j \in 1..Len(queue) : i < j => queue[i] # queue[j]
    /\ \A i, j \in 1..Len(queue) : i < j => due[queue[i]] <= due[queue[j]]
    /\ pc \in {"select", "woke", "process"} =>
          queue # <<>> /\ job = <<Head(queue)>>

(* No event is processed before its tick, whatever ended the select: the   *)
(* timeout, a signal or an error.                                          *)
NeverEarly == pc = "process" => due[job[1]] <= 0

(* While an event is due, each other event is processed at most once: a    *)
(* job that overran is queued behind everything that is due already, so no *)
(* event is starved by another one that always takes too long.             *)
BoundedBypass == \A e \in Events : bypass[e] < Cardinality(Events)

(* Where select takes any timeout, kill makes run return after the event   *)
(* at hand at most, wherever the signal hits it: the byte in the pipe      *)
(* outlives the moment between the check and the sleep.  (Darwin rejects   *)
(* the timeout of an overdue event before it looks at the pipe.)           *)
StopsPromptly == platform = "linux" => late <= 1
KillStopsRun == (platform = "linux" /\ killed) ~> pc = "stopped"

(* Where select rejects the timeout of an overdue event, every event is    *)
(* processed again and again until the service stops.                      *)
Again(e) == []<>(pc = "stopped" \/ (pc = "process" /\ job = <<e>>))

ProcessedAgain ==
    \A e \in Events : (platform = "darwin" /\ e \in Queued) ~> Again(e)

(* What README.md:60 says of an event with an interval, on any platform:   *)
(* it is emitted again and again.  After an overrun run says itself        *)
(* (service.cc:348) that it is `skipping samples', no more than that.      *)
EmittedAgain == \A e \in Events : e \in Queued ~> Again(e)
==============================================================================
