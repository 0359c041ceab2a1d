---------------------------- MODULE EventQLTarget ----------------------------
(***************************************************************************)
(* The EventQL output plugin (plugins/eventql/eventql_plugin.cc): one      *)
(* target, the thread of the service that emits events into its bounded    *)
(* queue and the upload thread that drains the queue into HTTP requests.   *)
(*                                                                         *)
(* Both threads share one std::mutex and one condition variable.  The      *)
(* mutex is explicit, because the process may fork while the upload thread *)
(* holds it (evcollectd --daemonize forks after the targets were attached).*)
(* A thread in `waiting' sleeps inside cv_.wait: notify_all empties the    *)
(* set, a spurious wake-up removes one thread.                             *)
(*                                                                         *)
(* thread_shutdown_ is a plain bool that stopUploadThread writes without   *)
(* the mutex.  A store that becomes visible late is an execution in which  *)
(* StopFlag is taken late, so the interleaving of StopFlag with the upload *)
(* thread covers what the race can produce.                                *)
(***************************************************************************)
EXTENDS Integers, Sequences

CONSTANTS
    EventNames,         \* names of the events the service may emit
    Routes,             \* routes_: a sequence of [match, target]
    BadTarget,          \* a target that does not split into database/table
    QueueMax,           \* queue_max_length_
    HttpTimeoutMicros,  \* http_timeout_
    Daemonize,          \* whether the process forks after the attach
    MaxEmits            \* bound on the events emitted in a behaviour

ASSUME RoutesAssumption ==
    Routes \in Seq([match : STRING, target : STRING])
ASSUME QueueMaxAssumption == QueueMax \in Nat
ASSUME MaxEmitsAssumption == MaxEmits \in Nat
ASSUME TimeoutAssumption == HttpTimeoutMicros \in Nat
ASSUME DaemonizeAssumption == Daemonize \in BOOLEAN

VARIABLES
    mutex,      \* mutex_: "free" or the thread that holds it
    waiting,    \* the threads asleep in cv_.wait
    queue,      \* queue_
    running,    \* thread_running_
    shutdown,   \* thread_shutdown_
    mpc,        \* where the service thread is
    call,       \* the emitEvent call in progress: event name, route index
    upc,        \* where the upload thread is
    uploading,  \* the event uploadEvent was called with
    emitted,    \* ghost: the names emitted so far
    accepted,   \* ghost: the events enqueued so far
    taken,      \* ghost: the events dequeued so far
    stored      \* ghost: the events the server has stored, in order

shared == <<mutex, waiting, queue>>
service == <<running, shutdown, mpc, call, emitted>>
upload == <<upc, uploading>>
vars == <<mutex, waiting, queue, running, shutdown, mpc, call, upc, uploading,
          emitted, accepted, taken, stored>>

Threads == {"main", "upload"}

(* An enqueued event: the emission it belongs to (standing for its data)   *)
(* and the route it was enqueued for (standing for database and table).    *)
EnqueuedEvent == [id : 1..MaxEmits, route : 1..Len(Routes)]

NoCall == [name |-> "none", route |-> 0]

MainPc == {"init", "failed", "attached", "idle", "route", "lock", "enqueue",
           "wait", "stop_notify", "stop_join", "deleted"}
UploadPc == {"none", "check_lock", "check", "await_lock", "await", "wait",
             "woken", "upload", "done", "absent"}

InEmit == {"route", "lock", "enqueue", "wait"}
Stopping == {"stop_notify", "stop_join", "deleted"}

(* curl takes the timeout in milliseconds, and 0 means no timeout at all.  *)
HttpTimeoutMillisRoundedToSeconds == (HttpTimeoutMicros \div 1000000) * 1000
HttpTimeoutMillis == HttpTimeoutMicros \div 1000

Init ==
    /\ mutex = "free"
    /\ waiting = {}
    /\ queue = <<>>
    /\ running = FALSE
    /\ shutdown \in BOOLEAN        \* the constructor does not initialise it
    /\ mpc = "init"
    /\ call = NoCall
    /\ upc = "none"
    /\ uploading = <<>>
    /\ emitted = <<>>
    /\ accepted = <<>>
    /\ taken = <<>>
    /\ stored = <<>>

-----------------------------------------------------------------------------
(* The service thread: attach, the fork of daemonize, and emitEvent.       *)

(* pluginAttach with a valid configuration, which ends in startUploadThread. *)
PluginAttach ==
    /\ mpc = "init"
    /\ running' = TRUE
    /\ shutdown' = FALSE
    /\ upc' = "check_lock"
    /\ mpc' = "attached"
    /\ UNCHANGED <<shared, call, uploading, emitted, accepted, taken, stored>>

(* pluginAttach with an invalid option: the target is freed unstarted.     *)
PluginAttachFails ==
    /\ mpc = "init"
    /\ mpc' = "failed"
    /\ UNCHANGED <<shared, running, shutdown, call, upload, emitted, accepted,
                   taken, stored>>

(* daemon() between addTarget and run: only the calling thread survives in *)
(* the child, with the memory as it was, the mutex included.               *)
StartService ==
    /\ mpc = "attached"
    /\ mpc' = "idle"
    /\ upc' = IF Daemonize THEN "absent" ELSE upc
    /\ UNCHANGED <<shared, running, shutdown, call, uploading, emitted,
                   accepted, taken, stored>>

PluginEmitEvent(name) ==
    /\ mpc = "idle"
    /\ Len(emitted) < MaxEmits
    /\ emitted' = Append(emitted, name)
    /\ call' = [name |-> name, route |-> 1]
    /\ mpc' = "route"
    /\ UNCHANGED <<shared, running, shutdown, upload, accepted, taken, stored>>

NextRoute == [name |-> call.name, route |-> call.route + 1]
MoreRoutes == call.route <= Len(Routes)
RouteMatches == Routes[call.route].match = call.name
RouteValid == Routes[call.route].target # BadTarget

SkipRoute ==
    /\ mpc = "route" /\ MoreRoutes /\ ~RouteMatches
    /\ call' = NextRoute
    /\ UNCHANGED <<shared, running, shutdown, mpc, upload, emitted, accepted,
                   taken, stored>>

TakeRoute ==
    /\ mpc = "route" /\ MoreRoutes /\ RouteMatches /\ RouteValid
    /\ mpc' = "lock"
    /\ UNCHANGED <<shared, running, shutdown, call, upload, emitted, accepted,
                   taken, stored>>

(* Success after the last route, EINVAL at a target that is not valid.     *)
EmitReturn ==
    /\ mpc = "route"
    /\ MoreRoutes => RouteMatches /\ ~RouteValid
    /\ mpc' = "idle"
    /\ call' = NoCall
    /\ UNCHANGED <<shared, running, shutdown, upload, emitted, accepted, taken,
                   stored>>

-----------------------------------------------------------------------------
(* The service thread in enqueueEvent.                                     *)

EnqueueLock ==
    /\ mpc = "lock" \/ (mpc = "wait" /\ "main" \notin waiting)
    /\ mutex = "free"
    /\ mutex' = "main"
    /\ mpc' = "enqueue"
    /\ UNCHANGED <<waiting, queue, running, shutdown, call, upload, emitted,
                   accepted, taken, stored>>

EnqueueWait ==
    /\ mpc = "enqueue"
    /\ Len(queue) >= QueueMax
    /\ waiting' = waiting \union {"main"}
    /\ mutex' = "free"
    /\ mpc' = "wait"
    /\ UNCHANGED <<queue, running, shutdown, call, upload, emitted, accepted,
                   taken, stored>>

(* The wake-up of the upload thread forgotten after the push.              *)
EnqueuePushSilent ==
    /\ mpc = "enqueue"
    /\ Len(queue) < QueueMax
    /\ LET event == [id |-> Len(emitted), route |-> call.route]
       IN  /\ queue' = Append(queue, event)
           /\ accepted' = Append(accepted, event)
    /\ mutex' = "free"
    /\ call' = NextRoute
    /\ mpc' = "route"
    /\ UNCHANGED <<waiting, running, shutdown, upload, emitted, taken, stored>>

(* A push that leaves the loop over the routes after the first match.      *)
EnqueuePushAndReturn ==
    /\ mpc = "enqueue"
    /\ Len(queue) < QueueMax
    /\ LET event == [id |-> Len(emitted), route |-> call.route]
       IN  /\ queue' = Append(queue, event)
           /\ accepted' = Append(accepted, event)
    /\ waiting' = {}
    /\ mutex' = "free"
    /\ call' = NoCall
    /\ mpc' = "idle"
    /\ UNCHANGED <<running, shutdown, upload, emitted, taken, stored>>

EnqueuePush ==
    /\ mpc = "enqueue"
    /\ Len(queue) < QueueMax
    /\ LET event == [id |-> Len(emitted), route |-> call.route]
       IN  /\ queue' = Append(queue, event)
           /\ accepted' = Append(accepted, event)
    /\ waiting' = {}
    /\ mutex' = "free"
    /\ call' = NextRoute
    /\ mpc' = "route"
    /\ UNCHANGED <<running, shutdown, upload, emitted, taken, stored>>

-----------------------------------------------------------------------------
(* The service thread in pluginDetach: stopUploadThread, then delete.  It  *)
(* is called by the destructor of the service, after run returned or after *)
(* a step of the start-up failed.                                          *)

StopFlag ==
    /\ mpc \in {"attached", "idle"}
    /\ running
    /\ shutdown' = TRUE
    /\ mpc' = "stop_notify"
    /\ UNCHANGED <<shared, running, call, upload, emitted, accepted, taken,
                   stored>>

StopNotify ==
    /\ mpc = "stop_notify"
    /\ waiting' = {}
    /\ mpc' = "stop_join"
    /\ UNCHANGED <<mutex, queue, running, shutdown, call, upload, emitted,
                   accepted, taken, stored>>

(* The target deleted without joining the thread that still uses it.       *)
StopWithoutJoin ==
    /\ mpc = "stop_join"
    /\ running' = FALSE
    /\ mpc' = "deleted"
    /\ UNCHANGED <<shared, shutdown, call, upload, emitted, accepted, taken,
                   stored>>

(* join returns once the thread function has returned; in a forked child   *)
(* the thread does not exist and its end is never announced.  The events   *)
(* still in the queue are destroyed with it.                               *)
StopJoin ==
    /\ mpc = "stop_join"
    /\ upc = "done"
    /\ running' = FALSE
    /\ mpc' = "deleted"
    /\ UNCHANGED <<shared, shutdown, call, upload, emitted, accepted, taken,
                   stored>>

-----------------------------------------------------------------------------
(* The upload thread.                                                      *)

UploadCheckLock ==
    /\ upc = "check_lock"
    /\ mutex = "free"
    /\ mutex' = "upload"
    /\ upc' = "check"
    /\ UNCHANGED <<waiting, queue, service, uploading, accepted, taken, stored>>

UploadCheck ==
    /\ upc = "check"
    /\ mutex' = "free"
    /\ upc' = IF shutdown THEN "done" ELSE "await_lock"
    /\ UNCHANGED <<waiting, queue, service, uploading, accepted, taken, stored>>

AwaitLock ==
    /\ \/ upc = "await_lock" /\ upc' = "await"
       \/ upc = "wait" /\ "upload" \notin waiting /\ upc' = "woken"
    /\ mutex = "free"
    /\ mutex' = "upload"
    /\ UNCHANGED <<waiting, queue, service, uploading, accepted, taken, stored>>

AwaitWait ==
    /\ upc = "await"
    /\ queue = <<>>
    /\ waiting' = waiting \union {"upload"}
    /\ mutex' = "free"
    /\ upc' = "wait"
    /\ UNCHANGED <<queue, service, uploading, accepted, taken, stored>>

(* awaitEvent waits once: it returns false if the queue is still empty.    *)
AwaitNothing ==
    /\ upc = "woken"
    /\ queue = <<>>
    /\ mutex' = "free"
    /\ upc' = "check_lock"
    /\ UNCHANGED <<waiting, queue, service, uploading, accepted, taken, stored>>

(* The wake-up of the service thread forgotten after the pop.              *)
AwaitTakeSilent ==
    /\ upc \in {"await", "woken"}
    /\ queue # <<>>
    /\ uploading' = <<Head(queue)>>
    /\ taken' = Append(taken, Head(queue))
    /\ queue' = Tail(queue)
    /\ mutex' = "free"
    /\ upc' = "upload"
    /\ UNCHANGED <<waiting, service, accepted, stored>>

(* The newest event taken instead of the oldest one.                       *)
AwaitTakeNewest ==
    /\ upc \in {"await", "woken"}
    /\ queue # <<>>
    /\ uploading' = <<queue[Len(queue)]>>
    /\ taken' = Append(taken, queue[Len(queue)])
    /\ queue' = SubSeq(queue, 1, Len(queue) - 1)
    /\ waiting' = {}
    /\ mutex' = "free"
    /\ upc' = "upload"
    /\ UNCHANGED <<service, accepted, stored>>

AwaitTake ==
    /\ upc \in {"await", "woken"}
    /\ queue # <<>>
    /\ uploading' = <<Head(queue)>>
    /\ taken' = Append(taken, Head(queue))
    /\ queue' = Tail(queue)
    /\ waiting' = {}
    /\ mutex' = "free"
    /\ upc' = "upload"
    /\ UNCHANGED <<service, accepted, stored>>

(* A failed request tried again, although the server may have stored it.   *)
UploadEventRetry ==
    /\ upc = "upload"
    /\ stored' \in {stored, stored \o uploading}
    /\ \/ upc' = "check_lock" /\ uploading' = <<>>
       \/ upc' = "upload" /\ uploading' = uploading
    /\ UNCHANGED <<shared, service, accepted, taken>>

(* The request ends: 201 and stored, refused and not stored, or failed     *)
(* after the server did or did not store the event.  An error is logged.   *)
UploadEvent ==
    /\ upc = "upload"
    /\ stored' \in {stored, stored \o uploading}
    /\ uploading' = <<>>
    /\ upc' = "check_lock"
    /\ UNCHANGED <<shared, service, accepted, taken>>

(* cv_.wait may return without a notification.                             *)
SpuriousWake(t) ==
    /\ t \in waiting
    /\ waiting' = waiting \ {t}
    /\ UNCHANGED <<mutex, queue, service, upload, accepted, taken, stored>>

-----------------------------------------------------------------------------
Attach == PluginAttach \/ PluginAttachFails \/ StartService
Route == SkipRoute \/ TakeRoute \/ EmitReturn
Enqueue == EnqueueWait \/ EnqueuePush
Stop == StopFlag \/ StopNotify \/ StopJoin
AwaitStep == UploadCheck \/ AwaitWait \/ AwaitNothing \/ AwaitTake

Next ==
    \/ Attach
    \/ \E name \in EventNames : PluginEmitEvent(name)
    \/ Route
    \/ EnqueueLock
    \/ Enqueue
    \/ Stop
    \/ UploadCheckLock
    \/ AwaitLock
    \/ AwaitStep
    \/ UploadEvent
    \/ \E t \in Threads : SpuriousWake(t)

(* A thread that can run does run.  A thread that keeps asking for the     *)
(* mutex gets it (SF: spurious wake-ups of the other thread may take it    *)
(* away again and again).  A request ends if curl was given a timeout.     *)
(* Nothing obliges the service to emit, to stop or to be woken spuriously. *)
Fairness ==
    /\ WF_vars(Route)
    /\ WF_vars(Enqueue)
    /\ WF_vars(StopNotify \/ StopJoin)
    /\ SF_vars(EnqueueLock)
    /\ SF_vars(UploadCheckLock)
    /\ SF_vars(AwaitLock)
    /\ WF_vars(AwaitStep)
    /\ IF HttpTimeoutMillis > 0 THEN WF_vars(UploadEvent) ELSE TRUE

Spec == Init /\ [][Next]_vars

FairSpec == Spec /\ Fairness

-----------------------------------------------------------------------------
(* Every variable has its type.                                            *)
TypeOK ==
    /\ mutex \in {"free"} \union Threads
    /\ waiting \subseteq Threads
    /\ queue \in Seq(EnqueuedEvent)
    /\ running \in BOOLEAN
    /\ shutdown \in BOOLEAN
    /\ mpc \in MainPc
    /\ call \in [name : EventNames \union {"none"}, route : Nat]
    /\ upc \in UploadPc
    /\ uploading \in Seq(EnqueuedEvent)
    /\ emitted \in Seq(EventNames)
    /\ accepted \in Seq(EnqueuedEvent)
    /\ taken \in Seq(EnqueuedEvent)
    /\ stored \in Seq(EnqueuedEvent)

(* The mutex is held exactly by the thread inside a critical section; in a *)
(* forked child it may belong to an upload thread that no longer exists.   *)
LockHeld ==
    /\ (mutex = "main") <=> (mpc = "enqueue")
    /\ upc # "absent" =>
          ((mutex = "upload") <=> (upc \in {"check", "await", "woken"}))

(* There is an upload thread exactly after a successful attach.            *)
ThreadStarted == (mpc \in {"init", "failed"}) <=> (upc = "none")

(* While emitEvent is at work on a route, the event and the route exist.   *)
CallInRange ==
    /\ mpc \in InEmit => Len(emitted) > 0
    /\ mpc \in InEmit => call.route \in 1..(Len(Routes) + 1)
    /\ mpc \in {"lock", "enqueue", "wait"} => call.route \in 1..Len(Routes)
    /\ Len(emitted) <= MaxEmits

(* The while loop of enqueueEvent keeps the queue within queue_maxlen,     *)
(* whatever wakes the service thread up.                                   *)
QueueBounded == Len(queue) <= QueueMax

(* A thread that sleeps in cv_.wait without a notification on its way has  *)
(* nothing to do: the service thread sleeps only while the queue is full,  *)
(* the upload thread only while it is empty.  Both use one condition       *)
(* variable, so a push or a pop that did not notify would strand the other.*)
NoLostWakeup ==
    /\ "main" \in waiting => mpc = "wait" /\ Len(queue) >= QueueMax
    /\ "upload" \in waiting => upc \in {"wait", "absent"} /\ queue = <<>>

(* emitEvent enqueues an event once for every route that matches its name  *)
(* and comes before the first matching route with an invalid target, and   *)
(* nothing else, however the calls interleave with the upload thread.      *)
Delivered(name) ==
    {r \in 1..Len(Routes) :
        /\ Routes[r].match = name
        /\ \A q \in 1..r : Routes[q].match = name => Routes[q].target # BadTarget}

RouteComplete ==
    mpc \notin InEmit =>
        /\ {accepted[n] : n \in 1..Len(accepted)} =
              UNION {{[id |-> k, route |-> r] : r \in Delivered(emitted[k])} :
                        k \in 1..Len(emitted)}
        /\ \A m, n \in 1..Len(accepted) : accepted[m] = accepted[n] => m = n

(* The server never stores an event twice or out of order: a request that  *)
(* failed, perhaps after the server stored the event, is not repeated.     *)
Precedes(e, f) == e.id < f.id \/ (e.id = f.id /\ e.route < f.route)

StoredInOrder ==
    \A m, n \in 1..Len(stored) : m < n => Precedes(stored[m], stored[n])

(* Once pluginDetach has deleted the target, the upload thread is gone: it *)
(* neither holds nor waits for the mutex that was destroyed.               *)
NoUseAfterDelete ==
    mpc = "deleted" => upc = "done" /\ mutex = "free" /\ waiting = {}

(* The queue of the target is a bounded FIFO: an event is accepted only    *)
(* while fewer than queue_maxlen are outstanding, and the upload thread    *)
(* gets every accepted event once, oldest first.                           *)
Fifo == INSTANCE BoundedFifo WITH
            Item <- EnqueuedEvent, Capacity <- QueueMax

FifoSpec == Fifo!Spec

(* What was accepted is what was taken followed by what is queued.         *)
QueueIsSuffix == accepted = taken \o queue

(* The inductive invariant behind the theorems of EventQLTargetProofs.     *)
IndInv ==
    /\ TypeOK
    /\ ThreadStarted
    /\ CallInRange
    /\ LockHeld
    /\ QueueBounded
    /\ NoLostWakeup
    /\ NoUseAfterDelete
    /\ QueueIsSuffix

(* A call of emitEvent returns, however full the queue is: back-pressure   *)
(* never turns into a deadlock of the service with the upload thread.      *)
EmitReturns == mpc \in InEmit ~> mpc = "idle"

(* Every event that was accepted is handed to an HTTP request, unless the  *)
(* target is detached first.                                               *)
AcceptedIsTaken ==
    \A n \in 1..(MaxEmits * Len(Routes)) :
        Len(accepted) >= n ~> (Len(taken) >= n \/ mpc \in Stopping)

(* What evcollectd.cc:299-311 relies on: the destruction of the service,   *)
(* which joins the upload thread, returns, and the pidfile is unlocked.    *)
DetachReturns == mpc = "stop_notify" ~> mpc = "deleted"

(* What README.md:62 says: every emitted event is sent.  Here: once events  *)
(* were accepted, the first is handed to a request or the target detached. *)
AcceptedIsSent == accepted # <<>> ~> (taken # <<>> \/ mpc \in Stopping)
==============================================================================
