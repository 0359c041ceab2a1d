-------------------------------- MODULE Threads --------------------------------
(***************************************************************************)
(* The threads of one evcollectd process: main, the upload thread of each  *)
(* EventQL target, and the handler of SIGTERM, SIGINT and SIGHUP, which    *)
(* runs on whichever of them the kernel picks and suspends it meanwhile.   *)
(* They share the static pointer `service', the object behind it, and the  *)
(* mutex of the logger that writes to stderr.                              *)
(*                                                                         *)
(* What goes through the queue of a target is the business of module       *)
(* EventQLTarget, the pidfile that of module Daemon.  One handler runs on  *)
(* a thread at a time: one that interrupts another does as it does.  The   *)
(* names are those that Daemon does not use, so that a module can extend   *)
(* both.                                                                   *)
(***************************************************************************)
CONSTANTS
    Targets,        \* the targets of the configuration, and their threads
    MainThread,     \* the thread that runs main
    NoThread        \* no thread

ASSUME MainAssumption == MainThread \notin Targets
ASSUME NoThreadAssumption == NoThread \notin Targets \union {MainThread}

Thread == Targets \union {MainThread}

VARIABLES
    setting,    \* --daemonize; whether there are events; and whether
                \* `if (service) service->kill()' was compiled to read the
                \* pointer once, as g++ does it unless it is given -O0
    main,       \* where main is
    service,    \* whether the pointer is set
    object,     \* the service and its wakeup pipe
    wakeup,     \* whether there is a byte in the pipe
    ignored,    \* whether the signals are ignored
    attached,   \* the targets that were attached and not detached
    stopping,   \* the target whose thread main joins, if it joins one
    thread,     \* where each upload thread is
    queued,     \* the targets that have events to upload
    handler,    \* where the handler is on each thread
    sees,       \* the handlers that have read the pointer as set
    mutex       \* the thread that holds the mutex of the logger

mains == <<setting, main, service, object, ignored, attached, stopping>>
uploads == <<thread, queued>>
handlers == <<handler, sees, wakeup>>
threadVars == <<mains, uploads, handlers, mutex>>

ThreadsInit ==
    /\ setting \in [background : BOOLEAN, merged : BOOLEAN, events : BOOLEAN]
    /\ main = "create"
    /\ service = FALSE
    /\ object = "none"
    /\ wakeup = FALSE
    /\ ignored = FALSE
    /\ attached = {}
    /\ stopping = NoThread
    /\ thread = [t \in Targets |-> "none"]
    /\ queued = {}
    /\ handler = [t \in Thread |-> "none"]
    /\ sees = {}
    /\ mutex = NoThread

-----------------------------------------------------------------------------
(* Logging.  main does not install the logger if it goes into the          *)
(* background, so that the mutex is taken only if it does not.             *)
Stderr == ~setting.background

(* Whoever is at a message and can go on.                                  *)
Messages == {"starting", "error", "fatal", "exiting"}
LogsNow(t) ==
    /\ handler[t] = "none"
    /\ IF t = MainThread THEN main \in Messages ELSE thread[t] = "log"

LockLog(t) ==
    /\ Stderr
    /\ LogsNow(t)
    /\ mutex = NoThread
    /\ mutex' = t
    /\ UNCHANGED <<mains, uploads, handlers>>

(* The message has been written, or there is nobody to write it.           *)
Logged(t) ==
    /\ LogsNow(t)
    /\ Stderr => mutex = t
    /\ mutex' = IF mutex = t THEN NoThread ELSE mutex

-----------------------------------------------------------------------------
(* main.                                                                   *)
At(label) == main = label /\ handler[MainThread] = "none"
MainGoto(label) == main' = label

CreateService ==
    /\ At("create")
    /\ object' = "open"
    /\ service' = TRUE
    /\ MainGoto("setup")
    /\ UNCHANGED <<setting, ignored, attached, stopping, uploads, handlers, mutex>>

(* addTarget starts the thread of the target.                              *)
AttachTarget(t) ==
    /\ At("setup")
    /\ t \notin attached
    /\ attached' = attached \union {t}
    /\ thread' = [thread EXCEPT ![t] = "idle"]
    /\ UNCHANGED <<setting, main, service, object, ignored, stopping, queued, handlers, mutex>>

(* A plugin, an event or a target cannot be set up.                        *)
SetUpFails ==
    /\ At("setup")
    /\ MainGoto("fatal")
    /\ UNCHANGED <<setting, service, object, ignored, attached, stopping,
                   uploads, handlers, mutex>>

(* daemon() forks: of the threads only main goes on, the mutex is copied.  *)
(* The pidfile may still be refused.                                       *)
Fork ==
    /\ At("setup")
    /\ attached = Targets
    /\ MainGoto("starting") \/ MainGoto("fatal")
    /\ IF setting.background
       THEN /\ thread' = [t \in Targets |-> "gone"]
            /\ handler' = [t \in Thread |-> "none"]
            /\ sees' = {}
       ELSE UNCHANGED <<thread, handler, sees>>
    /\ UNCHANGED <<setting, service, object, ignored, attached, stopping,
                   queued, wakeup, mutex>>

Started ==
    /\ At("starting")
    /\ Logged(MainThread)
    /\ MainGoto("run")
    /\ UNCHANGED <<setting, service, object, ignored, attached, stopping, uploads, handlers>>

(* The service emits an event to all targets, or has an error to report.   *)
Emit ==
    /\ At("run")
    /\ setting.events
    /\ queued' = Targets
    /\ UNCHANGED <<mains, thread, handlers, mutex>>

RunReports ==
    /\ At("run")
    /\ setting.events
    /\ MainGoto("error")
    /\ UNCHANGED <<setting, service, object, ignored, attached, stopping,
                   uploads, handlers, mutex>>

RunReported ==
    /\ At("error")
    /\ Logged(MainThread)
    /\ MainGoto("run")
    /\ UNCHANGED <<setting, service, object, ignored, attached, stopping, uploads, handlers>>

(* A byte in the pipe ends run, which never starts when there is no event. *)
RunReturns ==
    /\ At("run")
    /\ wakeup \/ ~setting.events
    /\ MainGoto("exiting")
    /\ UNCHANGED <<setting, service, object, ignored, attached, stopping,
                   uploads, handlers, mutex>>

ReportFatal ==
    /\ At("fatal")
    /\ Logged(MainThread)
    /\ MainGoto("exiting")
    /\ UNCHANGED <<setting, service, object, ignored, attached, stopping, uploads, handlers>>

(* The signals are ignored from here on.                                   *)
IgnoreSignals ==
    /\ At("exiting")
    /\ Logged(MainThread)
    /\ ignored' = TRUE
    /\ MainGoto("reset")
    /\ UNCHANGED <<setting, service, object, attached, stopping, uploads, handlers>>

(* reset clears the pointer before it destroys what it pointed to.         *)
ResetService ==
    /\ At("reset")
    /\ service' = FALSE
    /\ MainGoto("detach")
    /\ UNCHANGED <<setting, object, ignored, attached, stopping, uploads, handlers, mutex>>

(* The destructor detaches the targets one by one.                         *)
DetachTarget(t) ==
    /\ At("detach")
    /\ stopping = NoThread
    /\ t \in attached
    /\ stopping' = t
    /\ UNCHANGED <<setting, main, service, object, ignored, attached, uploads, handlers, mutex>>

(* A detach that does not wait for the thread.                             *)
JoinNot ==
    /\ At("detach")
    /\ stopping # NoThread
    /\ attached' = attached \ {stopping}
    /\ stopping' = NoThread
    /\ UNCHANGED <<setting, main, service, object, ignored, uploads, handlers, mutex>>

(* join returns when the thread has returned, which a handler that runs on *)
(* it delays, or when it is not there after a fork.                        *)
Join ==
    /\ At("detach")
    /\ stopping # NoThread
    /\ thread[stopping] \in {"ended", "gone"}
    /\ attached' = attached \ {stopping}
    /\ stopping' = NoThread
    /\ UNCHANGED <<setting, main, service, object, ignored, uploads, handlers, mutex>>

ClosePipe ==
    /\ At("detach")
    /\ attached = {}
    /\ object' = "closed"
    /\ MainGoto("delete")
    /\ UNCHANGED <<setting, service, ignored, attached, stopping, uploads, handlers, mutex>>

Delete ==
    /\ At("delete")
    /\ object' = "freed"
    /\ MainGoto("exited")
    /\ UNCHANGED <<setting, service, ignored, attached, stopping, uploads, handlers, mutex>>

-----------------------------------------------------------------------------
(* The upload threads.                                                     *)
Runs(t) == handler[t] = "none"

(* An event was taken and uploaded or not; an error is logged.             *)
Upload(t) ==
    /\ Runs(t)
    /\ thread[t] = "idle"
    /\ t \in queued
    /\ thread' = [thread EXCEPT ![t] = "log"] \/ UNCHANGED thread
    /\ queued' = queued \ {t}
    /\ UNCHANGED <<mains, handlers, mutex>>

UploadLogged(t) ==
    /\ thread[t] = "log"
    /\ Logged(t)
    /\ thread' = [thread EXCEPT ![t] = "idle"]
    /\ UNCHANGED <<mains, queued, handlers>>

EndThread(t) ==
    /\ Runs(t)
    /\ thread[t] = "idle"
    /\ stopping = t
    /\ thread' = [thread EXCEPT ![t] = "ended"]
    /\ UNCHANGED <<mains, queued, handlers, mutex>>

-----------------------------------------------------------------------------
(* The handler, shutdown, on thread t.                                     *)
Exists(t) == IF t = MainThread THEN main # "exited" ELSE thread[t] \in {"idle", "log"}

TakeSignal(t) ==
    /\ Exists(t)
    /\ ~ignored
    /\ handler[t] = "none"
    /\ handler' = [handler EXCEPT ![t] = "look"]
    /\ UNCHANGED <<mains, uploads, sees, wakeup, mutex>>

(* if (service)                                                            *)
HandlerLooks(t) ==
    /\ handler[t] = "look"
    /\ IF service
       THEN /\ handler' = [handler EXCEPT ![t] = IF setting.merged THEN "kill" ELSE "again"]
            /\ sees' = sees \union {t}
       ELSE handler' = [handler EXCEPT ![t] = "none"] /\ UNCHANGED sees
    /\ UNCHANGED <<mains, uploads, wakeup, mutex>>

(* The pointer is read once more for the call.                             *)
HandlerLooksAgain(t) ==
    /\ handler[t] = "again"
    /\ handler' = [handler EXCEPT ![t] = "kill"]
    /\ sees' = IF service THEN sees ELSE sees \ {t}
    /\ UNCHANGED <<mains, uploads, wakeup, mutex>>

(* A handler that logs first, on a thread that may be logging.             *)
HandlerLogsAndKills(t) ==
    /\ handler[t] \in {"kill", "log"}
    /\ IF Stderr /\ mutex # NoThread
       THEN handler' = [handler EXCEPT ![t] = "log"] /\ UNCHANGED <<sees, wakeup>>
       ELSE /\ handler' = [handler EXCEPT ![t] = "none"]
            /\ sees' = sees \ {t}
            /\ wakeup' = TRUE
    /\ UNCHANGED <<mains, uploads, mutex>>

(* service->kill() writes a byte to the pipe.                              *)
HandlerKills(t) ==
    /\ handler[t] = "kill"
    /\ handler' = [handler EXCEPT ![t] = "none"]
    /\ sees' = sees \ {t}
    /\ wakeup' = TRUE
    /\ UNCHANGED <<mains, uploads, mutex>>

-----------------------------------------------------------------------------
MainStep ==
    \/ CreateService \/ SetUpFails \/ Fork \/ Started \/ Emit \/ RunReports
    \/ RunReported \/ RunReturns \/ ReportFatal \/ IgnoreSignals \/ ResetService \/ Join
    \/ ClosePipe \/ Delete
    \/ \E t \in Targets : AttachTarget(t) \/ DetachTarget(t)

HandlerStep(t) == HandlerLooks(t) \/ HandlerLooksAgain(t) \/ HandlerKills(t)

ThreadsNext ==
    \/ MainStep
    \/ \E t \in Targets : Upload(t) \/ UploadLogged(t) \/ EndThread(t)
    \/ \E t \in Thread : LockLog(t) \/ TakeSignal(t) \/ HandlerStep(t)

ThreadsSpec == ThreadsInit /\ [][ThreadsNext]_threadVars

-----------------------------------------------------------------------------
Labels == {"create", "setup", "run", "reset", "detach", "delete", "exited"} \union Messages

(* Every variable has its type.                                            *)
ThreadsTypeOK ==
    /\ setting \in [background : BOOLEAN, merged : BOOLEAN, events : BOOLEAN]
    /\ main \in Labels
    /\ service \in BOOLEAN
    /\ object \in {"none", "open", "closed", "freed"}
    /\ wakeup \in BOOLEAN
    /\ ignored \in BOOLEAN
    /\ attached \subseteq Targets
    /\ stopping \in Targets \union {NoThread}
    /\ thread \in [Targets -> {"none", "idle", "log", "ended", "gone"}]
    /\ queued \subseteq Targets
    /\ handler \in [Thread -> {"none", "look", "again", "kill"}]
    /\ sees \subseteq Thread
    /\ mutex \in Thread \union {NoThread}

(* A handler that is about to call kill, on whichever thread it runs,      *)
(* never calls it on a service that is being destroyed or whose pipe is    *)
(* closed, because main waits for the other threads first.  That it has a  *)
(* service at all is so only in a build that reads the pointer once: if it *)
(* is read again for the call, main may have cleared it meanwhile.         *)
HandlerFindsService ==
    \A t \in Thread : handler[t] = "kill" =>
        /\ object = "open"
        /\ setting.merged => t \in sees

(* Whoever holds the mutex of the logger will let go of it: it has not     *)
(* vanished in a fork, and it is not suspended by a handler that waits for *)
(* the mutex itself.                                                       *)
LoggerNeverStuck ==
    mutex # NoThread =>
        /\ mutex = MainThread \/ thread[mutex] = "log"
        /\ handler[mutex] # "log"
================================================================================
