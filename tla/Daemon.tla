-------------------------------- MODULE Daemon --------------------------------
(***************************************************************************)
(* The life of evcollectd processes on one machine (main in evcollectd.cc) *)
(* that are started with the same --pidfile: setting up the service, going *)
(* into the background, the pidfile with its lock, the signals, and the    *)
(* order in which all of it is undone.                                     *)
(*                                                                         *)
(* A process opens the pidfile once at most, so the file it would create   *)
(* is named after it.  open, flock, ftruncate, write, unlink and close are *)
(* steps of their own: other processes run in between.                     *)
(***************************************************************************)
EXTENDS Integers, FiniteSets

CONSTANTS
    Procs,          \* the processes that are ever started
    Options,        \* what each of them may be started with
    None            \* no file, no process, no pid

Option == [daemonize : BOOLEAN, pidfile : BOOLEAN, events : BOOLEAN, targets : BOOLEAN]

ASSUME OptionsAssumption == Options \in [Procs -> SUBSET Option]
ASSUME NoneAssumption == None \notin Procs

VARIABLES
    options,    \* the flags of each process, and whether it has any events
                \* and any EventQL targets
    pc,         \* where main is
    forked,     \* whether it is in the background
    fd,         \* pidfile_fd, as the file it is open on
    stuck,      \* whether main waits for an upload thread for ever
    pipe,       \* whether the wakeup pipe of the service holds a byte
    path,       \* the file at the path of the pidfile
    content,    \* what is in each file
    lock,       \* the process that has each file locked
    signalled,  \* ghost: whether a signal was taken by shutdown
    unlinked    \* ghost: whether a process has unlinked the pidfile

vars == <<options, pc, forked, fd, stuck, pipe, path, content, lock, signalled, unlinked>>
signals == <<pipe, signalled>>
process == <<options, stuck>>
filesystem == <<path, content, lock, unlinked>>

(* daemon forks: the process goes on under another pid.                    *)
Pid == [proc : Procs, forked : BOOLEAN]
PidOf(p) == [proc |-> p, forked |-> forked[p]]

Pc == {"start", "setup", "daemonize", "open", "lock", "truncate", "write",
       "run", "reset", "unlink", "unlock", "exited", "crashed"}

Init ==
    /\ options \in [Procs -> Option]
    /\ \A p \in Procs : options[p] \in Options[p]
    /\ pc = [p \in Procs |-> "start"]
    /\ forked = [p \in Procs |-> FALSE]
    /\ fd = [p \in Procs |-> None]
    /\ stuck = [p \in Procs |-> FALSE]
    /\ pipe = [p \in Procs |-> FALSE]
    /\ path = None
    /\ content = [f \in Procs |-> None]
    /\ lock = [f \in Procs |-> None]
    /\ signalled = [p \in Procs |-> FALSE]
    /\ unlinked = FALSE

Goto(p, label) == pc' = [pc EXCEPT ![p] = label]

Unlocked(p) == [f \in Procs |-> IF lock[f] = p THEN None ELSE lock[f]]

-----------------------------------------------------------------------------
(* Up to createService: flags, configuration; main may return at once.     *)
Start(p) ==
    /\ pc[p] = "start"
    /\ Goto(p, "setup") \/ Goto(p, "exited")
    /\ UNCHANGED <<process, forked, fd, signals, filesystem>>

(* Plugins, events and targets, see module Service.                        *)
SetUp(p) ==
    /\ pc[p] = "setup"
    /\ Goto(p, "daemonize") \/ Goto(p, "reset")
    /\ UNCHANGED <<process, forked, fd, signals, filesystem>>

(* A process that goes into the background whether it was told to or not.  *)
DaemonizeAlways(p) ==
    /\ pc[p] = "daemonize"
    /\ forked' = [forked EXCEPT ![p] = TRUE]
    /\ Goto(p, IF options[p].pidfile THEN "open" ELSE "run")
    /\ UNCHANGED <<process, fd, signals, filesystem>>

(* daemon forks before the pidfile is written, and may fail.               *)
Daemonize(p) ==
    /\ pc[p] = "daemonize"
    /\ \/ /\ forked' = [forked EXCEPT ![p] = options[p].daemonize]
          /\ Goto(p, IF options[p].pidfile THEN "open" ELSE "run")
       \/ /\ options[p].daemonize
          /\ Goto(p, "reset")
          /\ UNCHANGED forked
    /\ UNCHANGED <<process, fd, signals, filesystem>>

(* An open with O_TRUNC.                                                   *)
OpenTruncate(p) ==
    /\ pc[p] = "open"
    /\ path' = IF path = None THEN p ELSE path
    /\ fd' = [fd EXCEPT ![p] = path']
    /\ content' = [content EXCEPT ![path'] = None]
    /\ Goto(p, "lock")
    /\ UNCHANGED <<process, forked, signals, lock, unlinked>>

(* open with O_CREAT.                                                      *)
Open(p) ==
    /\ pc[p] = "open"
    /\ \/ /\ path' = IF path = None THEN p ELSE path
          /\ fd' = [fd EXCEPT ![p] = path']
          /\ Goto(p, "lock")
       \/ Goto(p, "reset") /\ UNCHANGED <<path, fd>>
    /\ UNCHANGED <<process, forked, signals, content, lock, unlinked>>

(* A failed lock that is not an error.                                     *)
LockAnyway(p) ==
    /\ pc[p] = "lock"
    /\ IF lock[fd[p]] = None THEN lock' = [lock EXCEPT ![fd[p]] = p]
       ELSE UNCHANGED lock
    /\ Goto(p, "truncate")
    /\ UNCHANGED <<process, forked, fd, signals, path, content, unlinked>>

(* flock with LOCK_NB.                                                     *)
Lock(p) ==
    /\ pc[p] = "lock"
    /\ IF lock[fd[p]] = None
       THEN /\ lock' = [lock EXCEPT ![fd[p]] = p]
            /\ Goto(p, "truncate")
            /\ UNCHANGED fd
       ELSE /\ fd' = [fd EXCEPT ![p] = None]
            /\ Goto(p, "reset")
            /\ UNCHANGED lock
    /\ UNCHANGED <<process, forked, signals, path, content, unlinked>>

(* An error after the lock: the file is closed, but not unlinked.          *)
PidfileFails(p) ==
    /\ fd' = [fd EXCEPT ![p] = None]
    /\ lock' = Unlocked(p)
    /\ Goto(p, "reset")

Truncate(p) ==
    /\ pc[p] = "truncate"
    /\ \/ /\ content' = [content EXCEPT ![fd[p]] = None]
          /\ Goto(p, "write")
          /\ UNCHANGED <<fd, lock>>
       \/ PidfileFails(p) /\ UNCHANGED content
    /\ UNCHANGED <<process, forked, signals, path, unlinked>>

(* A write that fails or is short leaves no pid.                           *)
Write(p) ==
    /\ pc[p] = "write"
    /\ \/ /\ content' = [content EXCEPT ![fd[p]] = PidOf(p)]
          /\ Goto(p, "run")
          /\ UNCHANGED <<fd, lock>>
       \/ PidfileFails(p) /\ UNCHANGED content
    /\ UNCHANGED <<process, forked, signals, path, unlinked>>

(* Service::run, see module Scheduler.  It returns when there is a byte in *)
(* the pipe (KillStopsRun), and at once when no event is configured.       *)
Run(p) ==
    /\ pc[p] = "run"
    /\ ~stuck[p]
    /\ pipe[p] \/ ~options[p].events
    /\ Goto(p, "reset")
    /\ UNCHANGED <<process, forked, fd, signals, filesystem>>

(* The signals are ignored from here on and the service is destroyed.      *)
Reset(p) ==
    /\ pc[p] = "reset"
    /\ ~stuck[p]
    /\ Goto(p, IF fd[p] # None THEN "unlink" ELSE "exited")
    /\ UNCHANGED <<process, forked, fd, signals, filesystem>>

(* A shutdown that leaves the pidfile where it is.                         *)
UnlinkNot(p) ==
    /\ pc[p] = "unlink"
    /\ Goto(p, "unlock")
    /\ UNCHANGED <<process, forked, fd, signals, filesystem>>

(* unlink removes whatever is at the path.                                 *)
Unlink(p) ==
    /\ pc[p] = "unlink"
    /\ path' = None
    /\ unlinked' = TRUE
    /\ Goto(p, "unlock")
    /\ UNCHANGED <<process, forked, fd, signals, content, lock>>

Unlock(p) ==
    /\ pc[p] = "unlock"
    /\ lock' = Unlocked(p)
    /\ fd' = [fd EXCEPT ![p] = None]
    /\ Goto(p, "exited")
    /\ UNCHANGED <<process, forked, signals, path, content, unlinked>>

(* Where main may wait for ever for the upload thread of a target, see     *)
(* module EventQLTarget: in run, where enqueueEvent waits for room in a    *)
(* queue that nobody empties, because the thread was not forked with main; *)
(* and in the reset, where the stop of the thread may be lost, or the join *)
(* is for a thread that is not there.                                      *)
WaitsForUploads(p) ==
    /\ options[p].targets
    /\ pc[p] = "reset" \/ (pc[p] = "run" /\ forked[p] /\ options[p].events)

GetStuck(p) ==
    /\ WaitsForUploads(p)
    /\ stuck' = [stuck EXCEPT ![p] = TRUE]
    /\ UNCHANGED <<options, pc, forked, fd, signals, filesystem>>

-----------------------------------------------------------------------------
Signallable(p) == pc[p] \notin {"start", "unlink", "unlock", "exited", "crashed"}

(* A signal that only a service that is running takes notice of.           *)
SignalInRun(p) ==
    /\ Signallable(p)
    /\ pipe' = [pipe EXCEPT ![p] = pc[p] = "run"]
    /\ signalled' = [signalled EXCEPT ![p] = TRUE]
    /\ UNCHANGED <<process, pc, forked, fd, filesystem>>

(* SIGTERM, SIGINT or SIGHUP: shutdown kills the service, if there is one. *)
(* Before there is one the signal has no effect at all.                    *)
Signal(p) ==
    /\ Signallable(p)
    /\ pipe' = [pipe EXCEPT ![p] = TRUE]
    /\ signalled' = [signalled EXCEPT ![p] = TRUE]
    /\ UNCHANGED <<process, pc, forked, fd, filesystem>>

(* The kernel closes the files and unlocks them.                           *)
Crash(p) ==
    /\ pc[p] \notin {"exited", "crashed"}
    /\ fd' = [fd EXCEPT ![p] = None]
    /\ lock' = Unlocked(p)
    /\ Goto(p, "crashed")
    /\ UNCHANGED <<process, forked, signals, path, content, unlinked>>

-----------------------------------------------------------------------------
Main(p) ==
    \/ Start(p) \/ SetUp(p) \/ Daemonize(p)
    \/ Open(p) \/ Lock(p) \/ Truncate(p) \/ Write(p)
    \/ Run(p) \/ Reset(p) \/ Unlink(p) \/ Unlock(p)

Next == \E p \in Procs : Main(p) \/ GetStuck(p) \/ Signal(p) \/ Crash(p)

Spec == Init /\ [][Next]_vars

(* A process that was started runs.  Starting it, signals and crashes are  *)
(* up to others, and nothing has to get stuck.                             *)
Fairness == \A p \in Procs : WF_vars(pc[p] # "start" /\ Main(p))

FairSpec == Spec /\ Fairness

-----------------------------------------------------------------------------
(* Every variable has its type.  A process is in the background only if it *)
(* was told to, and a lock is held by a process that has the file open.    *)
TypeOK ==
    /\ options \in [Procs -> Option]
    /\ pc \in [Procs -> Pc]
    /\ forked \in [Procs -> BOOLEAN]
    /\ fd \in [Procs -> Procs \union {None}]
    /\ stuck \in [Procs -> BOOLEAN]
    /\ pipe \in [Procs -> BOOLEAN]
    /\ path \in Procs \union {None}
    /\ content \in [Procs -> Pid \union {None}]
    /\ lock \in [Procs -> Procs \union {None}]
    /\ signalled \in [Procs -> BOOLEAN]
    /\ unlinked \in BOOLEAN
    /\ \A p \in Procs : forked[p] => options[p].daemonize
    /\ \A f \in Procs : lock[f] # None => fd[lock[f]] = f

(* The daemons that run with a pidfile.                                    *)
Daemons == {p \in Procs : pc[p] = "run" /\ options[p].pidfile}

(* The file a daemon has open names that daemon, by the pid it runs under, *)
(* for as long as it runs: no other process, not even one that fails to    *)
(* start, empties it or writes to it.                                      *)
OwnPidKept == \A p \in Daemons : fd[p] # None /\ content[fd[p]] = PidOf(p)

(* Until the first daemon is stopped and unlinks the pidfile, at most one  *)
(* daemon runs, and what is at the path is its file.  Crashes, failed      *)
(* starts and errors of the pidfile do not change that.                    *)
OneDaemon ==
    ~unlinked =>
        /\ \A p, q \in Daemons : p = q
        /\ \A p \in Daemons : fd[p] = path

(* The pid at the path is never that of a daemon that was stopped: it is   *)
(* alive, or it crashed.                                                   *)
NoStalePid ==
    path # None /\ content[path] # None => pc[content[path].proc] # "exited"

(* A signal makes the process end, at whatever moment between the creation *)
(* of the service and its destruction it arrives, unless the process has   *)
(* EventQL targets and main waits for one of their upload threads for      *)
(* ever: in run, which only a process in the background does, or when it   *)
(* destroys the service.                                                   *)
SignalStops ==
    \A p \in Procs :
        signalled[p] ~> \/ pc[p] \in {"exited", "crashed"}
                        \/ stuck[p] /\ WaitsForUploads(p)

(* What README.md:138 says of --pidfile: a daemon that runs with it has    *)
(* its pid in the file at the path.                                        *)
PidfileWritten ==
    \A p \in Daemons : path # None /\ content[path] = PidOf(p)
==============================================================================
