----------------------------- MODULE DaemonProofs -----------------------------
(***************************************************************************)
(* Proofs about Daemon, for any number of processes with any options, and  *)
(* about Threads, of any one of them.                                      *)
(*                                                                         *)
(* The invariant of Daemon follows a pidfile from its creation to its end: *)
(* which processes have one open (FdStage), that the one past its flock    *)
(* holds the lock (HoldsLock) and has its pid in the file (PidInFile),     *)
(* that before the first unlink there is one file only (OneFile), that no  *)
(* file is used before its creation (Unborn), and where a pid that was     *)
(* written may be found (Trace).                                           *)
(***************************************************************************)
EXTENDS Daemon, Threads, TLAPS

FdStage ==
    \A p \in Procs :
        /\ pc[p] \in {"lock", "truncate", "write", "unlink", "unlock"} => fd[p] # None
        /\ pc[p] \in {"start", "setup", "daemonize", "open", "exited", "crashed"}
              => fd[p] = None
        /\ p \in Daemons => fd[p] # None

HoldsLock ==
    \A p \in Procs : fd[p] # None => (lock[fd[p]] = p <=> pc[p] # "lock")

PidInFile ==
    \A p \in Procs :
        fd[p] # None /\ pc[p] \in {"run", "reset", "unlink"}
            => content[fd[p]] = PidOf(p)

OneFile == ~unlinked => \A p \in Procs : fd[p] # None => fd[p] = path

Unborn ==
    \A f \in Procs :
        pc[f] \in {"start", "setup", "daemonize", "open"}
            => content[f] = None /\ path # f /\ \A p \in Procs : fd[p] # f

TraceOf(f, p) ==
    \/ pc[p] \in {"run", "reset", "unlink"} /\ fd[p] = f
    \/ pc[p] = "crashed"
    \/ pc[p] \in {"unlock", "exited"} /\ path # f

Trace == \A f \in Procs : content[f] # None => TraceOf(f, content[f].proc)

IndInv ==
    /\ TypeOK
    /\ FdStage
    /\ HoldsLock
    /\ PidInFile
    /\ OneFile
    /\ Unborn
    /\ Trace

-----------------------------------------------------------------------------
(* Before the pidfile is opened a process disturbs nothing.                *)
LEMMA StartInv == ASSUME NEW p \in Procs, IndInv, Start(p) PROVE IndInv'
<1> USE NoneAssumption DEF IndInv, TypeOK, Goto, Pc, Option, Pid, PidOf,
                           signals, process, filesystem
<1>1. TypeOK'
  BY DEF Start
<1>2. FdStage' /\ OneFile' /\ Unborn'
  BY DEF Start, FdStage, Daemons, OneFile, Unborn
<1>3. HoldsLock' /\ PidInFile'
  BY DEF Start, HoldsLock, PidInFile
<1>4. Trace'
  BY DEF Start, Trace, TraceOf
<1> QED BY <1>1, <1>2, <1>3, <1>4

LEMMA SetUpInv == ASSUME NEW p \in Procs, IndInv, SetUp(p) PROVE IndInv'
<1> USE NoneAssumption DEF IndInv, TypeOK, Goto, Pc, Option, Pid, PidOf,
                           signals, process, filesystem
<1>1. TypeOK'
  BY DEF SetUp
<1>2. FdStage' /\ OneFile' /\ Unborn'
  BY DEF SetUp, FdStage, Daemons, OneFile, Unborn
<1>3. HoldsLock' /\ PidInFile'
  BY DEF SetUp, HoldsLock, PidInFile, FdStage
<1>4. Trace'
  BY DEF SetUp, Trace, TraceOf
<1> QED BY <1>1, <1>2, <1>3, <1>4

LEMMA DaemonizeInv == ASSUME NEW p \in Procs, IndInv, Daemonize(p) PROVE IndInv'
<1> USE NoneAssumption DEF IndInv, TypeOK, Goto, Pc, Option, Pid, PidOf,
                           signals, process, filesystem
<1>1. TypeOK'
  <2>1. pc' \in [Procs -> Pc]
    BY DEF Daemonize
  <2>2. forked' = forked \/ forked' = [forked EXCEPT ![p] = options[p].daemonize]
    BY DEF Daemonize
  <2>3. /\ forked' \in [Procs -> BOOLEAN]
        /\ \A q \in Procs : forked'[q] => options[q].daemonize
    BY <2>2
  <2> QED BY <2>1, <2>3 DEF Daemonize
<1>2. FdStage' /\ OneFile' /\ Unborn'
  BY DEF Daemonize, FdStage, Daemons, OneFile, Unborn
<1>3. HoldsLock' /\ PidInFile'
  BY DEF Daemonize, HoldsLock, PidInFile, FdStage
<1>4. Trace'
  BY DEF Daemonize, Trace, TraceOf
<1> QED BY <1>1, <1>2, <1>3, <1>4

(* The file opened is at the path; if it is new it was unborn before.      *)
LEMMA OpenInv == ASSUME NEW p \in Procs, IndInv, Open(p) PROVE IndInv'
<1> USE NoneAssumption DEF IndInv, TypeOK, Goto, Pc, Option, Pid, PidOf,
                           signals, process, filesystem
<1>1. TypeOK'
  <2>1. path' \in Procs \union {None} /\ fd' \in [Procs -> Procs \union {None}]
    BY DEF Open
  <2>2. pc' \in [Procs -> Pc]
    BY DEF Open
  <2>3. \A f \in Procs : lock'[f] # None => fd'[lock'[f]] = f
    BY DEF Open, FdStage
  <2> QED BY <2>1, <2>2, <2>3 DEF Open
<1>2. FdStage' /\ OneFile' /\ Unborn'
  BY SMTT(30) DEF Open, FdStage, Daemons, OneFile, Unborn
<1>3. HoldsLock' /\ PidInFile'
  BY DEF Open, HoldsLock, FdStage, PidInFile
<1>4. Trace'
  BY DEF Open, Trace, TraceOf, FdStage, Unborn
<1> QED BY <1>1, <1>2, <1>3, <1>4

(* A lock is taken of a file nobody holds, or the file is closed.          *)
LEMMA LockInv == ASSUME NEW p \in Procs, IndInv, Lock(p) PROVE IndInv'
<1> USE NoneAssumption DEF IndInv, TypeOK, Goto, Pc, Option, Pid, PidOf,
                           signals, process, filesystem
<1>1. TypeOK'
  <2>1. fd[p] \in Procs
    BY DEF Lock, FdStage
  <2>2. CASE lock[fd[p]] = None
    <3>1. lock' = [lock EXCEPT ![fd[p]] = p] /\ fd' = fd
      BY <2>2 DEF Lock
    <3> QED BY <2>1, <2>2, <3>1 DEF Lock
  <2>3. CASE lock[fd[p]] # None
    <3>1. fd' = [fd EXCEPT ![p] = None] /\ lock' = lock
      BY <2>3 DEF Lock
    <3>2. \A f \in Procs : lock[f] # p
      BY <2>1 DEF Lock, HoldsLock
    <3> QED BY <2>1, <2>3, <3>1, <3>2 DEF Lock
  <2> QED BY <2>2, <2>3
<1>2. FdStage' /\ OneFile' /\ Unborn'
  BY DEF Lock, FdStage, Daemons, OneFile, Unborn
<1>3. HoldsLock'
  <2>1. CASE lock[fd[p]] = None
    <3>1. /\ lock' = [lock EXCEPT ![fd[p]] = p] /\ fd' = fd
          /\ pc' = [pc EXCEPT ![p] = "truncate"] /\ fd[p] \in Procs
      BY <2>1 DEF Lock, FdStage
    <3> QED BY <2>1, <3>1 DEF HoldsLock
  <2>2. CASE lock[fd[p]] # None
    <3>1. /\ fd' = [fd EXCEPT ![p] = None] /\ lock' = lock
          /\ pc' = [pc EXCEPT ![p] = "reset"]
      BY <2>2 DEF Lock
    <3> QED BY <3>1 DEF HoldsLock
  <2> QED BY <2>1, <2>2
<1>4. PidInFile'
  BY DEF Lock, PidInFile
<1>5. Trace'
  BY DEF Lock, Trace, TraceOf
<1> QED BY <1>1, <1>2, <1>3, <1>4, <1>5

(* Only the holder of the lock changes the file.                           *)
LEMMA TruncateInv == ASSUME NEW p \in Procs, IndInv, Truncate(p) PROVE IndInv'
<1> USE NoneAssumption DEF IndInv, TypeOK, Goto, Pc, Option, Pid, PidOf,
                           signals, process, filesystem
<1>1. TypeOK'
  <2>1. fd[p] \in Procs
    BY DEF Truncate, FdStage
  <2>2. CASE content' = [content EXCEPT ![fd[p]] = None] /\ UNCHANGED <<fd, lock>>
    <3>1. content' \in [Procs -> Pid \union {None}]
      BY <2>1, <2>2
    <3> QED BY <2>2, <3>1 DEF Truncate, PidfileFails
  <2>3. CASE PidfileFails(p) /\ UNCHANGED content
    BY <2>1, <2>3 DEF Truncate, PidfileFails, Unlocked
  <2> QED BY <2>2, <2>3 DEF Truncate
<1> USE DEF Truncate, PidfileFails, Unlocked
<1>2. FdStage'
  BY DEF FdStage, Daemons
<1>3. OneFile'
  BY DEF OneFile
<1>4. Unborn'
  BY DEF Unborn
<1>5. HoldsLock'
  BY DEF HoldsLock
<1>6. PidInFile'
  BY DEF PidInFile, HoldsLock, FdStage
<1>7. Trace'
  <2> SUFFICES ASSUME NEW f \in Procs, content'[f] # None
               PROVE  TraceOf(f, content[f].proc)'
    BY DEF Trace
  <2>1. content'[f] = content[f] /\ content[f].proc \in Procs
    BY DEF FdStage
  <2>2. TraceOf(f, content[f].proc) /\ path' = path
    BY <2>1 DEF Trace
  <2>3. \A q \in Procs : q # p => pc'[q] = pc[q] /\ fd'[q] = fd[q]
    OBVIOUS
  <2> QED BY <2>1, <2>2, <2>3 DEF TraceOf
<1> QED BY <1>1, <1>2, <1>3, <1>4, <1>5, <1>6, <1>7

LEMMA WriteInv == ASSUME NEW p \in Procs, IndInv, Write(p) PROVE IndInv'
<1> USE NoneAssumption DEF IndInv, TypeOK, Goto, Pc, Option, Pid, PidOf,
                           signals, process, filesystem
<1>1. TypeOK'
  <2>1. fd[p] \in Procs
    BY DEF Write, FdStage
  <2>2. CASE content' = [content EXCEPT ![fd[p]] = PidOf(p)] /\ UNCHANGED <<fd, lock>>
    <3>1. content' \in [Procs -> Pid \union {None}]
      BY <2>1, <2>2
    <3> QED BY <2>2, <3>1 DEF Write, PidfileFails
  <2>3. CASE PidfileFails(p) /\ UNCHANGED content
    BY <2>1, <2>3 DEF Write, PidfileFails, Unlocked
  <2> QED BY <2>2, <2>3 DEF Write
<1> USE DEF Write, PidfileFails, Unlocked
<1>2. FdStage'
  BY DEF FdStage, Daemons
<1>3. OneFile'
  BY DEF OneFile
<1>4. Unborn'
  BY DEF Unborn
<1>5. HoldsLock'
  BY DEF HoldsLock
<1>6. PidInFile'
  BY DEF PidInFile, HoldsLock, FdStage
<1>7. Trace'
  <2> SUFFICES ASSUME NEW f \in Procs, content'[f] # None
               PROVE  TraceOf(f, content[f].proc)'
    BY DEF Trace
  <2>1. fd[p] \in Procs
    BY DEF FdStage
  <2>2. CASE pc'[p] = "run" /\ f = fd[p]
    <3>1. content'[f].proc = p /\ fd'[p] = f
      BY <2>1, <2>2
    <3> QED BY <2>2, <3>1 DEF TraceOf
  <2>3. CASE ~(pc'[p] = "run" /\ f = fd[p])
    <3>1. content'[f] = content[f] /\ content[f].proc \in Procs
      BY <2>1, <2>3
    <3>2. TraceOf(f, content[f].proc) /\ path' = path
      BY <3>1 DEF Trace
    <3>3. \A q \in Procs : q # p => pc'[q] = pc[q] /\ fd'[q] = fd[q]
      OBVIOUS
    <3> QED BY <3>1, <3>2, <3>3 DEF TraceOf
  <2> QED BY <2>2, <2>3
<1> QED BY <1>1, <1>2, <1>3, <1>4, <1>5, <1>6, <1>7

(* From run to the unlink main keeps the file and its lock.                *)
LEMMA RunInv == ASSUME NEW p \in Procs, IndInv, Run(p) PROVE IndInv'
<1> USE NoneAssumption DEF IndInv, TypeOK, Goto, Pc, Option, Pid, PidOf,
                           signals, process, filesystem
<1>1. TypeOK'
  BY DEF Run
<1>2. FdStage' /\ OneFile' /\ Unborn'
  BY DEF Run, FdStage, Daemons, OneFile, Unborn
<1>3. HoldsLock' /\ PidInFile'
  BY DEF Run, HoldsLock, PidInFile
<1>4. Trace'
  BY DEF Run, Trace, TraceOf
<1> QED BY <1>1, <1>2, <1>3, <1>4

LEMMA ResetInv == ASSUME NEW p \in Procs, IndInv, Reset(p) PROVE IndInv'
<1> USE NoneAssumption DEF IndInv, TypeOK, Goto, Pc, Option, Pid, PidOf,
                           signals, process, filesystem
<1>1. TypeOK'
  BY DEF Reset
<1>2. FdStage' /\ OneFile' /\ Unborn'
  BY DEF Reset, FdStage, Daemons, OneFile, Unborn
<1>3. HoldsLock' /\ PidInFile'
  BY DEF Reset, HoldsLock, PidInFile
<1>4. Trace'
  BY DEF Reset, Trace, TraceOf
<1> QED BY <1>1, <1>2, <1>3, <1>4

(* A process that is stuck is where it was.                                *)
LEMMA GetStuckInv == ASSUME NEW p \in Procs, IndInv, GetStuck(p) PROVE IndInv'
<1>1. stuck' \in [Procs -> BOOLEAN]
  BY DEF GetStuck, IndInv, TypeOK
<1>2. UNCHANGED <<options, pc, forked, fd, signals, filesystem>>
  BY DEF GetStuck
<1> QED BY <1>1, <1>2 DEF IndInv, TypeOK, PidOf, signals, filesystem, FdStage, Daemons,
      HoldsLock, PidInFile, OneFile, Unborn, Trace, TraceOf

(* With the path the process leaves nothing a successor could open.        *)
LEMMA UnlinkInv == ASSUME NEW p \in Procs, IndInv, Unlink(p) PROVE IndInv'
<1> USE NoneAssumption DEF IndInv, TypeOK, Goto, Pc, Option, Pid, PidOf,
                           signals, process, filesystem
<1>1. TypeOK'
  BY DEF Unlink
<1>2. FdStage' /\ OneFile' /\ Unborn'
  BY DEF Unlink, FdStage, Daemons, OneFile, Unborn
<1>3. HoldsLock' /\ PidInFile'
  BY DEF Unlink, HoldsLock, PidInFile
<1>4. Trace'
  BY DEF Unlink, Trace, TraceOf
<1> QED BY <1>1, <1>2, <1>3, <1>4

LEMMA UnlockInv == ASSUME NEW p \in Procs, IndInv, Unlock(p) PROVE IndInv'
<1> USE NoneAssumption DEF IndInv, TypeOK, Goto, Pc, Option, Pid, PidOf,
                           signals, process, filesystem
<1>1. TypeOK'
  BY DEF Unlock, Unlocked
<1>2. FdStage' /\ OneFile' /\ Unborn'
  BY DEF Unlock, Unlocked, FdStage, Daemons, OneFile, Unborn
<1>3. HoldsLock' /\ PidInFile'
  BY DEF Unlock, Unlocked, HoldsLock, PidInFile
<1>4. Trace'
  BY DEF Unlock, Unlocked, Trace, TraceOf
<1> QED BY <1>1, <1>2, <1>3, <1>4

(* Signals and crashes.                                                    *)
LEMMA SignalInv == ASSUME NEW p \in Procs, IndInv, Signal(p) PROVE IndInv'
<1> USE NoneAssumption DEF IndInv, TypeOK, Goto, Pc, Option, Pid, PidOf,
                           signals, process, filesystem
<1>1. TypeOK'
  BY DEF Signal, Signallable
<1>2. FdStage' /\ OneFile' /\ Unborn'
  BY DEF Signal, Signallable, FdStage, Daemons, OneFile, Unborn
<1>3. HoldsLock' /\ PidInFile'
  BY DEF Signal, Signallable, HoldsLock, PidInFile
<1>4. Trace'
  BY DEF Signal, Signallable, Trace, TraceOf
<1> QED BY <1>1, <1>2, <1>3, <1>4

LEMMA CrashInv == ASSUME NEW p \in Procs, IndInv, Crash(p) PROVE IndInv'
<1> USE NoneAssumption DEF IndInv, TypeOK, Goto, Pc, Option, Pid, PidOf,
                           signals, process, filesystem
<1>1. TypeOK'
  BY DEF Crash, Unlocked
<1>2. FdStage' /\ OneFile' /\ Unborn'
  BY DEF Crash, Unlocked, FdStage, Daemons, OneFile, Unborn
<1>3. HoldsLock' /\ PidInFile'
  BY DEF Crash, Unlocked, HoldsLock, PidInFile
<1>4. Trace'
  BY DEF Crash, Unlocked, Trace, TraceOf
<1> QED BY <1>1, <1>2, <1>3, <1>4

-----------------------------------------------------------------------------
(* The invariant holds at first and every step keeps it.                   *)
LEMMA InitInv == Init => IndInv
BY NoneAssumption DEF Init, IndInv, TypeOK, Pc, FdStage, Daemons, HoldsLock,
    PidInFile, OneFile, Unborn, Trace

LEMMA StutterInv == IndInv /\ UNCHANGED vars => IndInv'
<1> SUFFICES ASSUME IndInv, UNCHANGED vars PROVE IndInv'
  OBVIOUS
<1> USE DEF vars
<1>1. TypeOK' /\ FdStage'
  BY DEF IndInv, TypeOK, FdStage, Daemons
<1>2. HoldsLock' /\ PidInFile'
  BY DEF IndInv, HoldsLock, PidInFile, PidOf
<1>3. OneFile' /\ Unborn' /\ Trace'
  BY DEF IndInv, OneFile, Unborn, Trace, TraceOf
<1> QED BY <1>1, <1>2, <1>3 DEF IndInv

LEMMA StepInv == IndInv /\ [Next]_vars => IndInv'
<1> SUFFICES ASSUME IndInv, Next PROVE IndInv'
  BY StutterInv
<1>1. PICK p \in Procs : Main(p) \/ GetStuck(p) \/ Signal(p) \/ Crash(p)
  BY DEF Next
<1>2. CASE Main(p)
  BY <1>2, StartInv, SetUpInv, DaemonizeInv, OpenInv, LockInv, TruncateInv,
     WriteInv, RunInv, ResetInv, UnlinkInv, UnlockInv DEF Main
<1>3. CASE Signal(p)
  BY <1>3, SignalInv
<1>4. CASE Crash(p)
  BY <1>4, CrashInv
<1>5. CASE GetStuck(p)
  BY <1>5, GetStuckInv
<1> QED BY <1>1, <1>2, <1>3, <1>4, <1>5

(* Every state of every behaviour of main satisfies the invariant.         *)
THEOREM Invariance == Spec => []IndInv
BY InitInv, StepInv, PTL DEF Spec

(* Every variable of main and of the file system keeps its type.           *)
THEOREM TypeCorrect == Spec => []TypeOK
<1>1. IndInv => TypeOK
  BY DEF IndInv
<1> QED BY <1>1, Invariance, PTL

(* Nobody writes to the pidfile a running daemon has open: it holds the    *)
(* lock from before its first write until after its last use.              *)
THEOREM OwnPidIsKept == Spec => []OwnPidKept
<1>1. IndInv => OwnPidKept
  BY DEF IndInv, OwnPidKept, FdStage, PidInFile, Daemons
<1> QED BY <1>1, Invariance, PTL

(* Until the first unlink there is one file, so its lock keeps all daemons *)
(* but one from running, whoever crashes or fails.                         *)
THEOREM AtMostOneDaemon == Spec => []OneDaemon
<1>1. IndInv => OneDaemon
  <2> SUFFICES ASSUME IndInv, ~unlinked
               PROVE  /\ \A p, q \in Daemons : p = q
                      /\ \A p \in Daemons : fd[p] = path
    BY DEF OneDaemon
  <2>1. \A p \in Daemons : fd[p] = path
    BY DEF IndInv, OneFile, FdStage, Daemons
  <2>2. \A p \in Daemons : fd[p] # None /\ lock[fd[p]] = p
    BY DEF IndInv, FdStage, HoldsLock, Daemons
  <2> QED BY <2>1, <2>2
<1> QED BY <1>1, Invariance, PTL

(* A daemon that was stopped leaves no pid at the path: the file it wrote  *)
(* is unlinked when it exits, and a file never comes back to the path.     *)
THEOREM NoPidIsStale == Spec => []NoStalePid
<1>1. IndInv => NoStalePid
  BY DEF IndInv, TypeOK, NoStalePid, Trace, TraceOf
<1> QED BY <1>1, Invariance, PTL

-----------------------------------------------------------------------------
(***************************************************************************)
(* Threads, for any number of targets and in either build.  The invariant  *)
(* ties four things to each other: what there is of the service to where   *)
(* main is (Stages), the upload threads that run to the targets that are   *)
(* attached (Running), the handlers to the threads they run on (Handling), *)
(* and the mutex to a thread that is at a message (Holding).  When main    *)
(* closes the pipe no target is attached, so that no other thread runs,    *)
(* and so does no handler.                                                 *)
(***************************************************************************)
Stages ==
    /\ object = "open" <=> main \notin {"create", "delete", "exited"}
    /\ service => main \notin {"create", "detach", "delete", "exited"}
    /\ main \in {"delete", "exited"} => attached = {}

Running ==
    /\ \A t \in Targets : thread[t] \in {"idle", "log"} => t \in attached
    /\ main \in {"create", "setup"} =>
          \A t \in Targets : thread[t] \in {"none", "idle", "log"}
    /\ stopping # NoThread => main = "detach" /\ stopping \in attached

Handling ==
    \A t \in Thread :
        /\ handler[t] # "none" => Exists(t)
        /\ handler[t] \in {"again", "kill"} => object = "open"
        /\ setting.merged => /\ handler[t] # "again"
                             /\ handler[t] = "kill" => t \in sees

Holding ==
    mutex # NoThread =>
        /\ Stderr
        /\ IF mutex = MainThread THEN main \in Messages ELSE thread[mutex] = "log"

ThreadsInv == ThreadsTypeOK /\ Stages /\ Running /\ Handling /\ Holding

-----------------------------------------------------------------------------
LEMMA ThreadsInitInv == ThreadsInit => ThreadsInv
BY MainAssumption, NoThreadAssumption
DEF ThreadsInit, ThreadsInv, ThreadsTypeOK, Stages, Running, Handling, Holding, Thread, Labels,
    Messages, Exists

(* A step of main leaves the handlers to themselves, but for the fork.     *)
LEMMA MainInv == ASSUME ThreadsInv, MainStep PROVE ThreadsInv'
<1> USE MainAssumption, NoThreadAssumption
    DEF ThreadsInv, ThreadsTypeOK, Stages, Running, Handling, Holding, Thread, Labels,
        Messages, Exists, Stderr, At, MainGoto, uploads, handlers
<1>1. CASE CreateService
  BY <1>1 DEF CreateService
<1>2. CASE SetUpFails
  BY <1>2 DEF SetUpFails
<1>3. CASE Fork
  <2>1. CASE setting.background
    BY <1>3, <2>1 DEF Fork
  <2>2. CASE ~setting.background
    BY <1>3, <2>2 DEF Fork
  <2> QED BY <2>1, <2>2
<1>4. CASE Started
  BY <1>4 DEF Started, Logged, LogsNow
<1>5. CASE Emit
  BY <1>5 DEF Emit, mains
<1>6. CASE RunReports
  BY <1>6 DEF RunReports
<1>7. CASE RunReported
  BY <1>7 DEF RunReported, Logged, LogsNow
<1>8. CASE RunReturns
  BY <1>8 DEF RunReturns
<1>9. CASE ReportFatal
  BY <1>9 DEF ReportFatal, Logged, LogsNow
<1>10. CASE IgnoreSignals
  BY <1>10 DEF IgnoreSignals, Logged, LogsNow
<1>11. CASE ResetService
  BY <1>11 DEF ResetService
<1>12. CASE Join
  BY <1>12 DEF Join
<1>13. CASE ClosePipe
  (* The handler does not run on main, and there is no other thread.       *)
  <2>1. \A t \in Thread : handler[t] = "none"
    BY <1>13 DEF ClosePipe
  <2> QED BY <1>13, <2>1 DEF ClosePipe
<1>14. CASE Delete
  BY <1>14 DEF Delete
<1>15. ASSUME NEW t \in Targets, AttachTarget(t) PROVE ThreadsInv'
  BY <1>15 DEF AttachTarget
<1>16. ASSUME NEW t \in Targets, DetachTarget(t) PROVE ThreadsInv'
  BY <1>16 DEF DetachTarget
<1> QED
  BY <1>1, <1>2, <1>3, <1>4, <1>5, <1>6, <1>7, <1>8, <1>9, <1>10, <1>11, <1>12,
     <1>13, <1>14, <1>15, <1>16
  DEF MainStep

(* An upload thread ends only when main waits for it.                      *)
LEMMA UploadInv ==
    ASSUME NEW t \in Targets, ThreadsInv, Upload(t) \/ UploadLogged(t) \/ EndThread(t)
    PROVE ThreadsInv'
<1> USE MainAssumption, NoThreadAssumption
    DEF ThreadsInv, ThreadsTypeOK, Stages, Running, Handling, Holding, Thread, Labels,
        Messages, Exists, Stderr, mains, handlers, Runs
<1>1. CASE Upload(t)
  BY <1>1 DEF Upload
<1>2. CASE UploadLogged(t)
  BY <1>2 DEF UploadLogged, Logged, LogsNow
<1>3. CASE EndThread(t)
  BY <1>3 DEF EndThread
<1> QED BY <1>1, <1>2, <1>3

(* Messages and signals, on any thread.                                    *)
LEMMA ThreadInv ==
    ASSUME NEW t \in Thread, ThreadsInv, LockLog(t) \/ TakeSignal(t) \/ HandlerStep(t)
    PROVE ThreadsInv'
<1> USE MainAssumption, NoThreadAssumption
    DEF ThreadsInv, ThreadsTypeOK, Stages, Running, Handling, Holding, Thread, Labels,
        Messages, Exists, Stderr, mains, uploads, handlers
<1>1. CASE LockLog(t)
  BY <1>1 DEF LockLog, LogsNow
<1>2. CASE TakeSignal(t)
  BY <1>2 DEF TakeSignal
<1>3. CASE HandlerLooks(t)
  BY <1>3 DEF HandlerLooks
<1>4. CASE HandlerLooksAgain(t)
  BY <1>4 DEF HandlerLooksAgain
<1>5. CASE HandlerKills(t)
  BY <1>5 DEF HandlerKills
<1> QED BY <1>1, <1>2, <1>3, <1>4, <1>5 DEF HandlerStep

LEMMA ThreadsStutterInv == ASSUME ThreadsInv, UNCHANGED threadVars PROVE ThreadsInv'
BY DEF ThreadsInv, ThreadsTypeOK, Stages, Running, Handling, Holding, Exists, Stderr,
       threadVars, mains, uploads, handlers

LEMMA ThreadsInvHolds == ThreadsSpec => []ThreadsInv
<1>1. ThreadsInv /\ [ThreadsNext]_threadVars => ThreadsInv'
  BY MainInv, UploadInv, ThreadInv, ThreadsStutterInv DEF ThreadsNext
<1> QED BY ThreadsInitInv, <1>1, PTL DEF ThreadsSpec

-----------------------------------------------------------------------------
(* Every variable of the threads has its type, with any number of targets. *)
THEOREM ThreadsTypeCorrect == ThreadsSpec => []ThreadsTypeOK
<1>1. ThreadsInv => ThreadsTypeOK
  BY DEF ThreadsInv
<1> QED BY ThreadsInvHolds, <1>1, PTL

(* shutdown() never calls kill on a service that is being destroyed, on    *)
(* whichever thread the signal is handled.                                 *)
THEOREM HandlerIsSafe == ThreadsSpec => []HandlerFindsService
<1>1. ThreadsInv => HandlerFindsService
  BY DEF ThreadsInv, ThreadsTypeOK, Handling, HandlerFindsService
<1> QED BY ThreadsInvHolds, <1>1, PTL

(* The mutex of StderrLogOutputStream is held by a thread that is there    *)
(* and will release it, across the fork and under any signal.              *)
THEOREM LoggerIsFreed == ThreadsSpec => []LoggerNeverStuck
<1>1. ThreadsInv => LoggerNeverStuck
  BY DEF ThreadsInv, ThreadsTypeOK, Holding, LoggerNeverStuck
<1> QED BY ThreadsInvHolds, <1>1, PTL
==============================================================================
