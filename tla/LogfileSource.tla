---------------------------- MODULE LogfileSource ----------------------------
(***************************************************************************)
(* The log file source (logfile.cc) together with the part of              *)
(* ServiceImpl::processEvent that drives it: the service asks for the next *)
(* event, hands it to the targets and asks for more while there is more.   *)
(*                                                                         *)
(* Around it: a writer that appends to the log byte by byte, log rotation  *)
(* (the path is unlinked or renamed away, then created again), truncation, *)
(* errors of the checkpoint file, a graceful stop, a crash and a restart.  *)
(*                                                                         *)
(* A line is the range [from, to) of the file it was read from; its text   *)
(* is what the file holds there.  The last byte of a range is the newline. *)
(***************************************************************************)
EXTENDS Integers, Sequences, FiniteSets

CONSTANTS
    MaxInodes,      \* bound: files created at the path of the log
    MaxLines,       \* line_buf_maxsize_
    Budgets         \* bounds: the bytes of a file and how often there may be
                    \* a new file, a truncation, a checkpoint that fails, a
                    \* graceful stop, a crash and a checkpoint of another source

ASSUME InodesAssumption == MaxInodes \in Nat \ {0}
ASSUME MaxLinesAssumption == MaxLines \in Nat \ {0}

Inode == 1..MaxInodes
Newline == "n"
Byte == {"x", Newline}

Budget == [bytes : Nat, created : 0..MaxInodes, truncates : Nat, errors : Nat,
           stops : Nat, crashes : Nat, others : Nat]

ASSUME BudgetsAssumption == Budgets \subseteq Budget

VARIABLES
    budget,         \* the bounds of this behaviour
    files,          \* the content of every file that was created
    path,           \* the inode at the path of the log, 0 if there is none
    disk,           \* the checkpoint file; inode 0 if absent or too short
    inode,          \* inode_
    offset,         \* offset_
    consumed,       \* consumed_offset_
    lineBuf,        \* line_buf_
    memory,         \* checkpoint_inode_ and checkpoint_offset_
    fd,             \* the file readLines has open
    line,           \* the line getNextLine has taken: <<>> or <<range>>
    pc,             \* where the service is
    ret,            \* where readLines or writeCheckpoint returns to
    handled,        \* ghost: the lines handed on, over all restarts
    count           \* ghost: the environment's uses of its bounds

environment == <<budget, files, path, count>>
reader == <<inode, offset, consumed, lineBuf, fd, line>>
vars == <<budget, files, path, disk, inode, offset, consumed, lineBuf, memory,
          fd, line, pc, ret, handled, count>>

Checkpoint == [ino : Nat, off : Nat]
NoCheckpoint == [ino |-> 0, off |-> 0]
LineRange == [ino : Inode, from : Nat, to : Nat]

Pc == {"idle", "stat", "open", "read", "pop", "ckpt", "ckpt_write", "pending",
       "emit", "down"}

Size(i) == Len(files[i])

(* The newlines of a file from an offset on, and the end of the next line. *)
LineEnds(i, from) == {n \in (from + 1)..Size(i) : files[i][n] = Newline}
NextEnd(i, from) ==
    CHOOSE n \in LineEnds(i, from) : \A m \in LineEnds(i, from) : n <= m

Init ==
    /\ budget \in Budgets
    /\ files = [i \in Inode |-> <<>>]
    /\ path = 0
    /\ disk = NoCheckpoint
    /\ inode = 0
    /\ offset = 0
    /\ consumed = 0
    /\ lineBuf = <<>>
    /\ memory = NoCheckpoint
    /\ fd = 0
    /\ line = <<>>
    /\ pc = "idle"
    /\ ret = "idle"
    /\ handled = <<>>
    /\ count = [created |-> 0, truncates |-> 0, errors |-> 0, stops |-> 0,
                crashes |-> 0, others |-> 0]

-----------------------------------------------------------------------------
(* The environment.                                                        *)

Create ==
    /\ path = 0
    /\ count.created < budget.created
    /\ count' = [count EXCEPT !.created = @ + 1]
    /\ path' = count.created + 1
    /\ UNCHANGED <<budget, files, disk, reader, memory, pc, ret, handled>>

Remove ==
    /\ path # 0
    /\ count.created < budget.created
    /\ path' = 0
    /\ UNCHANGED <<budget, files, count, disk, reader, memory, pc, ret, handled>>

Write(b) ==
    /\ path # 0
    /\ Size(path) < budget.bytes
    /\ files' = [files EXCEPT ![path] = Append(@, b)]
    /\ UNCHANGED <<budget, path, count, disk, reader, memory, pc, ret, handled>>

Truncate ==
    /\ path # 0
    /\ count.truncates < budget.truncates
    /\ count' = [count EXCEPT !.truncates = @ + 1]
    /\ files' = [files EXCEPT ![path] = <<>>]
    /\ UNCHANGED <<budget, path, disk, reader, memory, pc, ret, handled>>

Crash ==
    /\ pc # "down"
    /\ count.crashes < budget.crashes
    /\ count' = [count EXCEPT !.crashes = @ + 1]
    /\ pc' = "down"
    /\ UNCHANGED <<budget, files, path, disk, reader, memory, ret, handled>>

(* Another source of the same daemon reads the same log.  The name of the  *)
(* checkpoint file is made of that of the log, so that both have the same  *)
(* one: the other source leaves its own position there, between two lines  *)
(* of a file, or nothing if that fails, while this source waits or after   *)
(* it was detached.                                                        *)
OtherCheckpoint ==
    /\ pc = "idle" \/ (pc = "down" /\ ret = "down")
    /\ count.others < budget.others
    /\ count' = [count EXCEPT !.others = @ + 1]
    /\ \/ disk' = NoCheckpoint
       \/ \E i \in 1..count.created : \E n \in {0} \union LineEnds(i, 0) :
             disk' = [ino |-> i, off |-> n]
    /\ UNCHANGED <<budget, files, path, reader, memory, pc, ret, handled>>

(* Checkpoints that fail are counted against a bound.                      *)
Fail ==
    /\ count.errors < budget.errors
    /\ count' = [count EXCEPT !.errors = @ + 1]

-----------------------------------------------------------------------------
(* readLines.  It returns to getNextLine, which takes a line ("pop") or    *)
(* returns the error ("idle"), or to hasNextLine, after which processEvent *)
(* goes on to emit; there an error is no different from an empty buffer.   *)

ReadLinesReturn == pc' = ret
ReadLinesFails == pc' = IF ret = "emit" THEN "emit" ELSE "idle"

StatFails ==
    /\ pc = "stat"
    /\ path = 0
    /\ ReadLinesFails
    /\ UNCHANGED <<environment, disk, reader, memory, ret, handled>>

(* A reset that forgets the number of consumed bytes.                      *)
StatKeepConsumed ==
    /\ pc = "stat"
    /\ path # 0
    /\ LET fresh == path # inode \/ Size(path) < offset
       IN  /\ inode' = path
           /\ offset' = IF fresh THEN 0 ELSE offset
           /\ lineBuf' = IF fresh THEN <<>> ELSE lineBuf
    /\ IF Size(path) = offset' THEN ReadLinesReturn ELSE pc' = "open"
    /\ UNCHANGED <<environment, disk, consumed, memory, fd, line, ret, handled>>

Stat ==
    /\ pc = "stat"
    /\ path # 0
    /\ LET fresh == path # inode \/ Size(path) < offset
       IN  /\ inode' = path
           /\ offset' = IF fresh THEN 0 ELSE offset
           /\ consumed' = IF fresh THEN 0 ELSE consumed
           /\ lineBuf' = IF fresh THEN <<>> ELSE lineBuf
    /\ IF Size(path) = offset' THEN ReadLinesReturn ELSE pc' = "open"
    /\ UNCHANGED <<environment, disk, memory, fd, line, ret, handled>>

OpenFails ==
    /\ pc = "open"
    /\ path = 0
    /\ ReadLinesFails
    /\ UNCHANGED <<environment, disk, reader, memory, ret, handled>>

(* The path is looked up again: it may name another file than in Stat.     *)
Open ==
    /\ pc = "open"
    /\ path # 0
    /\ fd' = path
    /\ pc' = "read"
    /\ UNCHANGED <<environment, disk, inode, offset, consumed, lineBuf, memory,
                   line, ret, handled>>

(* A reader that takes what follows the last newline for a line.           *)
ReadLinePartial ==
    /\ pc = "read"
    /\ Size(fd) > offset
    /\ Len(lineBuf) < MaxLines
    /\ LET end == IF LineEnds(fd, offset) = {} THEN Size(fd)
                  ELSE NextEnd(fd, offset)
       IN  /\ lineBuf' = Append(lineBuf, [ino |-> fd, from |-> offset, to |-> end])
           /\ offset' = end
    /\ UNCHANGED <<environment, disk, inode, consumed, memory, fd, line, pc,
                   ret, handled>>

(* The file is read at offset_, where the fd has been since lseek.         *)
ReadLine ==
    /\ pc = "read"
    /\ LineEnds(fd, offset) # {}
    /\ Len(lineBuf) < MaxLines
    /\ LET end == NextEnd(fd, offset)
       IN  /\ lineBuf' = Append(lineBuf, [ino |-> fd, from |-> offset, to |-> end])
           /\ offset' = end
    /\ UNCHANGED <<environment, disk, inode, consumed, memory, fd, line, pc,
                   ret, handled>>

(* The line that was read when the buffer was full counted as read.        *)
ReadEndCountsDiscarded ==
    /\ pc = "read"
    /\ LineEnds(fd, offset) = {} \/ Len(lineBuf) >= MaxLines
    /\ offset' = IF LineEnds(fd, offset) = {} THEN offset ELSE NextEnd(fd, offset)
    /\ UNCHANGED <<environment, disk, inode, consumed, lineBuf, memory, fd, line,
                   ret, handled>>
    /\ ReadLinesReturn

ReadEnd ==
    /\ pc = "read"
    /\ LineEnds(fd, offset) = {} \/ Len(lineBuf) >= MaxLines
    /\ UNCHANGED <<environment, disk, reader, memory, ret, handled>>
    /\ ReadLinesReturn

-----------------------------------------------------------------------------
(* getNextEvent, and what processEvent does with the result.               *)

GetNextEvent ==
    /\ pc = "idle"
    /\ IF lineBuf = <<>> THEN pc' = "stat" /\ ret' = "pop"
       ELSE pc' = "pop" /\ UNCHANGED ret
    /\ UNCHANGED <<environment, disk, reader, memory, handled>>

(* The length of the line taken off the consumed bytes instead of added.    *)
GetNextLineSubtracts ==
    /\ pc = "pop"
    /\ lineBuf # <<>>
    /\ line' = <<Head(lineBuf)>>
    /\ consumed' = consumed - (Head(lineBuf).to - Head(lineBuf).from)
    /\ lineBuf' = Tail(lineBuf)
    /\ pc' = "pending"
    /\ UNCHANGED <<environment, disk, inode, offset, memory, fd, ret, handled>>

(* getNextLine takes a line, if there is one, counts it as consumed, and   *)
(* writes a checkpoint if the last one is ten seconds old.                 *)
GetNextLine ==
    /\ pc = "pop"
    /\ \/ /\ lineBuf = <<>>
          /\ line' = <<>>
          /\ UNCHANGED <<consumed, lineBuf>>
       \/ /\ lineBuf # <<>>
          /\ line' = <<Head(lineBuf)>>
          /\ consumed' = consumed + (Head(lineBuf).to - Head(lineBuf).from)
          /\ lineBuf' = Tail(lineBuf)
    /\ \/ pc' = "ckpt" /\ ret' = "pending"
       \/ pc' = "pending" /\ UNCHANGED ret
    /\ UNCHANGED <<environment, disk, inode, offset, memory, fd, handled>>

(* pluginHasPendingEvent, before the event is emitted: hasNextLine reads   *)
(* if the buffer is empty.                                                 *)
HasNextLine ==
    /\ pc = "pending"
    /\ IF lineBuf = <<>> THEN pc' = "stat" /\ ret' = "emit"
       ELSE pc' = "emit" /\ UNCHANGED ret
    /\ UNCHANGED <<environment, disk, reader, memory, handled>>

(* The event goes to the targets; no event comes from no line, an empty    *)
(* line or one that the regex does not match.  processEvent returns if a   *)
(* target failed or nothing is pending, and asks for more otherwise.       *)
Emit ==
    /\ pc = "emit"
    /\ handled' = handled \o line
    /\ line' = <<>>
    /\ \/ lineBuf = <<>> /\ pc' = "idle"
       \/ lineBuf # <<>> /\ pc' = "pop"
       \/ line # <<>> /\ pc' = "idle"
    /\ UNCHANGED <<environment, disk, inode, offset, consumed, lineBuf, memory,
                   fd, ret>>

-----------------------------------------------------------------------------
(* writeCheckpoint.  It returns to getNextLine and on to hasNextLine       *)
(* ("pending"), or to pluginDetach ("down"); neither does more about an    *)
(* error than to log it.                                                   *)

Position == [ino |-> inode, off |-> consumed]

CheckpointUnchanged ==
    /\ pc = "ckpt"
    /\ memory = Position
    /\ pc' = ret
    /\ UNCHANGED <<environment, disk, reader, memory, ret, handled>>

(* open with O_TRUNC: from here to the write the file is empty.            *)
CheckpointOpen ==
    /\ pc = "ckpt"
    /\ memory # Position
    /\ memory' = Position
    /\ disk' = NoCheckpoint
    /\ pc' = "ckpt_write"
    /\ UNCHANGED <<environment, reader, ret, handled>>

CheckpointOpenFails ==
    /\ pc = "ckpt"
    /\ memory # Position
    /\ memory' = Position
    /\ Fail
    /\ pc' = ret
    /\ UNCHANGED <<budget, files, path, disk, reader, ret, handled>>

(* A checkpoint of what was read instead of what was consumed.             *)
CheckpointWriteOffset ==
    /\ pc = "ckpt_write"
    /\ disk' = [ino |-> inode, off |-> offset]
    /\ pc' = ret
    /\ UNCHANGED <<environment, reader, memory, ret, handled>>

CheckpointWrite ==
    /\ pc = "ckpt_write"
    /\ disk' = memory
    /\ pc' = ret
    /\ UNCHANGED <<environment, reader, memory, ret, handled>>

(* write fails or is short: what is there is not read as a checkpoint.     *)
CheckpointWriteFails ==
    /\ pc = "ckpt_write"
    /\ Fail
    /\ pc' = ret
    /\ UNCHANGED <<budget, files, path, disk, reader, memory, ret, handled>>

-----------------------------------------------------------------------------
(* A stop that leaves the last checkpoint as it is.                        *)
DetachNoCheckpoint ==
    /\ pc = "idle"
    /\ count.stops < budget.stops
    /\ count' = [count EXCEPT !.stops = @ + 1]
    /\ pc' = "down"
    /\ ret' = "down"
    /\ UNCHANGED <<budget, files, path, disk, reader, memory, handled>>

(* pluginDetach, when the service is destroyed after run has returned.     *)
Detach ==
    /\ pc = "idle"
    /\ count.stops < budget.stops
    /\ count' = [count EXCEPT !.stops = @ + 1]
    /\ pc' = "ckpt"
    /\ ret' = "down"
    /\ UNCHANGED <<budget, files, path, disk, reader, memory, handled>>

(* pluginAttach of the next process, which reads the checkpoint.           *)
Restart ==
    /\ pc = "down"
    /\ inode' = disk.ino
    /\ offset' = disk.off
    /\ consumed' = disk.off
    /\ memory' = disk
    /\ lineBuf' = <<>>
    /\ fd' = 0
    /\ line' = <<>>
    /\ pc' = "idle"
    /\ ret' = "idle"
    /\ UNCHANGED <<environment, disk, handled>>

ReadLines == StatFails \/ Stat \/ OpenFails \/ Open \/ ReadLine \/ ReadEnd
WriteCheckpoint ==
    \/ CheckpointUnchanged \/ CheckpointOpen \/ CheckpointOpenFails
    \/ CheckpointWrite \/ CheckpointWriteFails
Source ==
    \/ GetNextEvent \/ ReadLines \/ GetNextLine \/ WriteCheckpoint
    \/ HasNextLine \/ Emit

Next ==
    \/ Create \/ Remove \/ Truncate \/ OtherCheckpoint
    \/ \E b \in Byte : Write(b)
    \/ Source
    \/ Detach \/ Crash \/ Restart

Spec == Init /\ [][Next]_vars

(* The service keeps polling the source, and a daemon that went down is    *)
(* started again.  Nobody has to write to the log, rotate it or stop.      *)
FairSpec == Spec /\ WF_vars(Source) /\ WF_vars(Restart)

-----------------------------------------------------------------------------
(* Every variable has its type.                                            *)
TypeOK ==
    /\ files \in [Inode -> Seq(Byte)]
    /\ path \in {0} \union Inode
    /\ disk \in Checkpoint
    /\ inode \in {0} \union Inode
    /\ offset \in Nat
    /\ consumed \in Nat
    /\ lineBuf \in Seq(LineRange)
    /\ memory \in Checkpoint
    /\ fd \in {0} \union Inode
    /\ line \in Seq(LineRange) /\ Len(line) <= 1
    /\ pc \in Pc
    /\ ret \in {"idle", "pop", "pending", "emit", "down"}
    /\ handled \in Seq(LineRange)
    /\ budget \in Budgets
    /\ count \in [created : Nat, truncates : Nat, errors : Nat, stops : Nat,
                  crashes : Nat, others : Nat]
    /\ \A k \in DOMAIN count : count[k] <= budget[k]

(* consumed_offset_ and offset_ enclose exactly the lines in line_buf_:    *)
(* the lines are adjacent, the first starts where the consumed bytes end   *)
(* and the last ends where the next read starts, so that a checkpoint of   *)
(* consumed_offset_ is a position between two lines that were read.  It    *)
(* must hold whatever rotation, truncation or restart comes between.       *)
OffsetAccounting ==
    pc # "down" =>
        /\ lineBuf = <<>> => consumed = offset
        /\ lineBuf # <<>> => /\ lineBuf[1].from = consumed
                             /\ lineBuf[Len(lineBuf)].to = offset
        /\ \A k \in 1..(Len(lineBuf) - 1) : lineBuf[k].to = lineBuf[k + 1].from

(* As long as the log is only appended to, a line handed on starts where a *)
(* line of the log starts: the reader is not fooled by a half-written      *)
(* line, a full buffer or a restart, be it from another source's position. *)
Whole(r) == r.from = 0 \/ (r.from <= Size(r.ino) /\ files[r.ino][r.from] = Newline)

AppendOnly == count.created <= 1 /\ count.truncates = 0

WholeLines == AppendOnly => \A n \in 1..Len(handled) : Whole(handled[n])

(* The complete lines of a file up to an offset.                           *)
LinesUpTo(i, end) ==
    {[ino |-> i, from |-> f, to |-> NextEnd(i, f)] :
        f \in {f \in 0..(end - 1) :
                  /\ f = 0 \/ files[i][f] = Newline
                  /\ \E n \in LineEnds(i, f) : n <= end}}

(* The lines the source has behind it that were never handed on, the one   *)
(* it is working on excepted.                                              *)
Lost ==
    {r \in IF inode = 0 \/ pc = "down" THEN {} ELSE LinesUpTo(inode, consumed) :
        /\ \A n \in 1..Len(handled) : handled[n] # r
        /\ line # <<r>>}

(* On such a log, and if no other source reads it, lines are lost by       *)
(* crashes only, not by failed checkpoints or restarts, and a crash costs  *)
(* one line at most: the one getNextLine counted as consumed, and perhaps  *)
(* checkpointed, before it was handed on.  After a restart from another    *)
(* source's checkpoint any number of lines may be missing, or come twice.  *)
LossPerCrash == AppendOnly /\ count.others = 0 => Cardinality(Lost) <= count.crashes

(* Behaviours in which nothing can go wrong: no rotation, no truncation,   *)
(* no crash, no error of the checkpoint file and no other source on the    *)
(* log, but any graceful stops.                                            *)
Undisturbed ==
    /\ budget.created <= 1 /\ budget.truncates = 0
    /\ budget.errors = 0 /\ budget.crashes = 0 /\ budget.others = 0

(* There the source implements LineStream: every line is handled once, in  *)
(* order, across any number of graceful restarts.                          *)
HandledUpTo == IF handled = <<>> THEN 0 ELSE handled[Len(handled)].to

Stream == INSTANCE LineStream WITH
              written <- IF Undisturbed THEN files[1] ELSE <<>>,
              position <- IF Undisturbed THEN HandledUpTo ELSE 0

StreamSpec == Stream!Spec

(* And every complete line of the log that is not empty is handed on,      *)
(* whatever the reader was doing when it was written (README.md:59).       *)
EveryLineHandled ==
    \A end \in UNION {2..b.bytes : b \in Budgets} :
        (/\ Undisturbed
         /\ end <= Size(1) /\ files[1][end] = Newline /\ files[1][end - 1] # Newline)
            ~> \E n \in 1..Len(handled) : handled[n].ino = 1 /\ handled[n].to >= end

(* What README.md:59 says of any log, rotated or not: the event it emits   *)
(* is for a line, not for a part of one.                                   *)
EventsAreLines == \A n \in 1..Len(handled) : Whole(handled[n])
==============================================================================
