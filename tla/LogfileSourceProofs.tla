------------------------- MODULE LogfileSourceProofs -------------------------
(***************************************************************************)
(* Proofs about LogfileSource, for any bounds and any log.                 *)
(*                                                                         *)
(* The buffered lines lie one after the other between consumed_offset_ and *)
(* offset_ (Adjacent), which also keeps the offsets from running below 0.  *)
(* On a log that is only appended to every position is between two lines   *)
(* and every range is one line (AtLines); checkpoints are never ahead of   *)
(* the consumed bytes, so that a crash leaves at most the line in hand     *)
(* behind (Short), and without crashes the positions follow what was       *)
(* handed on (Following), which makes the source a LineStream.             *)
(***************************************************************************)
EXTENDS LogfileSource, FiniteSetTheorems, WellFoundedInduction, TLAPS

-----------------------------------------------------------------------------
(* Arithmetic: the least element of a set of numbers.  The library's       *)
(* theorem on the strict subsets of a set is applied to the intervals 0..n.*)
LEMMA LeastNumber ==
  ASSUME NEW T \in SUBSET Nat, T # {}
  PROVE  \E n \in T : \A m \in T : n <= m
  <1> DEFINE Intervals == {0..n : n \in T}
  <1>1. IsWellFoundedOn(StrictSubsetOrdering(Nat), FiniteSubsetsOf(Nat))
    BY FS_StrictSubsetOrderingWellFounded, Zenon
  <1>2. \A n \in T : 0..n \in FiniteSubsetsOf(Nat)
    <2>1. ASSUME NEW n \in T PROVE 0..n \in SUBSET Nat /\ IsFiniteSet(0..n)
      BY FS_Interval
    <2> QED  BY <2>1 DEF FiniteSubsetsOf
  <1>3. Intervals # {} /\ Intervals \subseteq FiniteSubsetsOf(Nat)
    BY <1>2
  <1>4. \E x \in Intervals : \A y \in Intervals : ~ (<<y, x>> \in StrictSubsetOrdering(Nat))
    <2> HIDE DEF Intervals
    <2> QED  BY <1>1, <1>3, WFMin, Zenon
  <1>5. PICK n \in T : \A m \in T : ~ (<<0..m, 0..n>> \in StrictSubsetOrdering(Nat))
    BY <1>4
  <1>6. ASSUME NEW m \in T, m < n PROVE FALSE
    <2>1. /\ 0..m \subseteq 0..n /\ n \in 0..n /\ n \notin 0..m
          /\ 0..m \in SUBSET Nat /\ 0..n \in SUBSET Nat
      BY <1>6
    <2>2. ~ (<<0..m, 0..n>> \in StrictSubsetOrdering(Nat)) /\ 0..m # 0..n
      BY <1>5, <2>1
    <2> QED  BY <2>1, <2>2 DEF StrictSubsetOrdering
  <1> QED  BY <1>6

-----------------------------------------------------------------------------
(* Types.  The positions name files that were created, and a file is open  *)
(* while it is read.                                                       *)

Counters == [created : Nat, truncates : Nat, errors : Nat, stops : Nat,
             crashes : Nat, others : Nat]

Within(c, b) ==
    /\ c.created <= b.created /\ c.truncates <= b.truncates
    /\ c.errors <= b.errors /\ c.stops <= b.stops
    /\ c.crashes <= b.crashes /\ c.others <= b.others

Limits == Within(count, budget)

Known(i) == i \in Nat /\ i <= count.created

Types ==
    /\ budget \in Budgets
    /\ count \in Counters
    /\ files \in [Inode -> Seq(Byte)]
    /\ pc \in Pc
    /\ ret \in {"idle", "pop", "pending", "emit", "down"}
    /\ disk \in Checkpoint
    /\ memory \in Checkpoint
    /\ offset \in Nat
    /\ consumed \in Nat
    /\ lineBuf \in Seq(LineRange)
    /\ line \in Seq(LineRange) /\ Len(line) <= 1
    /\ handled \in Seq(LineRange)

Files ==
    /\ Known(path) /\ Known(inode) /\ Known(fd) /\ Known(disk.ino) /\ Known(memory.ino)
    /\ \A i \in Inode : i > count.created => files[i] = <<>>
    /\ pc = "read" => fd # 0
    /\ pc \in {"ckpt", "ckpt_write"} => ret \in {"pending", "down"}
    /\ pc \in {"stat", "open", "read"} => ret \in {"pop", "emit"}

LEMMA Budgeted ==
  ASSUME Types, Limits
  PROVE  /\ count.created \in Nat /\ count.created <= MaxInodes /\ MaxInodes \in Nat
         /\ 1..count.created \subseteq Inode
         /\ \A i : Known(i) <=> i \in 0..count.created
         /\ \A i : Known(i) => i \in {0} \union Inode
         /\ budget \in Budget
  <1>1. /\ budget \in Budget /\ count.created \in Nat /\ MaxInodes \in Nat
        /\ budget.created \in 0..MaxInodes /\ count.created <= budget.created
    BY BudgetsAssumption, InodesAssumption DEF Types, Limits, Within, Budget, Counters
  <1>2. count.created <= MaxInodes
    BY <1>1
  <1> QED  BY <1>1, <1>2 DEF Known, Inode

LEMMA Uses ==
  ASSUME NEW c \in Counters, NEW b \in Budget, Within(c, b)
  PROVE  \A k \in DOMAIN c : c[k] <= b[k]
  BY DEF Counters, Budget, Within

(* One use more of a bound that is not reached.                            *)
LEMMA OneMore ==
  ASSUME NEW c \in Counters, NEW b \in Budget, Within(c, b), NEW d
  PROVE  /\ d = [c EXCEPT !.created = @ + 1] /\ c.created < b.created =>
               /\ d \in Counters /\ Within(d, b)
               /\ d.created = c.created + 1 /\ d.truncates = c.truncates /\ d.crashes = c.crashes /\ d.others = c.others
         /\ d = [c EXCEPT !.truncates = @ + 1] /\ c.truncates < b.truncates =>
               /\ d \in Counters /\ Within(d, b)
               /\ d.created = c.created /\ d.truncates = c.truncates + 1 /\ d.crashes = c.crashes /\ d.others = c.others
         /\ d = [c EXCEPT !.errors = @ + 1] /\ c.errors < b.errors =>
               /\ d \in Counters /\ Within(d, b)
               /\ d.created = c.created /\ d.truncates = c.truncates /\ d.crashes = c.crashes /\ d.others = c.others
         /\ d = [c EXCEPT !.stops = @ + 1] /\ c.stops < b.stops =>
               /\ d \in Counters /\ Within(d, b)
               /\ d.created = c.created /\ d.truncates = c.truncates /\ d.crashes = c.crashes /\ d.others = c.others
         /\ d = [c EXCEPT !.crashes = @ + 1] /\ c.crashes < b.crashes =>
               /\ d \in Counters /\ Within(d, b)
               /\ d.created = c.created /\ d.truncates = c.truncates /\ d.crashes = c.crashes + 1 /\ d.others = c.others
         /\ d = [c EXCEPT !.others = @ + 1] /\ c.others < b.others =>
               /\ d \in Counters /\ Within(d, b)
               /\ d.created = c.created /\ d.truncates = c.truncates /\ d.crashes = c.crashes /\ d.others = c.others + 1
  BY DEF Counters, Budget, Within

LEMMA TypesSuffice == Types /\ Limits /\ Files => TypeOK
  BY Budgeted, Uses DEF Types, Limits, Files, TypeOK, Known, Counters, Inode

LEMMA NextLineEnd ==
  ASSUME Types, NEW i \in Inode, NEW f \in Nat, LineEnds(i, f) # {}
  PROVE  /\ NextEnd(i, f) \in LineEnds(i, f)
         /\ \A m \in LineEnds(i, f) : NextEnd(i, f) <= m
         /\ NextEnd(i, f) \in Nat /\ f < NextEnd(i, f) /\ NextEnd(i, f) <= Size(i)
         /\ files[i][NextEnd(i, f)] = Newline /\ Size(i) \in Nat
  <1>1. Size(i) \in Nat
    BY DEF Types, Size
  <1>2. LineEnds(i, f) \in SUBSET Nat
    BY <1>1 DEF LineEnds
  <1>3. \E n \in LineEnds(i, f) : \A m \in LineEnds(i, f) : n <= m
    BY <1>2, LeastNumber
  <1>4. NextEnd(i, f) \in LineEnds(i, f) /\ \A m \in LineEnds(i, f) : NextEnd(i, f) <= m
    BY <1>3 DEF NextEnd
  <1> QED  BY <1>1, <1>4 DEF LineEnds

TypeInv == Types /\ Limits /\ Files

(* The lines that are buffered lie between consumed_offset_ and offset_,   *)
(* one after the other; it holds in a process that went down, too.         *)
Adjacent ==
    /\ lineBuf = <<>> => consumed = offset
    /\ lineBuf # <<>> => lineBuf[1].from = consumed /\ lineBuf[Len(lineBuf)].to = offset
    /\ \A k \in 1..(Len(lineBuf) - 1) : lineBuf[k].to = lineBuf[k + 1].from

LEMMA TypesInit == Init => TypeInv
  <1> SUFFICES ASSUME Init PROVE TypeInv
    OBVIOUS
  <1>1. budget \in Budget
    BY BudgetsAssumption DEF Init
  <1>2. count \in Counters /\ Within(count, budget) /\ count.created = 0
    <2>1. count = [created |-> 0, truncates |-> 0, errors |-> 0, stops |-> 0, crashes |-> 0,
                   others |-> 0]
      BY DEF Init
    <2> QED  BY <1>1, <2>1, InodesAssumption DEF Within, Budget, Counters
  <1>3. NoCheckpoint \in Checkpoint /\ NoCheckpoint.ino = 0
    BY DEF Checkpoint, NoCheckpoint
  <1>4. Types
    BY <1>2, <1>3 DEF Init, Types, Pc
  <1>5. Files
    BY <1>2, <1>3 DEF Init, Files, Known
  <1> QED  BY <1>2, <1>4, <1>5 DEF TypeInv, Limits

LEMMA EnvironmentTypes ==
  ASSUME TypeInv, Create \/ Remove \/ Truncate \/ OtherCheckpoint \/ \E b \in Byte : Write(b)
  PROVE  TypeInv'
  <1> USE DEF TypeInv
  <1>0. /\ count.created \in Nat /\ count.created <= MaxInodes /\ MaxInodes \in Nat
        /\ 1..count.created \subseteq Inode
        /\ budget \in Budget
    BY Budgeted
  <1>1. UNCHANGED <<inode, fd, memory, budget, offset, consumed, lineBuf, line, pc, ret, handled>>
    BY DEF Create, Remove, Truncate, OtherCheckpoint, Write, reader
  <1>2. CASE Create
    <2>1. /\ count.created < budget.created /\ path' = count.created + 1
          /\ count' = [count EXCEPT !.created = @ + 1] /\ UNCHANGED <<files, disk>>
      BY <1>2 DEF Create
    <2>2. count' \in Counters /\ count'.created = count.created + 1 /\ Within(count', budget)
      BY <1>0, <2>1, OneMore DEF Types, Limits
    <2>3. Types'
      BY <1>1, <2>1, <2>2 DEF Types
    <2>4. Files'
      BY <1>0, <1>1, <2>1, <2>2 DEF Files, Known, Inode
    <2> QED  BY <1>1, <2>2, <2>3, <2>4 DEF Limits
  <1>3. CASE Remove
    BY <1>0, <1>1, <1>3 DEF Remove, Types, Limits, Files, Known
  <1>4. CASE Truncate
    <2>1. /\ count' \in Counters /\ Limits' /\ count'.created = count.created
      BY <1>0, <1>1, <1>4, OneMore DEF Truncate, Types, Limits
    <2>2. files' \in [Inode -> Seq(Byte)] /\ \A i \in Inode : files'[i] \in {files[i], <<>>}
      <3>1. files \in [Inode -> Seq(Byte)] /\ files' = [files EXCEPT ![path] = <<>>]
        BY <1>4 DEF Truncate, Types
      <3>2. \A i \in Inode : files'[i] \in {files[i], <<>>}
        BY <3>1
      <3>3. \A i \in Inode : files'[i] \in Seq(Byte)
        BY <3>1, <3>2
      <3> QED  BY <3>1, <3>2, <3>3
    <2> QED  BY <1>0, <1>1, <1>4, <2>1, <2>2 DEF Truncate, Types, Files, Known
  <1>5. CASE OtherCheckpoint
    <2>1. /\ count' \in Counters /\ Limits' /\ count'.created = count.created
      BY <1>0, <1>1, <1>5, OneMore DEF OtherCheckpoint, Types, Limits
    <2>2. disk' \in Checkpoint /\ disk'.ino \in 0..count.created
      <3>1. CASE disk' = NoCheckpoint
        BY <1>0, <3>1 DEF NoCheckpoint, Checkpoint
      <3>2. ASSUME NEW i \in 1..count.created, NEW n \in {0} \union LineEnds(i, 0),
                   disk' = [ino |-> i, off |-> n]
            PROVE  disk' \in Checkpoint /\ disk'.ino \in 0..count.created
        <4>1. n \in Nat
          BY <1>0, <3>2 DEF LineEnds, Size, Types
        <4> QED  BY <1>0, <3>2, <4>1 DEF Checkpoint
      <3> QED  BY <1>5, <3>1, <3>2 DEF OtherCheckpoint
    <2> QED  BY <1>0, <1>1, <1>5, <2>1, <2>2 DEF OtherCheckpoint, Types, Files, Known
  <1>6. ASSUME NEW b \in Byte, Write(b) PROVE TypeInv'
    <2>1. /\ path # 0 /\ files' = [files EXCEPT ![path] = Append(@, b)] /\ UNCHANGED <<path, count, disk>>
      BY <1>6 DEF Write
    <2>2. path \in Inode /\ path <= count.created
      BY <1>0, <2>1 DEF Files, Known
    <2>3. files' \in [Inode -> Seq(Byte)] /\ \A i \in Inode : i # path => files'[i] = files[i]
      BY <2>1, <2>2 DEF Types
    <2> QED  BY <1>0, <1>1, <2>1, <2>2, <2>3, SMTT(30) DEF Types, Limits, Files, Known
  <1> QED  BY <1>2, <1>3, <1>4, <1>5, <1>6

LEMMA SourceTypes ==
  ASSUME TypeInv, Adjacent, Source
  PROVE  TypeInv'
  <1> USE DEF TypeInv
  <1>0. /\ count.created \in Nat /\ count.created <= MaxInodes /\ MaxInodes \in Nat
        /\ 1..count.created \subseteq Inode
        /\ budget \in Budget
    BY Budgeted
  <1>1. CASE GetNextEvent \/ HasNextLine
    BY <1>1 DEF GetNextEvent, HasNextLine, environment, reader, Types, Limits, Files, Known, Pc
  <1>2. CASE StatFails \/ OpenFails \/ Open
    BY <1>2 DEF StatFails, OpenFails, Open, ReadLinesFails, environment, reader, Types, Limits,
                Files, Known, Pc
  <1>3. CASE Stat
    BY <1>3 DEF Stat, ReadLinesReturn, environment, Types, Limits, Files, Known, Pc
  <1>4. CASE ReadLine
    <2>1. fd \in Inode /\ LineEnds(fd, offset) # {} /\ offset \in Nat
      <3>1. pc = "read" /\ LineEnds(fd, offset) # {}
        BY <1>4 DEF ReadLine
      <3>2. fd \in Nat /\ fd <= count.created /\ fd # 0
        BY <3>1 DEF Files, Known
      <3>3. fd \in 1..count.created
        BY <1>0, <3>2
      <3>4. offset \in Nat
        BY DEF Types
      <3> QED  BY <1>0, <3>1, <3>3, <3>4
    <2>2. NextEnd(fd, offset) \in Nat
      BY <2>1, NextLineEnd
    <2>3. [ino |-> fd, from |-> offset, to |-> NextEnd(fd, offset)] \in LineRange
      BY <2>1, <2>2 DEF LineRange
    <2>4. /\ lineBuf' = Append(lineBuf, [ino |-> fd, from |-> offset, to |-> NextEnd(fd, offset)])
          /\ offset' = NextEnd(fd, offset)
          /\ UNCHANGED <<environment, disk, inode, consumed, memory, fd, line, pc, ret, handled>>
      BY <1>4 DEF ReadLine
    <2>5. lineBuf' \in Seq(LineRange) /\ offset' \in Nat
      BY <2>2, <2>3, <2>4 DEF Types
    <2> QED  BY <2>4, <2>5 DEF environment, Types, Limits, Files, Known
  <1>5. CASE ReadEnd
    BY <1>5 DEF ReadEnd, ReadLinesReturn, environment, reader, Types, Limits, Files, Known, Pc
  <1>6. CASE GetNextLine
    <2>1. /\ UNCHANGED <<environment, disk, inode, offset, memory, fd, handled>>
          /\ \/ pc' = "ckpt" /\ ret' = "pending"
             \/ pc' = "pending" /\ UNCHANGED ret
      BY <1>6 DEF GetNextLine
    <2>2. CASE lineBuf = <<>> /\ line' = <<>> /\ UNCHANGED <<consumed, lineBuf>>
      BY <2>1, <2>2 DEF environment, Types, Limits, Files, Known, Pc
    <2>3. CASE /\ lineBuf # <<>> /\ line' = <<Head(lineBuf)>> /\ lineBuf' = Tail(lineBuf)
               /\ consumed' = consumed + (Head(lineBuf).to - Head(lineBuf).from)
      <3>1. Head(lineBuf) \in LineRange /\ lineBuf' \in Seq(LineRange)
        BY <2>3 DEF Types
      <3>2. line' \in Seq(LineRange) /\ Len(line') = 1
        BY <2>3, <3>1
      <3>3. consumed' \in Nat
        BY <2>3, <3>1, SMTT(30) DEF Types, LineRange, Adjacent
      <3> QED  BY <2>1, <3>1, <3>2, <3>3, SMTT(30) DEF environment, Types, Limits, Files, Known, Pc
    <2> QED  BY <1>6, <2>2, <2>3 DEF GetNextLine
  <1>7. CASE CheckpointUnchanged \/ CheckpointOpen \/ CheckpointWrite
    <2>1. Position \in Checkpoint /\ Position.ino = inode
      BY DEF Position, Checkpoint, Types, Files, Known
    <2>2. NoCheckpoint \in Checkpoint /\ NoCheckpoint.ino = 0
      BY DEF NoCheckpoint, Checkpoint
    <2>3. /\ UNCHANGED <<environment, reader, ret, handled>> /\ pc \in {"ckpt", "ckpt_write"}
          /\ pc' \in {ret, "ckpt_write"} /\ disk' \in {disk, memory, NoCheckpoint}
          /\ memory' \in {memory, Position}
      BY <1>7 DEF CheckpointUnchanged, CheckpointOpen, CheckpointWrite
    <2>4. disk' \in Checkpoint /\ memory' \in Checkpoint /\ Known(disk.ino)' /\ Known(memory.ino)'
      BY <1>0, <2>1, <2>2, <2>3, SMTT(30) DEF environment, Types, Files, Known
    <2> QED  BY <2>3, <2>4 DEF environment, reader, Types, Limits, Files, Known, Pc
  <1>8. CASE CheckpointOpenFails \/ CheckpointWriteFails
    <2>1. /\ count' \in Counters /\ Limits' /\ count'.created = count.created
      BY <1>0, <1>8, OneMore DEF CheckpointOpenFails, CheckpointWriteFails, Fail, Types, Limits
    <2> QED
      BY <1>8, <2>1, SMTT(30) DEF CheckpointOpenFails, CheckpointWriteFails, Position,
         Checkpoint, reader, Types, Files, Known, Pc
  <1>9. CASE Emit
    <2>1. handled' \in Seq(LineRange) /\ line' \in Seq(LineRange) /\ Len(line') <= 1
      BY <1>9 DEF Emit, Types
    <2> QED  BY <1>9, <2>1 DEF Emit, environment, Types, Limits, Files, Known, Pc
  <1> QED
    BY <1>1, <1>2, <1>3, <1>4, <1>5, <1>6, <1>7, <1>8, <1>9 DEF Source, ReadLines, WriteCheckpoint

LEMMA ProcessTypes ==
  ASSUME TypeInv, Detach \/ Crash \/ Restart
  PROVE  TypeInv'
  <1> USE DEF TypeInv
  <1>0. /\ count.created \in Nat /\ count.created <= MaxInodes /\ budget \in Budget
    BY Budgeted
  <1>1. CASE Detach \/ Crash
    <2>1. /\ count' \in Counters /\ Limits' /\ count'.created = count.created
      BY <1>0, <1>1, OneMore DEF Detach, Crash, Types, Limits
    <2> QED  BY <1>1, <2>1 DEF Detach, Crash, reader, Types, Files, Known, Pc
  <1>2. CASE Restart
    <2>1. disk.ino \in Nat /\ disk.off \in Nat
      BY DEF Types, Checkpoint
    <2>2. Types'
      BY <1>2, <2>1 DEF Restart, environment, Types, Pc
    <2>3. Files'
      BY <1>0, <1>2 DEF Restart, environment, Files, Known
    <2> QED  BY <1>2, <2>2, <2>3 DEF Restart, environment, Limits
  <1> QED  BY <1>1, <1>2

LEMMA TypesStep == TypeInv /\ Adjacent /\ [Next]_vars => TypeInv'
  <1> SUFFICES ASSUME TypeInv, Adjacent, [Next]_vars PROVE TypeInv'
    OBVIOUS
  <1>1. CASE UNCHANGED vars
    BY <1>1 DEF vars, TypeInv, Types, Limits, Files, Known
  <1> QED  BY <1>1, EnvironmentTypes, SourceTypes, ProcessTypes DEF Next

LEMMA AdjacentInit == Init => Adjacent
  BY DEF Init, Adjacent

LEMMA AdjacentStep == TypeInv /\ Adjacent /\ [Next]_vars => Adjacent'
  <1> SUFFICES ASSUME TypeInv, Adjacent, [Next]_vars PROVE Adjacent'
    OBVIOUS
  <1>0. lineBuf \in Seq(LineRange) /\ Len(lineBuf) \in Nat /\ offset \in Nat /\ consumed \in Nat
    BY DEF TypeInv, Types
  <1>1. CASE UNCHANGED <<lineBuf, consumed, offset>>
    BY <1>1 DEF Adjacent
  <1>2. CASE Stat
    <2>1. \/ lineBuf' = <<>> /\ consumed' = 0 /\ offset' = 0
          \/ UNCHANGED <<lineBuf, consumed, offset>>
      BY <1>2 DEF Stat
    <2> QED  BY <1>1, <2>1 DEF Adjacent
  <1>3. CASE ReadLine
    <2> DEFINE new == [ino |-> fd, from |-> offset, to |-> NextEnd(fd, offset)]
    <2>1. lineBuf' = Append(lineBuf, new) /\ offset' = new.to /\ consumed' = consumed
          /\ new.from = offset
      BY <1>3 DEF ReadLine
    <2> HIDE DEF new
    <2>2. /\ Len(lineBuf') = Len(lineBuf) + 1 /\ lineBuf'[Len(lineBuf) + 1] = new
          /\ \A k \in 1..Len(lineBuf) : lineBuf'[k] = lineBuf[k]
      BY <1>0, <2>1
    <2>3. CASE lineBuf = <<>>
      BY <1>0, <2>1, <2>2, <2>3 DEF Adjacent
    <2>4. CASE lineBuf # <<>>
      <3>1. Len(lineBuf) \in Nat \ {0} /\ 1 \in 1..Len(lineBuf) /\ Len(lineBuf) \in 1..Len(lineBuf)
        BY <1>0, <2>4
      <3>2. \A k \in 1..Len(lineBuf) :
               k = Len(lineBuf) \/ (k \in 1..(Len(lineBuf) - 1) /\ k + 1 \in 1..Len(lineBuf))
        BY <1>0
      <3>3. \A k \in 1..Len(lineBuf) : lineBuf'[k].to = lineBuf'[k + 1].from
        BY <2>1, <2>2, <2>4, <3>1, <3>2 DEF Adjacent
      <3>4. lineBuf' # <<>> /\ Len(lineBuf') - 1 = Len(lineBuf)
        BY <1>0, <2>2, <3>1
      <3> QED  BY <2>1, <2>2, <2>4, <3>1, <3>3, <3>4 DEF Adjacent
    <2> QED  BY <2>3, <2>4
  <1>4. CASE GetNextLine
    <2>1. CASE lineBuf # <<>>
      <3>1. /\ Head(lineBuf) = lineBuf[1] /\ Len(Tail(lineBuf)) = Len(lineBuf) - 1
            /\ Len(lineBuf) \in Nat \ {0} /\ lineBuf[1] \in LineRange
            /\ \A k \in 1..(Len(lineBuf) - 1) : Tail(lineBuf)[k] = lineBuf[k + 1]
        BY <1>0, <2>1
      <3>2. /\ lineBuf' = Tail(lineBuf) /\ offset' = offset
            /\ consumed' = consumed + (lineBuf[1].to - lineBuf[1].from)
        BY <1>4, <2>1, <3>1 DEF GetNextLine
      <3>3. consumed' = lineBuf[1].to
        BY <1>0, <2>1, <3>1, <3>2 DEF Adjacent, LineRange
      <3>4. CASE Len(lineBuf) = 1
        <4>1. lineBuf' = <<>>
          BY <1>0, <3>1, <3>2, <3>4
        <4>2. lineBuf[Len(lineBuf)].to = offset
          BY <2>1 DEF Adjacent
        <4>3. consumed' = offset' /\ 1..(Len(lineBuf') - 1) = {}
          BY <3>2, <3>3, <3>4, <4>1, <4>2
        <4> QED  BY <4>1, <4>3 DEF Adjacent
      <3>5. CASE Len(lineBuf) # 1
        <4>0. /\ Len(lineBuf') = Len(lineBuf) - 1 /\ 1 \in 1..(Len(lineBuf) - 1)
              /\ Len(lineBuf) - 1 \in 1..(Len(lineBuf) - 1)
              /\ Len(lineBuf) - 1 + 1 = Len(lineBuf)
          BY <3>1, <3>2, <3>5
        <4>1. lineBuf' # <<>> /\ Len(lineBuf') = Len(lineBuf) - 1
              /\ 1 \in 1..(Len(lineBuf) - 1) /\ Len(lineBuf) - 1 \in 1..(Len(lineBuf) - 1)
              /\ Len(lineBuf) - 1 + 1 = Len(lineBuf)
          BY <4>0
        <4>2. /\ lineBuf'[1] = lineBuf[1 + 1] /\ lineBuf'[Len(lineBuf')] = lineBuf[Len(lineBuf)]
          BY <3>1, <3>2, <4>1
        <4>3. lineBuf'[1].from = consumed' /\ lineBuf'[Len(lineBuf')].to = offset'
          BY <2>1, <3>2, <3>3, <4>1, <4>2 DEF Adjacent
        <4>4. \A k \in 1..(Len(lineBuf') - 1) :
                 /\ k \in 1..(Len(lineBuf) - 1) /\ k + 1 \in 1..(Len(lineBuf) - 1)
          BY <3>1, <4>1
        <4>5. \A k \in 1..(Len(lineBuf') - 1) : lineBuf'[k].to = lineBuf'[k + 1].from
          BY <3>1, <3>2, <4>4 DEF Adjacent
        <4> QED  BY <4>1, <4>3, <4>5 DEF Adjacent
      <3> QED  BY <3>4, <3>5
    <2>2. CASE lineBuf = <<>>
      BY <1>1, <1>4, <2>2 DEF GetNextLine
    <2> QED  BY <2>1, <2>2
  <1>5. CASE Restart
    BY <1>5 DEF Restart, Adjacent
  <1>6. CASE Create \/ Remove \/ Truncate \/ OtherCheckpoint \/ (\E b \in Byte : Write(b))
             \/ Detach \/ Crash
    BY <1>1, <1>6 DEF Create, Remove, Truncate, OtherCheckpoint, Write, Detach, Crash, reader
  <1>7. CASE GetNextEvent \/ StatFails \/ OpenFails \/ Open \/ ReadEnd \/ WriteCheckpoint
             \/ HasNextLine \/ Emit
    BY <1>1, <1>7 DEF GetNextEvent, StatFails, OpenFails, Open, ReadEnd, WriteCheckpoint,
       CheckpointUnchanged, CheckpointOpen, CheckpointOpenFails, CheckpointWrite,
       CheckpointWriteFails, HasNextLine, Emit, reader
  <1> QED
    BY <1>1, <1>2, <1>3, <1>4, <1>5, <1>6, <1>7 DEF Next, Source, ReadLines, vars

BaseInv == TypeInv /\ Adjacent

LEMMA BaseHolds == Spec => []BaseInv
  BY TypesInit, TypesStep, AdjacentInit, AdjacentStep, PTL DEF Spec, BaseInv

(* Every variable has its type, for any bounds and any log.                *)
THEOREM TypeCorrect == Spec => []TypeOK
  BY BaseHolds, TypesSuffice, PTL DEF BaseInv, TypeInv

(* consumed_offset_ and offset_ enclose exactly the buffered lines, so     *)
(* that a checkpoint never skips or repeats a part of a line that was read *)
(* (logfile.cc lines 156-161 and 226-247), whatever happens to the log.    *)
THEOREM PositionsEnclose == Spec => []OffsetAccounting
  <1>1. BaseInv => OffsetAccounting
    BY DEF BaseInv, Adjacent, OffsetAccounting
  <1> QED  BY <1>1, BaseHolds, PTL

-----------------------------------------------------------------------------
(* A log that is only appended to.  Every position that is kept is between *)
(* two lines (Places), and every range that was read is exactly one line   *)
(* of the log (Complete); neither can be undone by more bytes.             *)

Between(i, n) == n = 0 \/ (n <= Size(i) /\ files[i][n] = Newline)

Places == {c \in Checkpoint : IF c.ino \in Inode THEN Between(c.ino, c.off) ELSE c.off = 0}

Complete ==
    {r \in LineRange :
        /\ Between(r.ino, r.from)
        /\ r.to \in LineEnds(r.ino, r.from)
        /\ \A m \in LineEnds(r.ino, r.from) : r.to <= m}

OfTheFile == {r \in Complete : r.ino = inode}

AllIn(s, S) == \A k \in 1..Len(s) : s[k] \in S

ReadPosition == [ino |-> inode, off |-> offset]

AtLines ==
    /\ {disk, memory, Position, ReadPosition} \subseteq Places
    /\ AllIn(lineBuf, OfTheFile) /\ AllIn(line, Complete) /\ AllIn(handled, Complete)
    /\ pc \in {"open", "read"} => inode # 0
    /\ pc = "read" => fd = inode

WholeInv == AppendOnly => AtLines

LEMMA AllInAppend ==
  ASSUME NEW X, NEW s \in Seq(X), NEW S, AllIn(s, S), NEW e \in X, e \in S
  PROVE  AllIn(Append(s, e), S)
  <1>1. /\ Len(Append(s, e)) = Len(s) + 1 /\ Len(s) \in Nat
        /\ \A n \in 1..Len(s) : Append(s, e)[n] = s[n]
        /\ Append(s, e)[Len(s) + 1] = e
    OBVIOUS
  <1>2. \A n \in 1..(Len(s) + 1) : n \in 1..Len(s) \/ n = Len(s) + 1
    BY <1>1
  <1> QED  BY <1>1, <1>2 DEF AllIn

LEMMA AllInTail ==
  ASSUME NEW X, NEW s \in Seq(X), NEW S, AllIn(s, S), s # <<>>
  PROVE  /\ AllIn(Tail(s), S) /\ Head(s) \in S /\ Head(s) \in X /\ Head(s) = s[1]
         /\ Tail(s) \in Seq(X) /\ 1 \in 1..Len(s)
  <1>1. /\ Head(s) = s[1] /\ Len(Tail(s)) = Len(s) - 1 /\ Len(s) \in Nat \ {0}
        /\ \A k \in 1..(Len(s) - 1) : Tail(s)[k] = s[k + 1]
        /\ Tail(s) \in Seq(X) /\ Head(s) \in X
    OBVIOUS
  <1>2. 1 \in 1..Len(s) /\ \A k \in 1..(Len(s) - 1) : k + 1 \in 1..Len(s)
    BY <1>1
  <1> QED  BY <1>1, <1>2 DEF AllIn

(* The line that is being worked on: none or one.                          *)
LEMMA NoneOrOne ==
  ASSUME NEW X, NEW s \in Seq(X), Len(s) <= 1
  PROVE  s = <<>> \/ (s = <<s[1]>> /\ s[1] \in X /\ Len(s) = 1)
  <1>1. CASE Len(s) = 0
    BY <1>1
  <1>2. CASE Len(s) = 1
    BY <1>2
  <1>3. Len(s) \in Nat
    OBVIOUS
  <1>4. Len(s) = 0 \/ Len(s) = 1
    BY <1>3
  <1> QED  BY <1>1, <1>2, <1>4, Zenon

LEMMA OneAppended ==
  ASSUME NEW X, NEW s \in Seq(X), NEW t, t = <<t[1]>>, t[1] \in X
  PROVE  s \o t = Append(s, t[1]) /\ s \o t # <<>> /\ (s \o t)[Len(s \o t)] = t[1]
  <1>1. \A u \in X : /\ s \o <<u>> = Append(s, u) /\ Len(Append(s, u)) = Len(s) + 1
                     /\ Append(s, u)[Len(s) + 1] = u /\ Len(s) \in Nat
    OBVIOUS
  <1>2. s \o t = Append(s, t[1])
    BY <1>1
  <1>3. Len(s \o t) = Len(s) + 1 /\ (s \o t)[Len(s) + 1] = t[1] /\ Len(s) \in Nat
    BY <1>1, <1>2
  <1>4. s \o t # <<>>
    BY <1>3
  <1> QED  BY <1>2, <1>3, <1>4

LEMMA AllInConcat ==
  ASSUME NEW X, NEW s \in Seq(X), NEW t \in Seq(X), Len(t) <= 1, NEW S, AllIn(s, S), AllIn(t, S)
  PROVE  AllIn(s \o t, S)
  <1>1. CASE t = <<>>
    BY <1>1 DEF AllIn
  <1>2. CASE t = <<t[1]>> /\ t[1] \in X /\ Len(t) = 1
    <2>1. t[1] \in S
      BY <1>2 DEF AllIn
    <2>2. s \o t = Append(s, t[1])
      BY <1>2, OneAppended
    <2> QED  BY <1>2, <2>1, <2>2, AllInAppend
  <1> QED  BY <1>1, <1>2, NoneOrOne

(* Only the writer changes such a log, and only at its end.                *)
LEMMA LogGrows ==
  ASSUME TypeInv, [Next]_vars, AppendOnly'
  PROVE  /\ AppendOnly
         /\ \A i \in Inode : /\ files[i] \in Seq(Byte) /\ files'[i] \in Seq(Byte)
                             /\ Len(files[i]) <= Len(files'[i])
                             /\ \A n \in 1..Len(files[i]) : files'[i][n] = files[i][n]
  <1>0. /\ files \in [Inode -> Seq(Byte)] /\ count.created \in Nat /\ count.truncates \in Nat
        /\ count \in Counters /\ budget \in Budget /\ Within(count, budget)
    BY Budgeted DEF TypeInv, Types, Limits, Counters
  <1>1. CASE UNCHANGED <<files, count>>
    BY <1>0, <1>1 DEF AppendOnly
  <1>2. CASE Create
    <2>1. count'.created = count.created + 1 /\ count'.truncates = count.truncates /\ files' = files
      BY <1>0, <1>2, OneMore DEF Create
    <2> QED  BY <1>0, <2>1 DEF AppendOnly
  <1>3. CASE Truncate
    <2>1. count'.truncates = count.truncates + 1
      BY <1>0, <1>3, OneMore DEF Truncate
    <2> QED  BY <1>0, <2>1 DEF AppendOnly
  <1>4. ASSUME NEW b \in Byte, Write(b)
        PROVE  /\ AppendOnly
               /\ \A i \in Inode : /\ files[i] \in Seq(Byte) /\ files'[i] \in Seq(Byte)
                                   /\ Len(files[i]) <= Len(files'[i])
                                   /\ \A n \in 1..Len(files[i]) : files'[i][n] = files[i][n]
    <2>1. /\ files' = [files EXCEPT ![path] = Append(@, b)] /\ count' = count
      BY <1>4 DEF Write
    <2>2. \A i \in Inode : files'[i] \in {files[i], Append(files[i], b)}
      BY <1>0, <2>1
    <2>3. ASSUME NEW i \in Inode
          PROVE  /\ files[i] \in Seq(Byte) /\ files'[i] \in Seq(Byte)
                 /\ Len(files[i]) <= Len(files'[i])
                 /\ \A n \in 1..Len(files[i]) : files'[i][n] = files[i][n]
      <3>1. files[i] \in Seq(Byte)
        BY <1>0
      <3> QED  BY <2>2, <3>1, SMTT(30)
    <2> QED  BY <2>1, <2>3 DEF AppendOnly
  <1>5. CASE \/ OtherCheckpoint \/ CheckpointOpenFails \/ CheckpointWriteFails \/ Detach \/ Crash
    <2>1. count'.created = count.created /\ count'.truncates = count.truncates /\ files' = files
      BY <1>0, <1>5, OneMore
      DEF OtherCheckpoint, CheckpointOpenFails, CheckpointWriteFails, Fail, Detach, Crash
    <2> QED  BY <1>0, <2>1 DEF AppendOnly
  <1>6. CASE Remove \/ Restart \/ GetNextEvent \/ ReadLines \/ GetNextLine \/ CheckpointUnchanged
             \/ CheckpointOpen \/ CheckpointWrite \/ HasNextLine \/ Emit
    BY <1>1, <1>6 DEF Remove, Restart, GetNextEvent, ReadLines, StatFails, Stat, OpenFails, Open,
       ReadLine, ReadEnd, GetNextLine, CheckpointUnchanged, CheckpointOpen, CheckpointWrite,
       HasNextLine, Emit, environment
  <1> QED
    BY <1>1, <1>2, <1>3, <1>4, <1>5, <1>6 DEF Next, Source, WriteCheckpoint, vars

LEMMA LinesStay ==
  ASSUME TypeInv, [Next]_vars, AppendOnly'
  PROVE  AppendOnly /\ Places \subseteq Places' /\ Complete \subseteq Complete'
  <1>1. /\ AppendOnly
        /\ \A i \in Inode : /\ files[i] \in Seq(Byte) /\ files'[i] \in Seq(Byte)
                            /\ Len(files[i]) <= Len(files'[i])
                            /\ \A n \in 1..Len(files[i]) : files'[i][n] = files[i][n]
    BY LogGrows
  <1>2. ASSUME NEW i \in Inode, NEW n \in Nat, Between(i, n) PROVE Between(i, n)'
    BY <1>1, <1>2 DEF Between, Size
  <1>3. Places \subseteq Places'
    BY <1>2 DEF Places, Checkpoint
  <1>4. ASSUME NEW r \in Complete PROVE r \in Complete'
    <2>1. /\ r \in LineRange /\ r.ino \in Inode /\ r.from \in Nat /\ r.to \in Nat
          /\ Between(r.ino, r.from) /\ r.to \in LineEnds(r.ino, r.from)
          /\ \A m \in LineEnds(r.ino, r.from) : r.to <= m
      BY DEF Complete, LineRange
    <2>2. /\ r.to \in (r.from + 1)..Len(files[r.ino]) /\ files[r.ino][r.to] = Newline
          /\ \A m \in (r.from + 1)..Len(files[r.ino]) : files[r.ino][m] = Newline => r.to <= m
      BY <2>1 DEF LineEnds, Size
    <2>3. /\ Len(files[r.ino]) \in Nat /\ Len(files'[r.ino]) \in Nat
          /\ Len(files[r.ino]) <= Len(files'[r.ino])
          /\ \A n \in 1..Len(files[r.ino]) : files'[r.ino][n] = files[r.ino][n]
      BY <1>1, <2>1
    <2>4. r.to \in (r.from + 1)..Len(files'[r.ino]) /\ files'[r.ino][r.to] = Newline
      BY <2>1, <2>2, <2>3
    <2>5. \A m \in (r.from + 1)..Len(files'[r.ino]) : files'[r.ino][m] = Newline => r.to <= m
      BY <2>1, <2>2, <2>3
    <2>6. Between(r.ino, r.from)'
      BY <1>2, <2>1
    <2> QED  BY <2>1, <2>4, <2>5, <2>6 DEF Complete, LineEnds, Size
  <1> QED  BY <1>1, <1>3, <1>4

LEMMA PlaceOf ==
  ASSUME TypeInv, NEW i \in Inode, NEW n \in Nat, Between(i, n)
  PROVE  [ino |-> i, off |-> n] \in Places
  BY InodesAssumption DEF Places, Checkpoint, Inode

LEMMA NoPlace == NoCheckpoint \in Places /\ \A n : Between(n, 0)
  BY DEF Places, Checkpoint, NoCheckpoint, Between

LEMMA WholeInit == Init => WholeInv
  <1> SUFFICES ASSUME Init PROVE AtLines
    BY DEF WholeInv
  <1>1. Position = NoCheckpoint /\ ReadPosition = NoCheckpoint
    BY DEF Init, Position, ReadPosition, NoCheckpoint
  <1> QED  BY <1>1, NoPlace DEF Init, AtLines, AllIn

LEMMA ReadLineWhole ==
  ASSUME BaseInv, AtLines, AppendOnly, ReadLine, Places \subseteq Places', Complete \subseteq Complete'
  PROVE  AtLines'
  <1> DEFINE new == [ino |-> fd, from |-> offset, to |-> NextEnd(fd, offset)]
  <1>1. /\ pc = "read" /\ LineEnds(fd, offset) # {} /\ lineBuf' = Append(lineBuf, new)
        /\ offset' = NextEnd(fd, offset)
        /\ UNCHANGED <<files, disk, inode, consumed, memory, fd, line, pc, handled>>
    BY DEF ReadLine, environment
  <1>2. fd = inode /\ fd # 0 /\ fd \in Inode /\ offset \in Nat /\ Types
    <2>1. Known(fd) /\ fd # 0 /\ fd = inode
      BY <1>1 DEF BaseInv, TypeInv, Files, AtLines
    <2> QED  BY <2>1, Budgeted DEF BaseInv, TypeInv, Types
  <1>3. /\ NextEnd(fd, offset) \in LineEnds(fd, offset)
        /\ \A m \in LineEnds(fd, offset) : NextEnd(fd, offset) <= m
        /\ NextEnd(fd, offset) \in Nat /\ NextEnd(fd, offset) <= Size(fd)
        /\ files[fd][NextEnd(fd, offset)] = Newline
    BY <1>1, <1>2, NextLineEnd
  <1>4. Between(fd, offset)
    <2>1. ReadPosition \in Places /\ ReadPosition.ino = inode /\ ReadPosition.off = offset
      BY DEF AtLines, ReadPosition
    <2> QED  BY <1>2, <2>1 DEF Places
  <1>5. new \in LineRange /\ new \in OfTheFile
    BY <1>2, <1>3, <1>4 DEF LineRange, Complete, OfTheFile
  <1>6. ReadPosition' \in Places
    BY <1>1, <1>2, <1>3, PlaceOf DEF BaseInv, Between, ReadPosition
  <1> HIDE DEF new
  <1>7. AllIn(lineBuf', OfTheFile)
    BY <1>1, <1>2, <1>5, AllInAppend DEF AtLines, Types
  <1>8. OfTheFile \subseteq OfTheFile'
    BY <1>1 DEF OfTheFile
  <1>9. AllIn(lineBuf, OfTheFile)' /\ AllIn(line, Complete)' /\ AllIn(handled, Complete)'
    BY <1>1, <1>7, <1>8 DEF AtLines, AllIn
  <1> QED  BY <1>1, <1>6, <1>9 DEF AtLines, Position

LEMMA GetNextLineWhole ==
  ASSUME BaseInv, AtLines, AppendOnly, GetNextLine, Places \subseteq Places',
         Complete \subseteq Complete'
  PROVE  AtLines'
  <1>1. /\ pc' \in {"ckpt", "pending"}
        /\ UNCHANGED <<files, disk, inode, offset, memory, fd, handled>>
    BY DEF GetNextLine, environment
  <1>2. OfTheFile \subseteq OfTheFile'
    BY <1>1 DEF OfTheFile
  <1>3. CASE lineBuf = <<>>
    <2>1. line' = <<>> /\ UNCHANGED <<consumed, lineBuf>>
      BY <1>3 DEF GetNextLine
    <2> QED  BY <1>1, <1>2, <2>1 DEF AtLines, AllIn, Position, ReadPosition
  <1>4. CASE lineBuf # <<>>
    <2>1. /\ line' = <<Head(lineBuf)>> /\ lineBuf' = Tail(lineBuf)
          /\ consumed' = consumed + (Head(lineBuf).to - Head(lineBuf).from)
      BY <1>4 DEF GetNextLine
    <2>2. lineBuf \in Seq(LineRange) /\ AllIn(lineBuf, OfTheFile)
      BY DEF BaseInv, TypeInv, Types, AtLines
    <2>3. /\ AllIn(Tail(lineBuf), OfTheFile) /\ Head(lineBuf) \in OfTheFile
          /\ Head(lineBuf) \in LineRange /\ Head(lineBuf) = lineBuf[1]
      BY <1>4, <2>2, AllInTail
    <2>4. consumed' = Head(lineBuf).to
      BY <1>4, <2>1, <2>3, SMTT(30) DEF BaseInv, TypeInv, Types, Adjacent, LineRange
    <2>5. Between(inode, consumed') /\ inode \in Inode /\ consumed' \in Nat
      BY <2>3, <2>4 DEF OfTheFile, Complete, LineEnds, LineRange, Between
    <2>6. Position' \in Places
      BY <1>1, <2>5, PlaceOf DEF Position, BaseInv
    <2>7. AllIn(line', Complete)
      <3>1. \A u : \A k \in 1..Len(<<u>>) : <<u>>[k] = u
        OBVIOUS
      <3> QED  BY <2>1, <2>3, <3>1 DEF AllIn, OfTheFile
    <2>8. AllIn(lineBuf, OfTheFile)' /\ AllIn(line, Complete)' /\ AllIn(handled, Complete)'
      BY <1>1, <1>2, <2>1, <2>3, <2>7 DEF AtLines, AllIn
    <2> QED  BY <1>1, <2>6, <2>8 DEF AtLines, ReadPosition
  <1> QED  BY <1>3, <1>4

LEMMA WholeStep == BaseInv /\ WholeInv /\ [Next]_vars => WholeInv'
  <1> SUFFICES ASSUME BaseInv, WholeInv, [Next]_vars, AppendOnly' PROVE AtLines'
    BY DEF WholeInv
  <1>0. /\ AppendOnly /\ Places \subseteq Places' /\ Complete \subseteq Complete' /\ TypeInv
        /\ AtLines
    BY LinesStay DEF BaseInv, WholeInv
  <1>1. CASE /\ UNCHANGED <<inode, offset, consumed, lineBuf, fd, line, handled>>
             /\ pc' = pc \/ pc' \notin {"open", "read"}
             /\ {disk', memory'} \subseteq Places'
    <2>1. OfTheFile \subseteq OfTheFile'
      BY <1>0, <1>1 DEF OfTheFile
    <2>2. AllIn(lineBuf, OfTheFile)' /\ AllIn(line, Complete)' /\ AllIn(handled, Complete)'
      BY <1>0, <1>1, <2>1 DEF AtLines, AllIn
    <2> QED  BY <1>0, <1>1, <2>2 DEF AtLines, Position, ReadPosition
  <1>2. CASE Create \/ Remove \/ Truncate \/ (\E b \in Byte : Write(b)) \/ Detach \/ Crash
             \/ GetNextEvent \/ StatFails \/ OpenFails \/ ReadEnd \/ CheckpointUnchanged
             \/ CheckpointWriteFails \/ HasNextLine \/ UNCHANGED vars
    <2>1. /\ UNCHANGED <<inode, offset, consumed, lineBuf, fd, line, handled, disk, memory>>
          /\ pc' = pc \/ pc' \notin {"open", "read"}
      BY <1>0, <1>2 DEF Create, Remove, Truncate, Write, Detach, Crash, GetNextEvent, StatFails,
         OpenFails, ReadEnd, ReadLinesFails, ReadLinesReturn, CheckpointUnchanged,
         CheckpointWriteFails, HasNextLine, reader, vars, TypeInv, Types
    <2> QED  BY <1>0, <1>1, <2>1 DEF AtLines
  <1>3. CASE CheckpointOpen \/ CheckpointOpenFails \/ CheckpointWrite
    <2>1. /\ UNCHANGED <<inode, offset, consumed, lineBuf, fd, line, handled>>
          /\ pc' \notin {"open", "read"} /\ memory' \in {memory, Position}
          /\ disk' \in {disk, memory, NoCheckpoint}
      BY <1>0, <1>3 DEF CheckpointOpen, CheckpointOpenFails, CheckpointWrite, reader, TypeInv, Types
    <2> QED  BY <1>0, <1>1, <2>1, NoPlace DEF AtLines
  <1>4. CASE OtherCheckpoint
    <2>1. /\ UNCHANGED <<inode, offset, consumed, lineBuf, fd, line, handled, memory, pc>>
      BY <1>4 DEF OtherCheckpoint, reader
    <2>2. ASSUME NEW i \in 1..count.created, NEW n \in {0} \union LineEnds(i, 0)
          PROVE  [ino |-> i, off |-> n] \in Places
      <3>1. i \in Inode
        BY <1>0, Budgeted DEF TypeInv
      <3>2. n \in Nat /\ Between(i, n)
        BY <1>0, <3>1 DEF LineEnds, Size, Between, TypeInv, Types
      <3> QED  BY <1>0, <3>1, <3>2, PlaceOf
    <2>3. disk' \in Places
      BY <1>4, <2>2, NoPlace DEF OtherCheckpoint
    <2> QED  BY <1>0, <1>1, <2>1, <2>3 DEF AtLines
  <1>5. CASE Stat
    <2>1. /\ path # 0 /\ path \in Inode /\ inode' = path
          /\ UNCHANGED <<disk, memory, fd, line, handled, files>>
          /\ pc' # "read"
      <3>1. path # 0 /\ Known(path) /\ inode' = path /\ pc' # "read"
            /\ UNCHANGED <<disk, memory, fd, line, handled, files>>
        BY <1>0, <1>5 DEF Stat, ReadLinesReturn, environment, TypeInv, Types, Files
      <3> QED  BY <1>0, <3>1, Budgeted DEF TypeInv
    <2>2. CASE lineBuf' = <<>> /\ consumed' = 0 /\ offset' = 0
      <3>1. Position' \in Places /\ ReadPosition' \in Places
        BY <1>0, <2>1, <2>2, PlaceOf, NoPlace DEF Position, ReadPosition
      <3>2. AllIn(lineBuf, OfTheFile)' /\ AllIn(line, Complete)' /\ AllIn(handled, Complete)'
        BY <1>0, <2>1, <2>2 DEF AtLines, AllIn
      <3> QED  BY <1>0, <2>1, <3>1, <3>2, InodesAssumption DEF AtLines, Inode
    <2>3. CASE inode = path /\ UNCHANGED <<lineBuf, consumed, offset>>
      <3>1. OfTheFile \subseteq OfTheFile'
        BY <1>0, <2>1, <2>3 DEF OfTheFile
      <3>2. AllIn(lineBuf, OfTheFile)' /\ AllIn(line, Complete)' /\ AllIn(handled, Complete)'
        BY <1>0, <2>1, <2>3, <3>1 DEF AtLines, AllIn
      <3> QED
        BY <1>0, <2>1, <2>3, <3>2, InodesAssumption DEF AtLines, Inode, Position, ReadPosition
    <2> QED  BY <1>5, <2>2, <2>3 DEF Stat
  <1>6. CASE Open
    <2>1. /\ UNCHANGED <<inode, offset, consumed, lineBuf, line, handled, disk, memory, count, path>>
          /\ pc = "open" /\ pc' = "read" /\ fd' = path /\ path # 0
      BY <1>6 DEF Open, environment
    <2>2. inode # 0 /\ inode = path
      BY <1>0, <2>1, Budgeted DEF AtLines, TypeInv, Files, Known, AppendOnly
    <2>3. OfTheFile \subseteq OfTheFile'
      BY <1>0, <2>1 DEF OfTheFile
    <2>4. AllIn(lineBuf, OfTheFile)' /\ AllIn(line, Complete)' /\ AllIn(handled, Complete)'
      BY <1>0, <2>1, <2>3 DEF AtLines, AllIn
    <2> QED  BY <1>0, <2>1, <2>2, <2>4 DEF AtLines, Position, ReadPosition
  <1>7. CASE ReadLine
    BY <1>0, <1>7, ReadLineWhole
  <1>8. CASE GetNextLine
    BY <1>0, <1>8, GetNextLineWhole
  <1>9. CASE Emit
    <2>1. /\ handled' = handled \o line /\ line' = <<>> /\ pc' \in {"idle", "pop"}
          /\ UNCHANGED <<files, disk, inode, offset, consumed, lineBuf, memory, fd>>
      BY <1>9 DEF Emit, environment
    <2>2. AllIn(handled', Complete)
      BY <1>0, <2>1, AllInConcat DEF AtLines, TypeInv, Types
    <2>3. OfTheFile \subseteq OfTheFile' /\ Len(line') = 0
      BY <1>0, <2>1 DEF OfTheFile
    <2>4. AllIn(lineBuf, OfTheFile)' /\ AllIn(line, Complete)' /\ AllIn(handled, Complete)'
      BY <1>0, <2>1, <2>2, <2>3 DEF AtLines, AllIn
    <2> QED  BY <1>0, <2>1, <2>4 DEF AtLines, Position, ReadPosition
  <1>10. CASE Restart
    <2>1. /\ inode' = disk.ino /\ offset' = disk.off /\ consumed' = disk.off /\ memory' = disk
          /\ disk' = disk /\ lineBuf' = <<>> /\ line' = <<>> /\ pc' = "idle"
          /\ handled' = handled
      BY <1>10 DEF Restart
    <2>2. Position' = disk /\ ReadPosition' = disk
      BY <1>0, <2>1 DEF TypeInv, Types, Checkpoint, Position, ReadPosition
    <2>3. AllIn(lineBuf, OfTheFile)' /\ AllIn(line, Complete)' /\ AllIn(handled, Complete)'
      BY <1>0, <2>1 DEF AtLines, AllIn
    <2> QED  BY <1>0, <2>1, <2>2, <2>3 DEF AtLines
  <1> QED
    BY <1>2, <1>3, <1>4, <1>5, <1>6, <1>7, <1>8, <1>9, <1>10
    DEF Next, Source, ReadLines, WriteCheckpoint

LEMMA WholeHolds == Spec => []WholeInv
  BY BaseHolds, WholeInit, WholeStep, PTL DEF Spec

(* Every line handed on starts where a line of the log starts, as long as  *)
(* the log is only appended to: no half-written line, no full buffer and   *)
(* no restart, from whose checkpoint ever, makes an event of a fragment.   *)
THEOREM LinesAreWhole == Spec => []WholeLines
  <1>1. BaseInv /\ WholeInv => WholeLines
    BY DEF WholeInv, AtLines, AllIn, Complete, Between, WholeLines, Whole
  <1> QED  BY <1>1, BaseHolds, WholeHolds, PTL

-----------------------------------------------------------------------------
(* What is lost.  A checkpoint is never ahead of the consumed bytes, so a  *)
(* process that goes down leaves at most the line it had in hand behind.   *)

(* No line is in hand while the source waits, reads for the next line or   *)
(* writes the last checkpoint.                                             *)
HandsFree ==
    /\ pc \in {"idle", "pop"} => line = <<>>
    /\ pc \in {"stat", "open", "read"} /\ ret = "pop" => line = <<>>
    /\ pc \in {"ckpt", "ckpt_write"} /\ ret = "down" => line = <<>>

Elements(s) == {s[k] : k \in 1..Len(s)}
Missing(i, n) == LinesUpTo(i, n) \ Elements(handled)

AtMost(S, n) == IsFiniteSet(S) /\ Cardinality(S) <= n

Careful == AppendOnly /\ count.others = 0

BehindConsumed(c) == c.ino # 0 => c.ino = inode /\ c.off <= consumed

Short ==
    /\ pc # "down" =>
          /\ BehindConsumed(disk) /\ BehindConsumed(memory)
          /\ inode # 0 => AtMost(Missing(inode, consumed) \ Elements(line), count.crashes)
    /\ pc = "down" /\ disk.ino # 0 => AtMost(Missing(disk.ino, disk.off), count.crashes)

LossInv == Careful => Short

LEMMA HandsFreeInit == Init => HandsFree
  BY DEF Init, HandsFree

LEMMA HandsFreeStep == BaseInv /\ HandsFree /\ [Next]_vars => HandsFree'
  <1> SUFFICES ASSUME BaseInv, HandsFree, [Next]_vars PROVE HandsFree'
    OBVIOUS
  <1>0. /\ pc \in {"ckpt", "ckpt_write"} => ret \in {"pending", "down"}
        /\ pc \in {"stat", "open", "read"} => ret \in {"pop", "emit"}
    BY DEF BaseInv, TypeInv, Files
  <1>1. CASE UNCHANGED <<pc, ret, line>>
    BY <1>1 DEF HandsFree
  <1>2. CASE Create \/ Remove \/ Truncate \/ OtherCheckpoint \/ (\E b \in Byte : Write(b))
             \/ ReadLine \/ UNCHANGED vars
    BY <1>1, <1>2 DEF Create, Remove, Truncate, OtherCheckpoint, Write, ReadLine, reader, vars
  <1>3. CASE GetNextEvent \/ StatFails \/ Stat \/ OpenFails \/ Open \/ ReadEnd \/ HasNextLine
    BY <1>0, <1>3 DEF GetNextEvent, StatFails, Stat, OpenFails, Open, ReadEnd, HasNextLine,
       ReadLinesFails, ReadLinesReturn, reader, HandsFree
  <1>4. CASE WriteCheckpoint
    BY <1>0, <1>4 DEF WriteCheckpoint, CheckpointUnchanged, CheckpointOpen, CheckpointOpenFails,
       CheckpointWrite, CheckpointWriteFails, reader, HandsFree
  <1>5. CASE GetNextLine \/ Emit \/ Detach \/ Crash \/ Restart
    BY <1>5 DEF GetNextLine, Emit, Detach, Crash, Restart, reader, HandsFree
  <1> QED  BY <1>2, <1>3, <1>4, <1>5 DEF Next, Source, ReadLines

LEMMA FewerElements ==
  ASSUME NEW S, NEW n \in Nat, AtMost(S, n), NEW T, T \subseteq S
  PROVE  AtMost(T, n) /\ AtMost(T, n + 1)
  <1>1. IsFiniteSet(T) /\ Cardinality(T) <= Cardinality(S)
    BY FS_Subset DEF AtMost
  <1>2. Cardinality(T) \in Nat /\ Cardinality(S) \in Nat
    BY <1>1, FS_CardinalityType DEF AtMost
  <1> QED  BY <1>1, <1>2 DEF AtMost

LEMMA OneElementMore ==
  ASSUME NEW S, NEW n \in Nat, NEW x, AtMost(S \ {x}, n)
  PROVE  AtMost(S, n + 1)
  <1>1. /\ IsFiniteSet((S \ {x}) \union {x}) /\ Cardinality(S \ {x}) \in Nat
        /\ Cardinality((S \ {x}) \union {x}) = Cardinality(S \ {x}) + 1
    BY FS_AddElement, FS_CardinalityType DEF AtMost
  <1>2. AtMost((S \ {x}) \union {x}, n + 1)
    BY <1>1 DEF AtMost
  <1>3. S \subseteq (S \ {x}) \union {x}
    OBVIOUS
  <1>4. IsFiniteSet(S) /\ Cardinality(S) <= Cardinality((S \ {x}) \union {x})
    BY <1>1, <1>3, FS_Subset
  <1>5. Cardinality(S) \in Nat
    BY <1>4, FS_CardinalityType
  <1> QED  BY <1>1, <1>4, <1>5 DEF AtMost

LEMMA Nothing == AtMost({}, 0) /\ \A n \in Nat : AtMost({}, n)
  BY FS_EmptySet DEF AtMost

(* The lines of a longer prefix; the lines behind one that was taken.      *)
LEMMA MoreLines ==
  ASSUME NEW i, NEW m \in Nat, NEW n \in Nat, m <= n
  PROVE  LinesUpTo(i, m) \subseteq LinesUpTo(i, n)
  <1>1. 0..(m - 1) \subseteq 0..(n - 1)
    OBVIOUS
  <1>2. \A f : (\E e \in LineEnds(i, f) : e <= m) => (\E e \in LineEnds(i, f) : e <= n)
    BY DEF LineEnds
  <1> QED  BY <1>1, <1>2 DEF LinesUpTo

LEMMA NextLines ==
  ASSUME TypeInv, NEW r \in Complete
  PROVE  LinesUpTo(r.ino, r.to) \subseteq LinesUpTo(r.ino, r.from) \union {r}
  <1>1. /\ r = [ino |-> r.ino, from |-> r.from, to |-> r.to] /\ r.ino \in Inode
        /\ r.from \in Nat /\ r.to \in Nat /\ Between(r.ino, r.from)
        /\ r.to \in LineEnds(r.ino, r.from)
        /\ \A m \in LineEnds(r.ino, r.from) : r.to <= m
    BY DEF Complete, LineRange
  <1>2. Size(r.ino) \in Nat
    BY <1>1 DEF TypeInv, Types, Size
  <1>3. SUFFICES ASSUME NEW f \in 0..(r.to - 1), f = 0 \/ files[r.ino][f] = Newline,
                        NEW e \in LineEnds(r.ino, f), e <= r.to
                 PROVE  \/ /\ f \in 0..(r.from - 1)
                           /\ \E n \in LineEnds(r.ino, f) : n <= r.from
                        \/ [ino |-> r.ino, from |-> f, to |-> NextEnd(r.ino, f)] = r
    BY DEF LinesUpTo
  <1>4. CASE f < r.from
    <2>1. r.from \in LineEnds(r.ino, f)
      BY <1>1, <1>2, <1>4 DEF LineEnds, Between
    <2> QED  BY <1>1, <1>4, <2>1
  <1>5. CASE f = r.from
    <2>1. /\ NextEnd(r.ino, f) \in LineEnds(r.ino, f) /\ NextEnd(r.ino, f) \in Nat
          /\ \A m \in LineEnds(r.ino, f) : NextEnd(r.ino, f) <= m
      BY <1>1, <1>5, NextLineEnd DEF TypeInv
    <2>2. NextEnd(r.ino, f) = r.to
      BY <1>1, <1>5, <2>1
    <2> QED  BY <1>1, <1>5, <2>2
  <1>6. CASE f > r.from
    <2>1. f \in LineEnds(r.ino, r.from)
      BY <1>1, <1>2, <1>3, <1>6 DEF LineEnds
    <2> QED  BY <1>1, <2>1
  <1> QED  BY <1>1, <1>4, <1>5, <1>6

(* What is appended is no line of the part before.                         *)
LEMMA SameLines ==
  ASSUME TypeInv, TypeInv', NEW i \in Inode, NEW n \in Nat, n <= Len(files[i]),
         Len(files[i]) <= Len(files'[i]),
         \A m \in 1..Len(files[i]) : files'[i][m] = files[i][m]
  PROVE  LinesUpTo(i, n)' \subseteq LinesUpTo(i, n)
  <1>1. Len(files[i]) \in Nat /\ Len(files'[i]) \in Nat
    BY DEF TypeInv, Types
  <1>2. SUFFICES ASSUME NEW f \in 0..(n - 1), f = 0 \/ files'[i][f] = Newline,
                        NEW e \in LineEnds(i, f)', e <= n
                 PROVE  /\ f = 0 \/ files[i][f] = Newline
                        /\ \E m \in LineEnds(i, f) : m <= n
                        /\ NextEnd(i, f)' = NextEnd(i, f)
    BY DEF LinesUpTo
  <1>3. e \in LineEnds(i, f)
    BY <1>1, <1>2 DEF LineEnds, Size
  <1>4. /\ NextEnd(i, f) \in LineEnds(i, f) /\ NextEnd(i, f) \in Nat
        /\ \A m \in LineEnds(i, f) : NextEnd(i, f) <= m
    BY <1>3, NextLineEnd DEF TypeInv
  <1>5. /\ NextEnd(i, f)' \in LineEnds(i, f)' /\ NextEnd(i, f)' \in Nat
        /\ \A m \in LineEnds(i, f)' : NextEnd(i, f)' <= m
    <2>1. LineEnds(i, f)' \in SUBSET Nat
      BY <1>1, <1>2 DEF LineEnds, Size
    <2>2. \E n1 \in LineEnds(i, f)' : \A m \in LineEnds(i, f)' : n1 <= m
      BY <1>2, <2>1, LeastNumber
    <2>3. NextEnd(i, f)' = CHOOSE n1 \in LineEnds(i, f)' : \A m \in LineEnds(i, f)' : n1 <= m
      BY DEF NextEnd
    <2>4. NextEnd(i, f)' \in LineEnds(i, f)' /\ \A m \in LineEnds(i, f)' : NextEnd(i, f)' <= m
      BY <2>2, <2>3
    <2> QED  BY <2>1, <2>4
  <1>6. NextEnd(i, f)' <= e
    BY <1>2, <1>5
  <1>7. NextEnd(i, f)' \in LineEnds(i, f) /\ NextEnd(i, f) \in LineEnds(i, f)'
    BY <1>1, <1>2, <1>4, <1>5, <1>6, SMTT(30) DEF LineEnds, Size
  <1>8. NextEnd(i, f)' = NextEnd(i, f)
    BY <1>4, <1>5, <1>7
  <1> QED  BY <1>1, <1>2, <1>3, <1>8

LEMMA LossInit == Init => LossInv
  BY DEF Init, LossInv, Short, BehindConsumed, NoCheckpoint

(* How the counters that matter here move.                                 *)
LEMMA CarefulStays ==
  ASSUME TypeInv, [Next]_vars, Careful'
  PROVE  /\ Careful /\ ~OtherCheckpoint
         /\ count.crashes \in Nat
         /\ Crash => count'.crashes = count.crashes + 1
         /\ ~Crash => count'.crashes = count.crashes
  <1>0. /\ count \in Counters /\ budget \in Budget /\ Within(count, budget)
        /\ count.others \in Nat /\ count.crashes \in Nat
    BY Budgeted DEF TypeInv, Types, Limits, Counters
  <1>1. AppendOnly /\ count'.others = 0
    BY LogGrows DEF Careful
  <1>2. ~OtherCheckpoint
    <2> SUFFICES ASSUME OtherCheckpoint PROVE FALSE
      OBVIOUS
    <2>1. count'.others = count.others + 1
      BY <1>0, OneMore DEF OtherCheckpoint
    <2> QED  BY <1>0, <1>1, <2>1
  <1>3. CASE Crash
    <2>1. count'.crashes = count.crashes + 1 /\ count'.others = count.others
      BY <1>0, <1>3, OneMore DEF Crash
    <2> QED  BY <1>0, <1>1, <1>2, <1>3, <2>1 DEF Careful
  <1>4. CASE Create \/ Truncate \/ CheckpointOpenFails \/ CheckpointWriteFails \/ Detach
    <2>1. count'.crashes = count.crashes /\ count'.others = count.others
      BY <1>0, <1>4, OneMore DEF Create, Truncate, CheckpointOpenFails, CheckpointWriteFails,
         Fail, Detach
    <2>2. ~Crash
      <3> SUFFICES ASSUME Crash PROVE FALSE
        OBVIOUS
      <3>1. count'.crashes = count.crashes + 1
        BY <1>0, OneMore DEF Crash
      <3> QED  BY <1>0, <2>1, <3>1
    <2> QED  BY <1>0, <1>1, <1>2, <2>1, <2>2 DEF Careful
  <1>5. CASE count' = count
    <2>1. ~Crash
      <3> SUFFICES ASSUME Crash PROVE FALSE
        OBVIOUS
      <3>1. count'.crashes = count.crashes + 1
        BY <1>0, OneMore DEF Crash
      <3> QED  BY <1>0, <1>5, <3>1
    <2> QED  BY <1>0, <1>1, <1>2, <1>5, <2>1 DEF Careful
  <1>6. CASE Remove \/ (\E b \in Byte : Write(b)) \/ Restart \/ GetNextEvent \/ ReadLines
             \/ GetNextLine \/ CheckpointUnchanged \/ CheckpointOpen \/ CheckpointWrite
             \/ HasNextLine \/ Emit \/ UNCHANGED vars
    BY <1>5, <1>6 DEF Remove, Write, Restart, GetNextEvent, ReadLines, StatFails, Stat, OpenFails,
       Open, ReadLine, ReadEnd, GetNextLine, CheckpointUnchanged, CheckpointOpen,
       CheckpointWrite, HasNextLine, Emit, environment, vars
  <1> QED
    BY <1>2, <1>3, <1>4, <1>6 DEF Next, Source, WriteCheckpoint

LEMMA LossStep == BaseInv /\ WholeInv /\ HandsFree /\ LossInv /\ [Next]_vars => LossInv'
  <1> SUFFICES ASSUME BaseInv, WholeInv, HandsFree, LossInv, [Next]_vars, Careful' PROVE Short'
    BY DEF LossInv
  <1>0. /\ Careful /\ AppendOnly /\ AppendOnly' /\ AtLines /\ Short /\ TypeInv /\ Types /\ TypeInv'
        /\ ~OtherCheckpoint /\ count.crashes \in Nat
        /\ Crash => count'.crashes = count.crashes + 1
        /\ ~Crash => count'.crashes = count.crashes
    BY CarefulStays, TypesStep DEF BaseInv, WholeInv, LossInv, Careful, TypeInv
  <1>1. ASSUME NEW i, NEW n, [ino |-> i, off |-> n] \in Places, i # 0, Known(i)
        PROVE  Missing(i, n)' \subseteq LinesUpTo(i, n)
    <2>1. i \in Inode /\ n \in Nat
      BY <1>0, <1>1, Budgeted DEF TypeInv, Places, Checkpoint
    <2>2. Between(i, n)
      BY <1>1, <2>1 DEF Places
    <2>3. n <= Len(files[i])
      BY <1>0, <2>1, <2>2 DEF Between, Size, Types
    <2> QED  BY <1>0, <2>1, <2>3, LogGrows, SameLines DEF Missing
  <1>2. Known(inode) /\ Known(disk.ino) /\ Known(memory.ino)
    BY <1>0 DEF TypeInv, Files
  <1>3. /\ disk \in Checkpoint /\ memory \in Checkpoint /\ disk.off \in Nat /\ memory.off \in Nat
        /\ disk = [ino |-> disk.ino, off |-> disk.off] /\ consumed \in Nat
    BY <1>0 DEF Types, Checkpoint
  <1>4. CASE /\ pc # "down" /\ pc' # "down" /\ ~Crash
             /\ UNCHANGED <<inode, consumed, line, handled>>
             /\ {disk', memory'} \subseteq {disk, memory, Position, NoCheckpoint}
    <2>1. ASSUME NEW c \in {disk, memory, Position, NoCheckpoint} PROVE BehindConsumed(c)
      BY <1>0, <1>3, <1>4, <2>1 DEF Short, BehindConsumed, Position, NoCheckpoint
    <2>2. BehindConsumed(disk') /\ BehindConsumed(memory')
      BY <1>4, <2>1
    <2>3. BehindConsumed(disk)' /\ BehindConsumed(memory)'
      BY <1>4, <2>2 DEF BehindConsumed
    <2>4. ASSUME inode # 0
          PROVE  AtMost(Missing(inode, consumed) \ Elements(line), count.crashes)'
      <3>1. Missing(inode, consumed)' \subseteq LinesUpTo(inode, consumed)
        BY <1>0, <1>1, <1>2, <1>4, <2>4 DEF AtLines, Position, Missing
      <3>2. (Missing(inode, consumed) \ Elements(line))' \subseteq
               Missing(inode, consumed) \ Elements(line)
        BY <1>4, <3>1 DEF Missing, Elements
      <3>3. AtMost(Missing(inode, consumed) \ Elements(line), count.crashes)
        BY <1>0, <1>4, <2>4 DEF Short
      <3>4. AtMost((Missing(inode, consumed) \ Elements(line))', count.crashes)
        BY <1>0, <3>2, <3>3, FewerElements
      <3> QED  BY <1>0, <1>4, <3>4 DEF AtMost
    <2> QED  BY <1>4, <2>3, <2>4 DEF Short
  <1>5. CASE /\ pc # "down" /\ pc' = "down" /\ UNCHANGED <<files, handled>>
             /\ disk' \in {disk, memory}
             /\ (Crash \/ line = <<>>)
    <2>1. BehindConsumed(disk') /\ disk' \in Checkpoint /\ disk'.off \in Nat
      <3>1. BehindConsumed(disk) /\ BehindConsumed(memory)
        BY <1>0, <1>5 DEF Short
      <3>2. \A c \in {disk, memory} : BehindConsumed(c) /\ c \in Checkpoint /\ c.off \in Nat
        BY <1>3, <3>1
      <3>3. disk' \in {disk, memory}
        BY <1>5
      <3> QED  BY <3>2, <3>3
    <2>2. ASSUME disk'.ino # 0
          PROVE  AtMost(Missing(disk.ino, disk.off), count.crashes)'
      <3>1. disk'.ino = inode /\ disk'.off <= consumed /\ inode # 0
        BY <2>1, <2>2 DEF BehindConsumed
      <3>2. LinesUpTo(inode, disk'.off) \subseteq LinesUpTo(inode, consumed)
        BY <1>3, <2>1, <3>1, MoreLines
      <3>3. Missing(disk.ino, disk.off)' \subseteq Missing(inode, consumed)
        <4>1. LinesUpTo(disk.ino, disk.off)' = LinesUpTo(inode, disk'.off)
          BY <1>5, <3>1 DEF LinesUpTo, LineEnds, NextEnd, Size
        <4>2. Elements(handled)' = Elements(handled)
          BY <1>5 DEF Elements
        <4> QED  BY <3>2, <4>1, <4>2 DEF Missing
      <3>4. AtMost(Missing(inode, consumed) \ Elements(line), count.crashes)
        BY <1>0, <1>5, <3>1 DEF Short
      <3>5. CASE line = <<>>
        <4>1. Elements(line) = {}
          BY <3>5 DEF Elements
        <4>2. AtMost(Missing(inode, consumed), count.crashes)
          BY <3>4, <4>1
        <4>3. /\ AtMost(Missing(disk.ino, disk.off)', count.crashes)
              /\ AtMost(Missing(disk.ino, disk.off)', count.crashes + 1)
          BY <1>0, <3>3, <4>2, FewerElements
        <4> QED  BY <1>0, <4>3 DEF AtMost
      <3>6. CASE Crash /\ line = <<line[1]>> /\ Len(line) = 1
        <4>1. Elements(line) = {line[1]}
          BY <3>6 DEF Elements
        <4>2. AtMost(Missing(inode, consumed), count.crashes + 1)
          BY <1>0, <3>4, <4>1, OneElementMore
        <4>3. AtMost(Missing(disk.ino, disk.off)', count.crashes + 1)
          BY <1>0, <3>3, <4>2, FewerElements
        <4> QED  BY <1>0, <3>6, <4>3 DEF AtMost
      <3> QED  BY <1>0, <1>5, <3>5, <3>6, NoneOrOne DEF Types
    <2> QED  BY <1>5, <2>2 DEF Short
  <1>6. CASE pc = "down" /\ pc' = "down" /\ ~Crash /\ UNCHANGED <<disk, handled>>
    <2>1. ASSUME disk.ino # 0
          PROVE  AtMost(Missing(disk.ino, disk.off), count.crashes)'
      <3>1. Missing(disk.ino, disk.off)' \subseteq LinesUpTo(disk.ino, disk.off)
        BY <1>0, <1>1, <1>2, <1>3, <1>6, <2>1 DEF AtLines
      <3>2. Missing(disk.ino, disk.off)' \subseteq Missing(disk.ino, disk.off)
        BY <1>6, <3>1 DEF Missing, Elements
      <3>3. AtMost(Missing(disk.ino, disk.off)', count.crashes)
        BY <1>0, <1>6, <2>1, <3>2, FewerElements DEF Short
      <3> QED  BY <1>0, <1>6, <3>3 DEF AtMost
    <2> QED  BY <1>6, <2>1 DEF Short
  <1>7. CASE Stat
    <2>1. /\ pc = "stat" /\ pc' # "down" /\ path # 0 /\ inode' = path
          /\ UNCHANGED <<environment, disk, memory, line, handled>> /\ ~Crash
      BY <1>0, <1>7 DEF Stat, ReadLinesReturn, TypeInv, Files, Crash
    <2>2. path \in Inode /\ path <= count.created /\ count.created <= 1
      BY <1>0, <2>1, Budgeted DEF TypeInv, Files, Known, AppendOnly
    <2>3. CASE inode = path /\ UNCHANGED consumed
      BY <1>0, <1>4, <2>1, <2>3, InodesAssumption DEF Inode
    <2>4. CASE consumed' = 0 /\ inode = 0
      <3>1. disk.ino = 0 /\ memory.ino = 0
        BY <1>0, <2>1, <2>4 DEF Short, BehindConsumed
      <3>2. LinesUpTo(inode, consumed)' = {}
        BY <2>4 DEF LinesUpTo
      <3>3. (Missing(inode, consumed) \ Elements(line))' = {}
        BY <3>2 DEF Missing
      <3>4. AtMost(Missing(inode, consumed) \ Elements(line), count.crashes)'
        BY <1>0, <2>1, <3>3, Nothing DEF AtMost
      <3> QED  BY <2>1, <3>1, <3>4 DEF Short, BehindConsumed
    <2>5. path # inode \/ Size(path) < offset => inode = 0
      <3>1. inode # 0 => inode = path
        <4>1. inode \in Nat /\ inode <= count.created /\ count.created \in Nat
          BY <1>0, <1>2, Budgeted DEF Known, TypeInv
        <4>2. path \in Nat \ {0}
          BY <2>2, InodesAssumption DEF Inode
        <4> QED  BY <2>2, <4>1, <4>2
      <3>2. inode # 0 => Between(inode, offset) /\ offset <= Size(inode)
        <4>1. inode # 0 => inode \in Inode
          BY <2>2, <3>1
        <4>2. inode # 0 => Between(inode, offset)
          BY <1>0, <4>1 DEF AtLines, Places, ReadPosition
        <4>3. inode # 0 => Size(inode) \in Nat
          BY <1>0, <4>1 DEF Types, Size
        <4> QED  BY <4>2, <4>3 DEF Between
      <3>3. Size(path) \in Nat /\ offset \in Nat
        BY <1>0, <2>2 DEF Types, Size
      <3> QED  BY <3>1, <3>2, <3>3
    <2> QED  BY <1>7, <2>3, <2>4, <2>5 DEF Stat
  <1>8. CASE GetNextLine
    <2>1. /\ pc = "pop" /\ pc' # "down" /\ line = <<>> /\ ~Crash
          /\ UNCHANGED <<environment, disk, inode, memory, handled>>
      BY <1>8 DEF GetNextLine, HandsFree, Crash
    <2>2. CASE lineBuf = <<>>
      <3>1. UNCHANGED <<consumed, line>>
        BY <1>8, <2>1, <2>2 DEF GetNextLine
      <3> QED  BY <1>4, <2>1, <3>1
    <2>3. CASE lineBuf # <<>>
      <3> DEFINE r == lineBuf[1]
      <3>1. r \in OfTheFile /\ r \in LineRange /\ Head(lineBuf) = r
        BY <1>0, <2>3, AllInTail DEF AtLines, Types
      <3>2. /\ line' = <<r>> /\ consumed' = r.to /\ consumed = r.from
        BY <1>0, <1>8, <2>3, <3>1 DEF GetNextLine, BaseInv, Adjacent, LineRange
      <3>3. r.ino = inode /\ inode # 0 /\ r \in Complete /\ r.from < r.to
            /\ r.from \in Nat /\ r.to \in Nat
        <4>1. r.ino = inode /\ r \in Complete /\ r.ino \in Inode /\ r.from \in Nat /\ r.to \in Nat
          BY <3>1 DEF OfTheFile, LineRange
        <4>2. r.to \in (r.from + 1)..Size(r.ino) /\ Size(r.ino) \in Nat
          BY <1>0, <4>1 DEF Complete, LineEnds, Types, Size
        <4> QED  BY <4>1, <4>2, InodesAssumption DEF Inode
      <3> HIDE DEF r
      <3>4. LinesUpTo(inode, r.to) \subseteq LinesUpTo(inode, r.from) \union {r}
        BY <1>0, <3>3, NextLines
      <3>5. Elements(line') = {r} /\ Elements(line) = {}
        BY <2>1, <3>2 DEF Elements
      <3>6. (Missing(inode, consumed) \ Elements(line))' \subseteq
               Missing(inode, consumed) \ Elements(line)
        <4>1. LinesUpTo(inode, consumed)' = LinesUpTo(inode, r.to)
          BY <2>1, <3>2 DEF environment, LinesUpTo, LineEnds, NextEnd, Size
        <4>2. Elements(handled)' = Elements(handled)
          BY <2>1 DEF Elements
        <4>3. Elements(line)' = {r}
          BY <3>5 DEF Elements
        <4> QED  BY <3>2, <3>4, <3>5, <4>1, <4>2, <4>3 DEF Missing
      <3>7. AtMost((Missing(inode, consumed) \ Elements(line))', count.crashes)
        BY <1>0, <2>1, <3>3, <3>6, FewerElements DEF Short
      <3>8. AtMost(Missing(inode, consumed) \ Elements(line), count.crashes)'
        BY <1>0, <2>1, <3>7 DEF AtMost
      <3>9. BehindConsumed(disk)' /\ BehindConsumed(memory)'
        BY <1>0, <1>3, <2>1, <3>2, <3>3 DEF Short, BehindConsumed
      <3> QED  BY <2>1, <3>8, <3>9 DEF Short
    <2> QED  BY <2>2, <2>3
  <1>9. CASE Emit
    <2>1. /\ pc = "emit" /\ pc' # "down" /\ handled' = handled \o line /\ line' = <<>> /\ ~Crash
          /\ UNCHANGED <<environment, disk, inode, consumed, memory>>
      BY <1>9 DEF Emit, Crash
    <2>2. Elements(handled) \union Elements(line) \subseteq Elements(handled')
      <3>1. handled \in Seq(LineRange) /\ line \in Seq(LineRange)
        BY <1>0 DEF Types
      <3>2. /\ \A k \in 1..Len(handled) : k \in 1..Len(handled') /\ handled'[k] = handled[k]
            /\ \A k \in 1..Len(line) : /\ Len(handled) + k \in 1..Len(handled')
                                       /\ handled'[Len(handled) + k] = line[k]
        BY <2>1, <3>1
      <3> QED  BY <3>2 DEF Elements
    <2>3. (Missing(inode, consumed) \ Elements(line))' \subseteq
             Missing(inode, consumed) \ Elements(line)
      BY <2>1, <2>2 DEF environment, Missing, LinesUpTo, LineEnds, NextEnd, Size
    <2>4. inode # 0 => AtMost((Missing(inode, consumed) \ Elements(line))', count.crashes)
      BY <1>0, <2>1, <2>3, FewerElements DEF Short
    <2>5. inode # 0 => AtMost(Missing(inode, consumed) \ Elements(line), count.crashes)'
      BY <1>0, <2>1, <2>4 DEF AtMost
    <2> QED  BY <1>0, <2>1, <2>5 DEF Short, BehindConsumed
  <1>10. CASE Restart
    <2>1. /\ pc = "down" /\ pc' = "idle" /\ inode' = disk.ino /\ consumed' = disk.off /\ ~Crash
          /\ memory' = disk /\ disk' = disk /\ line' = <<>> /\ handled' = handled
          /\ UNCHANGED environment
      BY <1>10 DEF Restart, Crash
    <2>2. BehindConsumed(disk)' /\ BehindConsumed(memory)'
      BY <1>3, <2>1 DEF BehindConsumed
    <2>3. (Missing(inode, consumed) \ Elements(line))' \subseteq Missing(disk.ino, disk.off)
      BY <2>1 DEF environment, Missing, Elements, LinesUpTo, LineEnds, NextEnd, Size
    <2>4. disk.ino # 0 => AtMost((Missing(inode, consumed) \ Elements(line))', count.crashes)
      BY <1>0, <2>1, <2>3, FewerElements DEF Short
    <2>5. disk.ino # 0 => AtMost(Missing(inode, consumed) \ Elements(line), count.crashes)'
      BY <1>0, <2>1, <2>4 DEF AtMost
    <2> QED  BY <2>1, <2>2, <2>5 DEF Short
  <1>11. CASE Create \/ Remove \/ Truncate \/ (\E b \in Byte : Write(b)) \/ UNCHANGED vars
    <2>1. /\ UNCHANGED <<inode, consumed, line, handled, disk, memory, pc>> /\ ~Crash
      BY <1>11 DEF Create, Remove, Truncate, Write, reader, vars, Crash
    <2> QED  BY <1>4, <1>6, <2>1
  <1>12. CASE Detach \/ GetNextEvent \/ StatFails \/ OpenFails \/ Open \/ ReadLine \/ ReadEnd
              \/ HasNextLine
    <2>1. /\ UNCHANGED <<inode, consumed, line, handled, disk, memory>> /\ pc # "down"
          /\ pc' # "down"
      BY <1>0, <1>12 DEF Detach, GetNextEvent, StatFails, OpenFails, Open, ReadLine, ReadEnd,
         ReadLinesReturn, ReadLinesFails, HasNextLine, reader, TypeInv, Files
    <2> QED  BY <1>4, <2>1 DEF Crash
  <1>13. CASE WriteCheckpoint
    <2>1. /\ UNCHANGED <<inode, consumed, line, handled, files>> /\ pc \in {"ckpt", "ckpt_write"}
          /\ pc' \in {ret, "ckpt_write"}
          /\ {disk', memory'} \subseteq {disk, memory, Position, NoCheckpoint}
          /\ pc' # "ckpt_write" => disk' \in {disk, memory}
      BY <1>13 DEF WriteCheckpoint, CheckpointUnchanged, CheckpointOpen, CheckpointOpenFails,
         CheckpointWrite, CheckpointWriteFails, reader, environment
    <2>2. pc' = "down" => line = <<>>
      BY <2>1 DEF HandsFree
    <2> QED  BY <1>4, <1>5, <2>1, <2>2 DEF Crash
  <1>14. CASE Crash
    BY <1>5, <1>14 DEF Crash, reader
  <1> QED
    BY <1>0, <1>7, <1>8, <1>9, <1>10, <1>11, <1>12, <1>13, <1>14 DEF Next, Source, ReadLines

LEMMA LossHolds == Spec => []LossInv
  <1>1. Spec => []HandsFree
    BY BaseHolds, HandsFreeInit, HandsFreeStep, PTL DEF Spec
  <1> QED  BY <1>1, BaseHolds, WholeHolds, LossInit, LossStep, PTL DEF Spec

(* Every crash costs one line at most, and nothing else costs any, as long *)
(* as the log is only appended to and read by one source: not a stop, not  *)
(* a checkpoint that fails and not a restart.                              *)
THEOREM CrashCostsOneLine == Spec => []LossPerCrash
  <1>1. BaseInv /\ LossInv => LossPerCrash
    <2> SUFFICES ASSUME BaseInv, LossInv, AppendOnly, count.others = 0
                 PROVE  Cardinality(Lost) <= count.crashes
      BY DEF LossPerCrash
    <2>1. Short /\ line \in Seq(LineRange) /\ Len(line) <= 1 /\ count.crashes \in Nat
      BY DEF LossInv, Careful, BaseInv, TypeInv, Types, Counters
    <2>2. CASE inode = 0 \/ pc = "down"
      <3>1. Lost = {}
        BY <2>2 DEF Lost
      <3> QED  BY <2>1, <3>1, Nothing DEF AtMost
    <2>3. CASE ~(inode = 0 \/ pc = "down")
      <3>1. ASSUME NEW r, r \in Elements(line) PROVE line = <<r>>
        BY <2>1, <3>1, NoneOrOne DEF Elements
      <3>2. Lost \subseteq Missing(inode, consumed) \ Elements(line)
        BY <2>3, <3>1 DEF Lost, Missing, Elements
      <3>3. AtMost(Missing(inode, consumed) \ Elements(line), count.crashes)
        BY <2>1, <2>3 DEF Short
      <3> QED  BY <2>1, <3>2, <3>3, FewerElements DEF AtMost
    <2> QED  BY <2>2, <2>3
  <1> QED  BY <1>1, BaseHolds, LossHolds, PTL

-----------------------------------------------------------------------------
(* The stream.  Undisturbed, the checkpoint that a process leaves behind   *)
(* is where the lines that were handed on end, and the line in hand is the *)
(* next one.                                                               *)

Following ==
    /\ pc # "ckpt_write" => disk = memory
    /\ pc = "ckpt_write" => memory = Position
    /\ pc = "down" => disk.off = HandledUpTo
    /\ pc # "down" /\ line = <<>> => consumed = HandledUpTo
    /\ pc # "down" /\ line # <<>> =>
          line[1].ino = 1 /\ line[1].from = HandledUpTo /\ line[1].to = consumed

FollowInv == Undisturbed => Following

LEMMA UndisturbedSteps ==
  ASSUME TypeInv, Undisturbed
  PROVE  /\ AppendOnly /\ count.created \in Nat
         /\ ~Truncate /\ ~OtherCheckpoint /\ ~Crash /\ ~Fail
         /\ \A i : Known(i) => i = 0 \/ i = 1
         /\ 1 \in Inode
  <1>1. /\ count \in Counters /\ budget \in Budget /\ Within(count, budget)
    BY Budgeted DEF TypeInv, Types, Limits
  <1>2. /\ count.created \in Nat /\ count.created <= 1 /\ count.truncates = 0
        /\ ~(count.truncates < budget.truncates) /\ ~(count.others < budget.others)
        /\ ~(count.crashes < budget.crashes) /\ ~(count.errors < budget.errors)
    BY <1>1 DEF Counters, Budget, Within, Undisturbed
  <1> QED
    BY <1>2, InodesAssumption DEF AppendOnly, Truncate, OtherCheckpoint, Crash, Fail, Known, Inode

(* On such a log stat finds another file, or a shorter one, only before    *)
(* anything was read.                                                      *)
LEMMA FirstFile ==
  ASSUME TypeInv, AtLines, AppendOnly, path # 0, path # inode \/ Size(path) < offset
  PROVE  inode = 0
  <1>1. Known(path) /\ Known(inode) /\ count.created <= 1 /\ count.created \in Nat
    BY Budgeted DEF TypeInv, Files, AppendOnly
  <1>2. SUFFICES ASSUME inode # 0 PROVE FALSE
    OBVIOUS
  <1>3. inode = path /\ inode \in Inode
    BY <1>1, <1>2, Budgeted DEF Known, TypeInv
  <1>4. Between(inode, offset)
    BY <1>3 DEF AtLines, Places, ReadPosition
  <1>5. Size(inode) \in Nat /\ offset \in Nat
    BY <1>3 DEF TypeInv, Types, Size
  <1> QED  BY <1>3, <1>4, <1>5 DEF Between

LEMMA FollowInit == Init => FollowInv
  BY DEF Init, FollowInv, Following, HandledUpTo, NoCheckpoint

LEMMA FollowStep == BaseInv /\ WholeInv /\ HandsFree /\ FollowInv /\ [Next]_vars => FollowInv'
  <1> SUFFICES ASSUME BaseInv, WholeInv, HandsFree, FollowInv, [Next]_vars, Undisturbed'
               PROVE  Following'
    BY DEF FollowInv
  <1>0. budget' = budget /\ Undisturbed /\ Following /\ TypeInv
    <2>1. budget' = budget
      BY DEF Next, Create, Remove, Truncate, OtherCheckpoint, Write, Source, GetNextEvent,
         ReadLines, StatFails, Stat, OpenFails, Open, ReadLine, ReadEnd, GetNextLine,
         WriteCheckpoint, CheckpointUnchanged, CheckpointOpen, CheckpointOpenFails,
         CheckpointWrite, CheckpointWriteFails, HasNextLine, Emit, Detach, Crash, Restart,
         environment, vars
    <2> QED  BY <2>1 DEF Undisturbed, FollowInv, BaseInv
  <1>1. /\ AppendOnly /\ AtLines /\ ~Truncate /\ ~OtherCheckpoint /\ ~Crash /\ ~Fail
        /\ \A i : Known(i) => i = 0 \/ i = 1
    BY <1>0, UndisturbedSteps DEF WholeInv
  <1>2. /\ pc \in {"ckpt", "ckpt_write"} => ret \in {"pending", "down"}
        /\ pc \in {"stat", "open", "read"} => ret \in {"pop", "emit"}
        /\ disk \in Checkpoint /\ memory \in Checkpoint
    BY <1>0 DEF TypeInv, Types, Files
  <1>3. CASE /\ UNCHANGED <<disk, memory, inode, consumed, line, handled>>
             /\ (pc = "down") = (pc' = "down") /\ (pc = "ckpt_write") = (pc' = "ckpt_write")
    BY <1>0, <1>3 DEF Following, HandledUpTo, Position
  <1>4. CASE \/ Create \/ Remove \/ (\E b \in Byte : Write(b)) \/ UNCHANGED vars
             \/ Detach \/ GetNextEvent \/ StatFails \/ OpenFails \/ Open \/ ReadLine \/ ReadEnd
             \/ HasNextLine
    <2>1. /\ UNCHANGED <<disk, memory, inode, consumed, line, handled>>
          /\ (pc = "down") = (pc' = "down") /\ (pc = "ckpt_write") = (pc' = "ckpt_write")
      BY <1>2, <1>4 DEF Create, Remove, Write, vars, Detach, GetNextEvent, StatFails, OpenFails,
         Open, ReadLine, ReadEnd, ReadLinesReturn, ReadLinesFails, HasNextLine, reader
    <2> QED  BY <1>3, <2>1
  <1>5. CASE Stat
    <2>1. /\ pc = "stat" /\ pc' \notin {"down", "ckpt_write"} /\ path # 0
          /\ UNCHANGED <<disk, memory, line, handled>>
      BY <1>2, <1>5 DEF Stat, ReadLinesReturn
    <2>2. CASE UNCHANGED consumed
      BY <1>0, <2>1, <2>2 DEF Following, HandledUpTo
    <2>3. CASE inode = 0 /\ consumed' = 0
      <3>1. consumed = 0
        <4>1. Position \in Places /\ Position.ino = 0 /\ Position.off = consumed
          BY <1>1, <2>3 DEF AtLines, Position
        <4>2. 0 \notin Inode
          BY DEF Inode
        <4> QED  BY <4>1, <4>2 DEF Places
      <3> QED  BY <1>0, <2>1, <2>3, <3>1 DEF Following, HandledUpTo
    <2> QED  BY <1>0, <1>1, <1>5, <2>1, <2>2, <2>3, FirstFile DEF Stat
  <1>6. CASE GetNextLine
    <2>1. /\ pc = "pop" /\ pc' \in {"ckpt", "pending"} /\ line = <<>>
          /\ UNCHANGED <<disk, memory, inode, handled>>
      BY <1>6 DEF GetNextLine, HandsFree
    <2>2. CASE lineBuf = <<>>
      <3>1. UNCHANGED <<consumed, line>>
        BY <1>6, <2>1, <2>2 DEF GetNextLine
      <3> QED  BY <1>3, <2>1, <3>1
    <2>3. CASE lineBuf # <<>>
      <3> DEFINE r == lineBuf[1]
      <3>1. r \in OfTheFile /\ r \in LineRange /\ Head(lineBuf) = r
        BY <1>0, <1>1, <2>3, AllInTail DEF AtLines, TypeInv, Types
      <3>2. /\ line' = <<r>> /\ consumed' = r.to /\ consumed = r.from
        BY <1>6, <2>3, <3>1 DEF GetNextLine, BaseInv, Adjacent, LineRange, TypeInv, Types
      <3>3. r.ino = 1
        <4>1. r.ino = inode /\ r.ino \in Inode /\ Known(inode)
          BY <1>0, <3>1 DEF OfTheFile, LineRange, TypeInv, Files
        <4> QED  BY <1>1, <4>1 DEF Inode
      <3> HIDE DEF r
      <3>4. line' # <<>> /\ line'[1] = r
        BY <3>2
      <3> QED  BY <1>0, <2>1, <3>2, <3>3, <3>4 DEF Following, HandledUpTo
    <2> QED  BY <2>2, <2>3
  <1>7. CASE WriteCheckpoint
    <2>1. /\ pc \in {"ckpt", "ckpt_write"} /\ UNCHANGED <<inode, consumed, line, handled>>
          /\ pc' \in {ret, "ckpt_write"}
          /\ pc' = "ckpt_write" => memory' = Position
          /\ pc' # "ckpt_write" => disk' = memory' /\ memory' = Position
      BY <1>0, <1>1, <1>7 DEF WriteCheckpoint, CheckpointUnchanged, CheckpointOpen,
         CheckpointOpenFails, CheckpointWrite, CheckpointWriteFails, reader, Following
    <2>2. pc' = "down" => line = <<>>
      BY <2>1 DEF HandsFree
    <2>3. Position' = Position /\ Position.off = consumed
      BY <2>1 DEF Position
    <2> QED  BY <1>0, <2>1, <2>2, <2>3 DEF Following, HandledUpTo
  <1>8. CASE Emit
    <2>1. /\ pc = "emit" /\ pc' \in {"idle", "pop"} /\ handled' = handled \o line
          /\ line' = <<>> /\ UNCHANGED <<disk, memory, consumed>>
      BY <1>8 DEF Emit
    <2>2. handled \in Seq(LineRange) /\ line \in Seq(LineRange) /\ Len(line) <= 1
      BY <1>0 DEF TypeInv, Types
    <2>3. consumed = HandledUpTo'
      <3>1. CASE line = <<>>
        BY <1>0, <2>1, <2>2, <3>1 DEF Following, HandledUpTo
      <3>2. CASE line = <<line[1]>> /\ line[1] \in LineRange /\ Len(line) = 1
        <4>1. handled' # <<>> /\ handled'[Len(handled')] = line[1]
          BY <2>1, <2>2, <3>2, OneAppended
        <4>2. line # <<>>
          BY <3>2
        <4> QED  BY <1>0, <2>1, <4>1, <4>2 DEF Following, HandledUpTo
      <3> QED  BY <2>2, <3>1, <3>2, NoneOrOne
    <2> QED  BY <1>0, <2>1, <2>3 DEF Following
  <1>9. CASE Restart
    BY <1>0, <1>9 DEF Restart, Following, HandledUpTo
  <1> QED
    BY <1>1, <1>4, <1>5, <1>6, <1>7, <1>8, <1>9 DEF Next, Source, ReadLines

LEMMA FollowHolds == Spec => []FollowInv
  <1>1. Spec => []HandsFree
    BY BaseHolds, HandsFreeInit, HandsFreeStep, PTL DEF Spec
  <1> QED  BY <1>1, BaseHolds, WholeHolds, FollowInit, FollowStep, PTL DEF Spec

LEMMA StreamInit == Init => Stream!Init
  BY InodesAssumption DEF Init, Stream!Init, HandledUpTo, Inode

LEMMA StreamStep ==
  BaseInv /\ WholeInv /\ FollowInv /\ [Next]_vars => [Stream!Next]_Stream!streamVars
  <1> SUFFICES ASSUME BaseInv, WholeInv, FollowInv, [Next]_vars
               PROVE  [Stream!Next]_Stream!streamVars
    OBVIOUS
  <1>0. TypeInv /\ files \in [Inode -> Seq(Byte)] /\ handled \in Seq(LineRange)
        /\ line \in Seq(LineRange) /\ Len(line) <= 1
    BY DEF BaseInv, TypeInv, Types
  <1>1. budget' = budget
    BY DEF Next, Create, Remove, Truncate, OtherCheckpoint, Write, Source, GetNextEvent,
       ReadLines, StatFails, Stat, OpenFails, Open, ReadLine, ReadEnd, GetNextLine,
       WriteCheckpoint, CheckpointUnchanged, CheckpointOpen, CheckpointOpenFails,
       CheckpointWrite, CheckpointWriteFails, HasNextLine, Emit, Detach, Crash, Restart,
       environment, vars
  <1>2. Undisturbed' = Undisturbed
    BY <1>1 DEF Undisturbed
  <1>3. CASE ~Undisturbed
    BY <1>2, <1>3 DEF Stream!streamVars
  <1>4. CASE Undisturbed /\ UNCHANGED <<files, handled>>
    BY <1>2, <1>4 DEF Stream!streamVars, HandledUpTo
  <1>5. ASSUME Undisturbed, NEW b \in Byte, Write(b) PROVE Stream!Write
    <2>1. /\ path # 0 /\ files' = [files EXCEPT ![path] = Append(@, b)] /\ handled' = handled
      BY <1>5 DEF Write
    <2>2. path = 1 /\ 1 \in Inode
      BY <1>0, <1>5, <2>1, UndisturbedSteps DEF TypeInv, Files
    <2>3. files'[1] = Append(files[1], b)
      BY <1>0, <2>1, <2>2
    <2> QED  BY <1>2, <1>5, <2>1, <2>3 DEF Stream!Write, HandledUpTo
  <1>6. CASE Undisturbed /\ Emit
    <2>1. /\ pc = "emit" /\ handled' = handled \o line /\ files' = files
      BY <1>6 DEF Emit, environment
    <2>2. CASE line = <<>>
      <3>1. handled' = handled
        BY <1>0, <2>1, <2>2
      <3> QED  BY <1>4, <1>6, <2>1, <3>1
    <2>3. CASE line = <<line[1]>> /\ line[1] \in LineRange /\ Len(line) = 1
      <3> DEFINE r == line[1]
      <3>1. HandledUpTo' = r.to
        <4>1. handled' # <<>> /\ handled'[Len(handled')] = line[1]
          BY <1>0, <2>1, <2>3, OneAppended
        <4> QED  BY <4>1 DEF HandledUpTo
      <3>2. r.ino = 1 /\ r.from = HandledUpTo
        <4>1. line # <<>>
          BY <2>3
        <4> QED  BY <1>6, <2>1, <4>1 DEF FollowInv, Following
      <3>3. /\ r.to \in LineEnds(1, r.from) /\ \A m \in LineEnds(1, r.from) : r.to <= m
            /\ r.from \in Nat /\ r.to \in Nat
        <4>1. AllIn(line, Complete)
          BY <1>0, <1>6, UndisturbedSteps DEF WholeInv, AtLines
        <4> QED  BY <2>3, <3>2, <4>1 DEF AllIn, Complete, LineRange
      <3> HIDE DEF r
      <3>4. Len(files[1]) \in Nat
        BY <1>0, <1>6, UndisturbedSteps
      <3>5. /\ r.to \in (r.from + 1)..Len(files[1]) /\ files[1][r.to] = Newline
            /\ \A i \in (r.from + 1)..(r.to - 1) : files[1][i] # Newline
        BY <3>3, <3>4 DEF LineEnds, Size
      <3> QED  BY <1>2, <1>6, <2>1, <3>1, <3>2, <3>5 DEF Stream!Next, Stream!HandleLine
    <2> QED  BY <1>0, <2>2, <2>3, NoneOrOne
  <1>7. ASSUME Undisturbed PROVE ~Truncate
    BY <1>0, <1>7, UndisturbedSteps
  <1>8. CASE /\ ~Truncate /\ ~Emit /\ ~(\E b \in Byte : Write(b))
    <2>1. UNCHANGED <<files, handled>>
      BY <1>8 DEF Next, Create, Remove, OtherCheckpoint, Source, GetNextEvent,
       ReadLines, StatFails, Stat, OpenFails, Open, ReadLine, ReadEnd, GetNextLine,
       WriteCheckpoint, CheckpointUnchanged, CheckpointOpen, CheckpointOpenFails,
       CheckpointWrite, CheckpointWriteFails, HasNextLine, Detach, Crash, Restart,
       environment, vars
    <2> QED  BY <1>3, <1>4, <2>1
  <1> QED
    BY <1>3, <1>5, <1>6, <1>7, <1>8 DEF Stream!Next

(* As long as nothing goes wrong but graceful stops, the source implements *)
(* LineStream: the complete lines are handed on once each and in order,    *)
(* over any number of processes.                                           *)
THEOREM SourceImplementsStream == Spec => StreamSpec
  BY BaseHolds, WholeHolds, FollowHolds, StreamInit, StreamStep, PTL DEF Spec, StreamSpec, Stream!Spec
==============================================================================
