---------------------------- MODULE SchedulerProofs ----------------------------
(***************************************************************************)
(* Proofs about Scheduler, for any events with any intervals, and about    *)
(* Backpressure, which implements it.                                      *)
(*                                                                         *)
(* What carries them is that Insert puts an event behind all that are not  *)
(* later and before all that are: the number of elements that are not      *)
(* later is the place where it belongs, because the queue is sorted.       *)
(***************************************************************************)
EXTENDS Backpressure, SequenceTheorems, FiniteSetTheorems, TLAPS

Sorted(q, tick) == \A i, j \in 1..Len(q) : i < j => tick[q[i]] <= tick[q[j]]
Distinct(q) == \A i, j \in 1..Len(q) : i < j => q[i] # q[j]
NotIn(e, q) == \A i \in 1..Len(q) : q[i] # e

(* r is q with e between the elements at k and k + 1.                      *)
InsertedAt(r, q, e, k) ==
    /\ r \in Seq(Events)
    /\ Len(r) = Len(q) + 1
    /\ \A i \in 1..Len(r) :
          r[i] = IF i <= k THEN q[i] ELSE IF i = k + 1 THEN e ELSE q[i - 1]

NotLater(q, e, tick) == {i \in 1..Len(q) : tick[q[i]] <= tick[e]}

-----------------------------------------------------------------------------
LEMMA IntervalSize ==
    ASSUME NEW n \in Nat
    PROVE  IsFiniteSet(1..n) /\ Cardinality(1..n) = n
<1>1. 1 \in Int /\ n \in Int
  OBVIOUS
<1>2. IsFiniteSet(1..n) /\ Cardinality(1..n) = IF 1 > n THEN 0 ELSE n - 1 + 1
  BY <1>1, FS_Interval, Zenon
<1> QED BY <1>2

(* In a sorted queue the elements that are not later are the first ones.   *)
LEMMA InsertPoint ==
    ASSUME NEW q \in Seq(Events), NEW e \in Events, NEW tick \in [Events -> Int],
           Sorted(q, tick)
    PROVE  LET k == Cardinality(NotLater(q, e, tick))
           IN  /\ k \in 0..Len(q)
               /\ \A i \in 1..Len(q) : i <= k <=> tick[q[i]] <= tick[e]
<1> DEFINE S == NotLater(q, e, tick)
           k == Cardinality(S)
<1>1. Len(q) \in Nat /\ \A i \in 1..Len(q) : q[i] \in Events
  BY ElementOfSeq, LenProperties
<1>0. S \in SUBSET (1..Len(q))
  BY DEF NotLater
<1> HIDE DEF S
<1>2. IsFiniteSet(1..Len(q)) /\ Cardinality(1..Len(q)) = Len(q)
  BY <1>1, IntervalSize
<1>3. IsFiniteSet(S) /\ k \in 0..Len(q)
  <2>1. IsFiniteSet(S) /\ Cardinality(S) <= Len(q)
    BY <1>0, <1>2, FS_Subset
  <2>2. Cardinality(S) \in Nat
    BY <2>1, FS_CardinalityType
  <2> QED BY <1>1, <2>1, <2>2
<1> HIDE DEF k
<1>4. ASSUME NEW i \in 1..Len(q), i <= k PROVE tick[q[i]] <= tick[e]
  <2> SUFFICES ASSUME ~(tick[q[i]] <= tick[e]) PROVE FALSE
    OBVIOUS
  <2>1. tick[q[i]] \in Int /\ tick[e] \in Int
    BY <1>1
  <2>2. \A j \in S : j < i
    <3> SUFFICES ASSUME NEW j \in S, ~(j < i) PROVE FALSE
      OBVIOUS
    <3>1. j \in 1..Len(q) /\ tick[q[j]] <= tick[e] /\ tick[q[j]] \in Int
      BY <1>1, <1>0 DEF S, NotLater
    <3>2. tick[q[i]] <= tick[q[j]]
      BY <1>1, <2>1, <3>1 DEF Sorted
    <3> QED BY <2>1, <3>1, <3>2
  <2>3. S \in SUBSET (1..(i - 1))
    BY <1>1, <1>0, <2>2
  <2>4. IsFiniteSet(1..(i - 1)) /\ Cardinality(1..(i - 1)) = i - 1
    BY <1>1, IntervalSize
  <2>5. k <= i - 1
    <3>1. Cardinality(S) <= Cardinality(1..(i - 1))
      BY <2>3, <2>4, FS_Subset
    <3> QED BY <2>4, <3>1 DEF k
  <2> QED BY <1>1, <1>3, <1>4, <2>5
<1>5. ASSUME NEW i \in 1..Len(q), tick[q[i]] <= tick[e] PROVE i <= k
  <2>1. \A j \in 1..i : j \in S
    <3> SUFFICES ASSUME NEW j \in 1..i PROVE j \in S
      OBVIOUS
    <3>1. j \in 1..Len(q) /\ tick[q[j]] \in Int /\ tick[q[i]] \in Int /\ tick[e] \in Int
      BY <1>1
    <3>2. tick[q[j]] <= tick[q[i]]
      BY <1>1, <3>1 DEF Sorted
    <3> QED BY <1>5, <3>1, <3>2 DEF S, NotLater
  <2>2. IsFiniteSet(1..i) /\ Cardinality(1..i) = i
    BY <1>1, IntervalSize
  <2>3. (1..i) \in SUBSET S
    BY <2>1
  <2> QED BY <1>3, <2>2, <2>3, FS_Subset DEF k
<1> QED BY <1>3, <1>4, <1>5 DEF k, S

(* What Insert does, element by element.                                   *)
LEMMA InsertElements ==
    ASSUME NEW q \in Seq(Events), NEW e \in Events, NEW tick \in [Events -> Int],
           Sorted(q, tick)
    PROVE  LET k == Cardinality(NotLater(q, e, tick))
           IN  InsertedAt(Insert(q, e, tick), q, e, k)
<1> DEFINE k == Cardinality(NotLater(q, e, tick))
           front == SubSeq(q, 1, k)
           back == SubSeq(q, k + 1, Len(q))
<1>1. k \in 0..Len(q) /\ Len(q) \in Nat /\ \A i \in 1..Len(q) : q[i] \in Events
  BY InsertPoint, ElementOfSeq, LenProperties
<1>2. Insert(q, e, tick) = front \o <<e>> \o back
  BY DEF Insert, NotLater
<1> HIDE DEF k
<1>3. /\ front \in Seq(Events) /\ Len(front) = k
      /\ \A i \in 1..k : front[i] = q[i]
  BY <1>1, SubSeqProperties
<1>4. /\ back \in Seq(Events) /\ Len(back) = Len(q) - k
      /\ \A i \in 1..(Len(q) - k) : back[i] = q[k + i]
  BY <1>1, SubSeqProperties
<1> HIDE DEF front, back
<1>5. <<e>> \in Seq(Events) /\ Len(<<e>>) = 1 /\ <<e>>[1] = e
  OBVIOUS
<1>6. /\ front \o <<e>> \in Seq(Events) /\ Len(front \o <<e>>) = k + 1
      /\ \A i \in 1..(k + 1) :
            (front \o <<e>>)[i] = IF i <= k THEN front[i] ELSE <<e>>[i - k]
  BY <1>1, <1>3, <1>5, ConcatProperties
<1> DEFINE start == front \o <<e>>
<1> HIDE DEF start
<1>7. start \in Seq(Events) /\ Len(start) = k + 1
  BY <1>6 DEF start
<1>8. /\ start \o back \in Seq(Events) /\ Len(start \o back) = Len(q) + 1
      /\ \A i \in 1..(Len(q) + 1) :
            (start \o back)[i] = IF i <= k + 1 THEN start[i] ELSE back[i - (k + 1)]
  <2>1. /\ start \o back \in Seq(Events) /\ Len(start \o back) = Len(start) + Len(back)
        /\ \A i \in 1..(Len(start) + Len(back)) :
              (start \o back)[i] = IF i <= Len(start) THEN start[i]
                                   ELSE back[i - Len(start)]
    BY <1>4, <1>7, ConcatProperties
  <2>2. Len(start) + Len(back) = Len(q) + 1
    BY <1>1, <1>4, <1>7
  <2> QED BY <1>7, <2>1, <2>2
<1>9. ASSUME NEW i \in 1..(Len(q) + 1)
      PROVE  (start \o back)[i] = IF i <= k THEN q[i] ELSE IF i = k + 1 THEN e ELSE q[i - 1]
  <2>1. CASE i <= k
    BY <1>1, <1>3, <1>6, <1>8, <2>1, SMTT(30) DEF start
  <2>2. CASE i = k + 1
    BY <1>1, <1>5, <1>6, <1>8, <2>2 DEF start
  <2>3. CASE i > k + 1
    <3>1. i - (k + 1) \in 1..(Len(q) - k) /\ k + (i - (k + 1)) = i - 1
      BY <1>1, <2>3
    <3>2. back[i - (k + 1)] = q[i - 1]
      BY <1>4, <3>1
    <3>3. (start \o back)[i] = back[i - (k + 1)]
      <4>1. ~(i <= k + 1)
        BY <1>1, <2>3
      <4> QED BY <1>8, <4>1, Zenon
    <3>4. ~(i <= k) /\ i # k + 1
      BY <1>1, <2>3
    <3> QED BY <3>2, <3>3, <3>4
  <2>4. i <= k \/ i = k + 1 \/ i > k + 1
    BY <1>1
  <2> QED BY <2>1, <2>2, <2>3, <2>4
<1>10. Insert(q, e, tick) = start \o back
  BY <1>2 DEF start
<1> QED BY <1>8, <1>9, <1>10 DEF InsertedAt, k

(* Inserting an event that is not in a sorted queue keeps it sorted.       *)
LEMMA InsertSorted ==
    ASSUME NEW q \in Seq(Events), NEW e \in Events, NEW tick \in [Events -> Int],
           Sorted(q, tick), Distinct(q), NotIn(e, q)
    PROVE  LET r == Insert(q, e, tick)
           IN  /\ r \in Seq(Events) /\ r # <<>>
               /\ Sorted(r, tick) /\ Distinct(r)
<1> DEFINE k == Cardinality(NotLater(q, e, tick))
           r == Insert(q, e, tick)
<1>1. /\ k \in 0..Len(q)
      /\ \A i \in 1..Len(q) : i <= k <=> tick[q[i]] <= tick[e]
  BY InsertPoint
<1>2. InsertedAt(r, q, e, k)
  BY InsertElements
<1>3. Len(q) \in Nat /\ \A i \in 1..Len(q) : q[i] \in Events
  BY ElementOfSeq, LenProperties
<1> HIDE DEF k, r
<1>4. /\ r \in Seq(Events) /\ Len(r) = Len(q) + 1
      /\ \A i \in 1..Len(r) :
            r[i] = IF i <= k THEN q[i] ELSE IF i = k + 1 THEN e ELSE q[i - 1]
  BY <1>2 DEF InsertedAt
<1>5. ASSUME NEW a \in 1..Len(r)
      PROVE  /\ a <= k => a \in 1..Len(q) /\ r[a] = q[a]
             /\ a = k + 1 => r[a] = e
             /\ a > k + 1 => /\ a - 1 \in 1..Len(q) /\ ~(a - 1 <= k)
                             /\ r[a] = q[a - 1]
  <2>1. r[a] = IF a <= k THEN q[a] ELSE IF a = k + 1 THEN e ELSE q[a - 1]
    BY <1>4
  <2>2. k \in Nat /\ a \in Int /\ 1 <= a /\ a <= Len(q) + 1 /\ k <= Len(q)
    BY <1>1, <1>3, <1>4
  <2>3. CASE a <= k
    <3>1. a # k + 1 /\ ~(a > k + 1) /\ a \in 1..Len(q)
      BY <1>3, <2>2, <2>3
    <3> QED BY <2>1, <2>3, <3>1
  <2>4. CASE a = k + 1
    <3>1. ~(a <= k) /\ ~(a > k + 1)
      BY <2>2, <2>4
    <3> QED BY <2>1, <2>4, <3>1
  <2>5. CASE a > k + 1
    <3>1. ~(a <= k) /\ a # k + 1 /\ a - 1 \in 1..Len(q) /\ ~(a - 1 <= k)
      BY <1>3, <2>2, <2>5
    <3>2. r[a] = q[a - 1]
      BY <2>1, <3>1, Zenon
    <3> QED BY <3>1, <3>2, Zenon
  <2> QED BY <2>2, <2>3, <2>4, <2>5
<1>6. ASSUME NEW i \in 1..Len(r), NEW j \in 1..Len(r), i < j
      PROVE  tick[r[i]] <= tick[r[j]] /\ r[i] # r[j]
  <2>1. \A a \in 1..Len(q) : tick[q[a]] \in Int
    BY <1>3
  <2>2. /\ tick[e] \in Int /\ k \in Int /\ i \in Int /\ j \in Int
    BY <1>1, <1>3, <1>4
  <2>3. CASE j <= k
    <3>1. i <= k
      BY <1>6, <2>2, <2>3
    <3> QED BY <1>5, <1>6, <2>3, <3>1 DEF Sorted, Distinct
  <2>4. CASE j = k + 1
    <3>1. i <= k
      BY <1>6, <2>2, <2>4
    <3> QED BY <1>1, <1>5, <2>4, <3>1 DEF NotIn
  <2>5. CASE j > k + 1
    <3>1. j - 1 \in 1..Len(q) /\ r[j] = q[j - 1] /\ ~(j - 1 <= k)
      BY <1>5, <2>5
    <3>2. CASE i <= k
      <4>1. i \in 1..Len(q) /\ i < j - 1 /\ r[i] = q[i]
        BY <1>5, <2>2, <2>5, <3>2
      <4> QED BY <3>1, <4>1 DEF Sorted, Distinct
    <3>3. CASE i = k + 1
      <4>1. r[i] = e
        BY <1>5, <3>3
      <4> QED BY <1>1, <2>1, <2>2, <3>1, <4>1 DEF NotIn
    <3>4. CASE i > k + 1
      <4>1. i - 1 \in 1..Len(q) /\ i - 1 < j - 1 /\ r[i] = q[i - 1]
        BY <1>5, <1>6, <2>2, <3>4
      <4> QED BY <3>1, <4>1 DEF Sorted, Distinct
    <3> QED BY <2>2, <3>2, <3>3, <3>4
  <2> QED BY <2>2, <2>3, <2>4, <2>5
<1>7. r # <<>>
  BY <1>3, <1>4
<1> QED BY <1>4, <1>6, <1>7 DEF Sorted, Distinct, r

(* What is left of a sorted queue when its first event is taken out.       *)
LEMMA TailSorted ==
    ASSUME NEW q \in Seq(Events), q # <<>>, Distinct(q),
           NEW old \in [Events -> Int], Sorted(q, old),
           NEW new \in [Events -> Int], \A e \in Events \ {Head(q)} : new[e] = old[e]
    PROVE  /\ Head(q) \in Events /\ Tail(q) \in Seq(Events)
           /\ Distinct(Tail(q)) /\ Sorted(Tail(q), new) /\ NotIn(Head(q), Tail(q))
<1>1. /\ Head(q) \in Events /\ Tail(q) \in Seq(Events) /\ Len(Tail(q)) = Len(q) - 1
      /\ \A i \in 1..Len(Tail(q)) : Tail(q)[i] = q[i + 1]
  BY HeadTailProperties
<1>2. /\ Head(q) = q[1] /\ Len(q) \in Nat \ {0}
      /\ \A i \in 1..Len(q) : q[i] \in Events
  BY EmptySeq, ElementOfSeq
<1> DEFINE t == Tail(q)
<1> HIDE DEF t
<1>3. /\ Len(t) = Len(q) - 1
      /\ \A i \in 1..Len(t) : t[i] = q[i + 1] /\ i + 1 \in 1..Len(q)
  BY <1>1, <1>2 DEF t
<1>4. NotIn(q[1], t)
  <2> SUFFICES ASSUME NEW i \in 1..Len(t) PROVE t[i] # q[1]
    BY DEF NotIn
  <2>1. 1 \in 1..Len(q) /\ i + 1 \in 1..Len(q) /\ 1 < i + 1
    BY <1>2, <1>3
  <2> QED BY <1>3, <2>1 DEF Distinct
<1>5. Distinct(t)
  <2> SUFFICES ASSUME NEW i \in 1..Len(t), NEW j \in 1..Len(t), i < j
               PROVE  t[i] # t[j]
    BY DEF Distinct
  <2>1. i + 1 \in 1..Len(q) /\ j + 1 \in 1..Len(q) /\ i + 1 < j + 1
    BY <1>2, <1>3
  <2> QED BY <1>3, <2>1, ZenonT(40) DEF Distinct
<1>6. ASSUME NEW i \in 1..Len(t) PROVE new[t[i]] = old[t[i]]
  <2>1. t[i] \in Events /\ t[i] # q[1]
    BY <1>2, <1>3, <1>4 DEF NotIn
  <2> QED BY <1>2, <2>1
<1>7. Sorted(t, new)
  <2> SUFFICES ASSUME NEW i \in 1..Len(t), NEW j \in 1..Len(t), i < j
               PROVE  new[t[i]] <= new[t[j]]
    BY DEF Sorted
  <2>1. i + 1 \in 1..Len(q) /\ j + 1 \in 1..Len(q) /\ i + 1 < j + 1
    BY <1>2, <1>3
  <2>2. old[q[i + 1]] <= old[q[j + 1]]
    BY <2>1 DEF Sorted
  <2> QED BY <1>3, <1>6, <2>2
<1> QED BY <1>1, <1>2, <1>4, <1>5, <1>7 DEF t

-----------------------------------------------------------------------------
(* The loop has something to pick; a byte in the pipe is there to stay;    *)
(* and after one event that was processed since kill, select is next.      *)
Stopping ==
    /\ killed => pipe
    /\ late > 0 => killed
    /\ platform = "linux" /\ late > 0 => pc \in {"top", "select", "stopped"}

IndInv ==
    /\ TypeOK
    /\ Distinct(queue) /\ Sorted(queue, due)
    /\ pc \in {"top", "select", "woke", "process"} => queue # <<>>
    /\ pc \in {"select", "woke", "process"} => job = <<Head(queue)>>
    /\ NeverEarly
    /\ Stopping
    /\ StopsPromptly

LEMMA InitInv == Init => IndInv
<1> SUFFICES ASSUME Init PROVE IndInv
  OBVIOUS
<1>1. 0 \in 0..(Modulus - 1)
  BY ModulusAssumption, MaxLateAssumption
<1>2. queue \in Seq(Events) /\ Len(queue) = 0
  BY EmptySeq DEF Init
<1>3. TypeOK
  <2>1. platform \in Platforms /\ queue \in Seq(Events) /\ pc \in Pc
    BY <1>2 DEF Init, Pc
  <2>2. due \in [Events -> Int] /\ bypass \in [Events -> Nat]
    BY DEF Init
  <2>3. /\ job \in {<<>>} \union {<<e>> : e \in Events}
        /\ sleep \in 0..(Modulus - 1)
    BY <1>1 DEF Init
  <2>4. pipe \in BOOLEAN /\ killed \in BOOLEAN
    BY Zenon DEF Init
  <2>5. late \in 0..2
    BY DEF Init
  <2> QED BY <2>1, <2>2, <2>3, <2>4, <2>5 DEF TypeOK
<1>4. Distinct(queue) /\ Sorted(queue, due)
  BY <1>2 DEF Distinct, Sorted
<1> QED BY <1>3, <1>4 DEF Init, IndInv, NeverEarly, Stopping, StopsPromptly

LEMMA AddEventInv ==
    ASSUME NEW e \in Events, IndInv, AddEvent(e), UNCHANGED platform PROVE IndInv'
<1>0. due' \in [Events -> Int]
  <2>1. due \in [Events -> Int] /\ Interval[e] \in Int
    BY IntervalAssumption DEF IndInv, TypeOK
  <2> QED BY <2>1 DEF AddEvent
<1>1. queue' = Insert(queue, e, due')
  BY DEF AddEvent
<1>2. NotIn(e, queue) /\ queue \in Seq(Events)
  BY DEF AddEvent, IndInv, TypeOK, NotIn, Queued
<1>3. Sorted(queue, due')
  <2>1. \A i \in 1..Len(queue) : due'[queue[i]] = due[queue[i]]
    BY <1>2, ElementOfSeq DEF AddEvent, IndInv, TypeOK, NotIn
  <2> QED BY <2>1 DEF IndInv, Sorted
<1>4. /\ queue' \in Seq(Events) /\ queue' # <<>>
      /\ Sorted(queue', due') /\ Distinct(queue')
  BY <1>0, <1>1, <1>2, <1>3, InsertSorted DEF IndInv
<1>5. TypeOK'
  BY <1>0, <1>4 DEF AddEvent, IndInv, TypeOK
<1> QED BY <1>4, <1>5
    DEF AddEvent, IndInv, TypeOK, Distinct, Sorted, NeverEarly, Stopping, StopsPromptly

(* Steps that leave the queue and the ticks alone.                         *)
LEMMA QuietInv ==
    ASSUME IndInv, UNCHANGED platform,
           Run \/ StartupFails \/ SelectWakeup \/ SelectTimeout \/ CheckDue \/ Kill
    PROVE  IndInv'
<1> USE DEF IndInv, TypeOK, Pc, Distinct, Sorted, NeverEarly, Stopping, StopsPromptly
<1>1. CASE Run
  BY <1>1 DEF Run
<1>2. CASE StartupFails
  BY <1>2 DEF StartupFails
<1>3. CASE SelectWakeup
  BY <1>3 DEF SelectWakeup
<1>4. CASE SelectTimeout
  BY <1>4 DEF SelectTimeout
<1>5. CASE CheckDue
  <2>1. job[1] = Head(queue) /\ queue \in Seq(Events) /\ queue # <<>>
    BY <1>5 DEF CheckDue
  <2>2. due[job[1]] \in Int
    BY <2>1, HeadTailProperties
  <2> QED BY <1>5, <2>2 DEF CheckDue
<1>6. CASE Kill
  BY <1>6 DEF Kill
<1> QED BY <1>1, <1>2, <1>3, <1>4, <1>5, <1>6

LEMMA ComputeSleepInv ==
    ASSUME IndInv, ComputeSleep, UNCHANGED platform PROVE IndInv'
<1>1. Head(queue) \in Events
  BY HeadTailProperties DEF ComputeSleep, IndInv, TypeOK
<1>2. Modulus \in Nat \ {0}
  BY ModulusAssumption, MaxLateAssumption
<1>3. due[Head(queue)] % Modulus \in 0..(Modulus - 1)
  BY <1>1, <1>2 DEF IndInv, TypeOK
<1>4. TypeOK'
  BY <1>1, <1>3 DEF ComputeSleep, IndInv, TypeOK, Pc
<1> QED BY <1>4
    DEF ComputeSleep, IndInv, Distinct, Sorted, NeverEarly, Stopping, StopsPromptly

LEMMA RescheduleInv ==
    ASSUME IndInv, Reschedule, UNCHANGED platform PROVE IndInv'
<1>1. queue \in Seq(Events) /\ queue # <<>> /\ job[1] = Head(queue) /\ Head(queue) \in Events
  BY HeadTailProperties DEF Reschedule, IndInv, TypeOK
<1>2. NextDue(Head(queue)) \in Int
  BY <1>1, IntervalAssumption DEF NextDue, IndInv, TypeOK
<1>3. due' = [due EXCEPT ![Head(queue)] = NextDue(Head(queue))]
  BY <1>1 DEF Reschedule
<1>4. due' \in [Events -> Int] /\ \A e \in Events \ {Head(queue)} : due'[e] = due[e]
  BY <1>1, <1>2, <1>3 DEF IndInv, TypeOK
<1>5. /\ Tail(queue) \in Seq(Events) /\ Distinct(Tail(queue))
      /\ Sorted(Tail(queue), due') /\ NotIn(Head(queue), Tail(queue))
  BY <1>1, <1>4, TailSorted DEF IndInv, TypeOK
<1>6. queue' = Insert(Tail(queue), Head(queue), due')
  BY <1>1 DEF Reschedule
<1>7. /\ queue' \in Seq(Events) /\ queue' # <<>>
      /\ Sorted(queue', due') /\ Distinct(queue')
  BY <1>1, <1>4, <1>5, <1>6, InsertSorted
<1>8. bypass' \in [Events -> Nat]
  BY DEF Reschedule, Account, IndInv, TypeOK
<1>9. late' \in 0..2 /\ late' = IF killed /\ late < 2 THEN late + 1 ELSE late
  BY DEF Reschedule, Account, IndInv, TypeOK
<1>10. TypeOK'
  BY <1>4, <1>7, <1>8, <1>9 DEF Reschedule, IndInv, TypeOK, Pc
<1>11. Stopping' /\ StopsPromptly'
  BY <1>9 DEF Reschedule, IndInv, TypeOK, Stopping, StopsPromptly
<1> QED BY <1>7, <1>10, <1>11 DEF Reschedule, IndInv, NeverEarly

(* All ticks of the queue come closer together.                            *)
LEMMA TickInv == ASSUME IndInv, Tick, UNCHANGED platform PROVE IndInv'
<1>1. due' \in [Events -> Int]
  BY DEF Tick, IndInv, TypeOK
<1>2. \A i \in 1..Len(queue) : /\ queue[i] \in Events
                               /\ due[queue[i]] \in Int
                               /\ due'[queue[i]] = due[queue[i]] - 1
  BY ElementOfSeq DEF Tick, IndInv, TypeOK, Queued
<1>3. Sorted(queue', due') /\ Distinct(queue')
  BY <1>2 DEF Tick, IndInv, Sorted, Distinct
<1>4. sleep' \in 0..(Modulus - 1)
  BY ModulusAssumption DEF Tick, IndInv, TypeOK
<1>5. TypeOK'
  BY <1>1, <1>4 DEF Tick, IndInv, TypeOK
<1>6. NeverEarly'
  <2> SUFFICES ASSUME pc = "process" PROVE due'[job[1]] <= 0
    BY DEF Tick, NeverEarly
  <2>1. job[1] = Head(queue) /\ queue \in Seq(Events) /\ queue # <<>>
    BY DEF IndInv, TypeOK
  <2>2. Head(queue) \in Events /\ due[job[1]] \in Int /\ due[job[1]] <= 0
    BY <2>1, HeadTailProperties DEF IndInv, TypeOK, NeverEarly
  <2> QED BY <2>1, <2>2 DEF Tick
<1> QED BY <1>3, <1>5, <1>6 DEF Tick, IndInv, Stopping, StopsPromptly

LEMMA IndInvHolds == Spec => []IndInv
<1>1. IndInv /\ [Next]_vars => IndInv'
  <2> SUFFICES ASSUME IndInv, [Next]_vars PROVE IndInv'
    OBVIOUS
  <2>1. CASE Next
    BY <2>1, AddEventInv, QuietInv, ComputeSleepInv, RescheduleInv, TickInv
    DEF Next, Step, Loop
  <2>2. CASE UNCHANGED vars
    BY <2>2 DEF vars, IndInv, TypeOK, Distinct, Sorted, NeverEarly, Stopping, StopsPromptly
  <2> QED BY <2>1, <2>2
<1> QED BY InitInv, <1>1, PTL DEF Spec

-----------------------------------------------------------------------------
(* An event that is due was bypassed at most once by each event behind it: *)
(* a job leaves the front of the queue and comes back behind it.           *)
Bypassed ==
    /\ \A i \in 1..Len(queue) : bypass[queue[i]] <= Len(queue) - i
    /\ \A e \in Events : e \notin Queued => bypass[e] = 0
    /\ pc = "setup" => \A e \in Events : bypass[e] = 0

LEMMA QueueFits == ASSUME IndInv PROVE Len(queue) <= Cardinality(Events)
<1>1. queue \in [1..Len(queue) -> Events] /\ Len(queue) \in Nat
  BY LenProperties DEF IndInv, TypeOK
<1>2. IsFiniteSet(1..Len(queue)) /\ Cardinality(1..Len(queue)) = Len(queue)
  BY <1>1, IntervalSize
<1>3. Cardinality(Events) \in Nat
  BY EventsAssumption, FS_CardinalityType
<1>4. \A i, j \in 1..Len(queue) : i # j => queue[i] # queue[j]
  BY <1>1 DEF IndInv, Distinct
<1>5. ~(Cardinality(Events) < Cardinality(1..Len(queue)))
  BY <1>1, <1>2, <1>4, EventsAssumption, FS_PigeonHole
<1> QED BY <1>1, <1>2, <1>3, <1>5

LEMMA AddEventBypass ==
    ASSUME NEW e \in Events, IndInv, Bypassed, AddEvent(e), IndInv' PROVE Bypassed'
<1>1. bypass' = bypass /\ \A f \in Events : bypass[f] = 0
  BY DEF AddEvent, Bypassed
<1>2. Len(queue') \in Nat /\ \A i \in 1..Len(queue') : queue'[i] \in Events
  BY ElementOfSeq, LenProperties DEF IndInv, TypeOK
<1> QED BY <1>1, <1>2 DEF Bypassed

LEMMA RescheduleBypass ==
    ASSUME IndInv, Bypassed, Reschedule, IndInv' PROVE Bypassed'
<1> DEFINE f == Head(queue)
           t == Tail(queue)
           k == Cardinality(NotLater(t, f, due'))
<1>1. /\ queue \in Seq(Events) /\ queue # <<>> /\ job[1] = f /\ f \in Events
      /\ f = queue[1] /\ Len(queue) \in Nat \ {0}
  BY HeadTailProperties, EmptySeq, SMTT(30) DEF Reschedule, IndInv, TypeOK
<1>2. /\ Len(t) = Len(queue) - 1
      /\ \A i \in 1..Len(t) : t[i] = queue[i + 1] /\ t[i] \in Events
  BY <1>1, HeadTailProperties, ElementOfSeq
<1>3. /\ due \in [Events -> Int] /\ due' \in [Events -> Int]
      /\ due' = [due EXCEPT ![f] = NextDue(f)]
      /\ queue' = Insert(t, f, due')
      /\ pc' = "top" /\ bypass \in [Events -> Nat]
  BY <1>1 DEF Reschedule, IndInv, TypeOK
<1>4. due'[f] >= 0
  BY <1>1, <1>3, IntervalAssumption DEF NextDue
<1>5. /\ t \in Seq(Events) /\ Distinct(t) /\ Sorted(t, due') /\ NotIn(f, t)
  BY <1>1, <1>3, TailSorted DEF IndInv
<1>6. /\ k \in 0..Len(t)
      /\ \A i \in 1..Len(t) : i <= k <=> due'[t[i]] <= due'[f]
      /\ InsertedAt(queue', t, f, k)
  BY <1>1, <1>3, <1>5, InsertPoint, InsertElements
<1>7. bypass' = [e \in Events |->
                   IF e \in Queued /\ e # f /\ due[e] <= 0 THEN bypass[e] + 1 ELSE 0]
  BY <1>1 DEF Reschedule, Account
<1> HIDE DEF f, t, k
<1>8. ASSUME NEW i \in 1..Len(queue') PROVE bypass'[queue'[i]] <= Len(queue') - i
  <2>1. /\ Len(queue') = Len(queue) /\ i \in 1..Len(queue)
        /\ queue'[i] = IF i <= k THEN t[i] ELSE IF i = k + 1 THEN f ELSE t[i - 1]
    BY <1>1, <1>2, <1>6 DEF InsertedAt
  <2>2. CASE i <= k
    <3>1. i \in 1..Len(t) /\ i + 1 \in 1..Len(queue)
      BY <1>1, <1>2, <1>6, <2>2
    <3>2. queue'[i] = queue[i + 1] /\ queue[i + 1] \in Events
      BY <1>2, <2>1, <2>2, <3>1
    <3>3. bypass[queue[i + 1]] <= Len(queue) - (i + 1) /\ bypass[queue[i + 1]] \in Nat
      BY <1>3, <3>1, <3>2 DEF Bypassed
    <3>4. bypass'[queue[i + 1]] <= bypass[queue[i + 1]] + 1
      BY <1>7, <3>2, <3>3
    <3>5. bypass'[queue[i + 1]] \in Nat
      BY <1>7, <3>2, <3>3
    <3> QED BY <1>1, <2>1, <3>2, <3>3, <3>4, <3>5
  <2>3. CASE i = k + 1
    <3>1. queue'[i] = f
      BY <1>6, <2>1, <2>3
    <3>2. bypass'[f] = 0
      BY <1>1, <1>7
    <3> QED BY <1>1, <2>1, <3>1, <3>2
  <2>4. CASE i > k + 1
    <3>1. i - 1 \in 1..Len(t) /\ ~(i - 1 <= k) /\ ~(i <= k) /\ i # k + 1
      BY <1>1, <1>2, <1>6, <2>1, <2>4
    <3>2. queue'[i] = t[i - 1] /\ t[i - 1] \in Events /\ t[i - 1] # f
      BY <1>2, <1>5, <2>1, <3>1 DEF NotIn
    <3>3. due'[t[i - 1]] > 0
      <4>1. due'[t[i - 1]] \in Int /\ due'[f] \in Int /\ ~(due'[t[i - 1]] <= due'[f])
        BY <1>1, <1>3, <1>6, <3>1, <3>2
      <4> QED BY <1>4, <4>1
    <3>4. ~(due[t[i - 1]] <= 0)
      BY <1>3, <3>2, <3>3
    <3>5. bypass'[t[i - 1]] = 0
      BY <1>7, <3>2, <3>4
    <3> QED BY <1>1, <2>1, <3>2, <3>5
  <2> QED BY <1>1, <1>2, <1>6, <2>1, <2>2, <2>3, <2>4
<1>9. ASSUME NEW e \in Events, e \notin Queued' PROVE bypass'[e] = 0
  <2> SUFFICES ASSUME e \in Queued, e # f PROVE FALSE
    BY <1>7
  <2>1. PICK i \in 1..Len(queue) : e = queue[i]
    BY DEF Queued
  <2>2. i # 1
    BY <1>1, <2>1
  <2>3. i - 1 \in 1..Len(t) /\ t[i - 1] = e
    BY <1>1, <1>2, <2>1, <2>2
  <2>4. CASE i - 1 <= k
    <3>1. i - 1 \in 1..Len(queue')
      BY <1>2, <1>6, <2>3 DEF InsertedAt
    <3>2. queue'[i - 1] = e
      BY <1>6, <2>3, <2>4, <3>1 DEF InsertedAt
    <3> QED BY <1>9, <3>1, <3>2 DEF Queued
  <2>5. CASE i - 1 > k
    <3>1. i \in 1..Len(queue') /\ ~(i <= k) /\ i # k + 1
      BY <1>1, <1>2, <1>6, <2>1, <2>5 DEF InsertedAt
    <3>2. queue'[i] = e
      BY <1>6, <2>3, <3>1 DEF InsertedAt
    <3> QED BY <1>9, <3>1, <3>2 DEF Queued
  <2> QED BY <1>1, <1>6, <2>1, <2>4, <2>5
<1> QED BY <1>3, <1>8, <1>9 DEF Bypassed

LEMMA BypassedHolds == Spec => []Bypassed
<1>1. Init => Bypassed
  <2>1. Init => Len(queue) = 0
    BY DEF Init
  <2> QED BY <2>1 DEF Init, Bypassed
<1>2. IndInv /\ IndInv' /\ Bypassed /\ [Next]_vars => Bypassed'
  <2> SUFFICES ASSUME IndInv, IndInv', Bypassed, [Next]_vars PROVE Bypassed'
    OBVIOUS
  <2>1. ASSUME NEW e \in Events, AddEvent(e) PROVE Bypassed'
    BY <2>1, AddEventBypass
  <2>2. CASE Reschedule
    BY <2>2, RescheduleBypass
  <2>3. CASE \/ Run \/ StartupFails \/ ComputeSleep \/ SelectWakeup \/ SelectTimeout
             \/ CheckDue \/ Kill \/ Tick \/ UNCHANGED vars
    <3>1. queue' = queue /\ bypass' = bypass /\ (pc' = "setup" => pc = "setup")
      BY <2>3 DEF Run, StartupFails, ComputeSleep, SelectWakeup, SelectTimeout,
                  CheckDue, Kill, Tick, vars
    <3> QED BY <3>1 DEF Bypassed, Queued
  <2> QED BY <2>1, <2>2, <2>3 DEF Next, Step, Loop
<1> QED BY IndInvHolds, <1>1, <1>2, PTL DEF Spec

-----------------------------------------------------------------------------
(* The ticks are integers, the timeout of select is a uint64_t.            *)
THEOREM TypeCorrect == Spec => []TypeOK
<1>1. IndInv => TypeOK
  BY DEF IndInv
<1> QED BY IndInvHolds, <1>1, PTL

(* The multiset of run is the schedule: what it erases with begin() is the *)
(* job it has just processed, and a tick never changes inside of it.       *)
THEOREM QueueIsTheSchedule == Spec => []QueueIsSchedule
<1>1. IndInv => QueueIsSchedule
  BY DEF IndInv, QueueIsSchedule, Distinct, Sorted
<1> QED BY IndInvHolds, <1>1, PTL

(* run processes no event before its tick.                                 *)
THEOREM NothingEarly == Spec => []NeverEarly
<1>1. IndInv => NeverEarly
  BY DEF IndInv
<1> QED BY IndInvHolds, <1>1, PTL

(* On Linux run processes at most one more event once kill was called.     *)
THEOREM RunStopsPromptly == Spec => []StopsPromptly
<1>1. IndInv => StopsPromptly
  BY DEF IndInv
<1> QED BY IndInvHolds, <1>1, PTL

(* While an event is due, run processes each other event at most once.     *)
THEOREM NobodyStarves == Spec => []BoundedBypass
<1>1. IndInv /\ Bypassed => BoundedBypass
  <2> SUFFICES ASSUME IndInv, Bypassed, NEW e \in Events
               PROVE  bypass[e] < Cardinality(Events)
    BY DEF BoundedBypass
  <2>1. Cardinality(Events) \in Nat /\ Cardinality(Events) # 0
    BY EventsAssumption, FS_CardinalityType, FS_EmptySet
  <2>2. Len(queue) \in Nat /\ Len(queue) <= Cardinality(Events)
    BY QueueFits, LenProperties DEF IndInv, TypeOK
  <2>3. CASE e \in Queued
    <3>1. PICK i \in 1..Len(queue) : e = queue[i]
      BY <2>3 DEF Queued
    <3>2. bypass[e] \in Nat /\ bypass[e] <= Len(queue) - i
      BY <3>1 DEF Bypassed, IndInv, TypeOK
    <3> QED BY <2>1, <2>2, <3>1, <3>2
  <2>4. CASE e \notin Queued
    BY <2>1, <2>4 DEF Bypassed
  <2> QED BY <2>3, <2>4
<1> QED BY IndInvHolds, BypassedHolds, <1>1, PTL

-----------------------------------------------------------------------------
(* The loop with its targets takes no step that Scheduler does not take,   *)
(* for any targets, queues and deliveries, so that what is proved of       *)
(* Scheduler holds while events wait in front of full queues.              *)
LEMMA LoopSteps == [LoopNext]_loopVars => [Next]_vars
<1> SUFFICES ASSUME [LoopNext]_loopVars PROVE [Next]_vars
  OBVIOUS
<1>1. CASE SetUp
  BY <1>1 DEF SetUp, Next, Step
<1>2. CASE EnterLoop
  BY <1>2 DEF EnterLoop, Next, Step
<1>3. CASE LoopStep
  BY <1>3 DEF LoopStep, BeginProcess, EndProcess, Between, Next, Step, Loop
<1>4. CASE EnqueueEvent
  BY <1>4 DEF EnqueueEvent
<1>5. CASE Signal \/ Clock
  BY <1>5 DEF Signal, Clock, Next, Step
<1>6. CASE \E t \in Targets : AwaitEvent(t)
  BY <1>6 DEF AwaitEvent
<1>7. CASE UNCHANGED loopVars
  BY <1>7 DEF loopVars
<1> QED BY <1>1, <1>2, <1>3, <1>4, <1>5, <1>6, <1>7 DEF LoopNext

(* With the processing of an event taken apart, and the clock, signals and *)
(* upload threads between its steps, run is the loop of Scheduler, whose   *)
(* processEvent is one step (service.cc:292-358).                          *)
THEOREM LoopImplementsScheduler == LoopSpec => Spec
<1>1. LoopInit => Init
  BY DEF LoopInit
<1> QED BY <1>1, LoopSteps, PTL DEF LoopSpec, Spec

(* A signal that arrives while processEvent waits for room in a queue lets *)
(* no event start after the one at hand (service.cc:313-323, 407).         *)
THEOREM StopsPromptlyWhenFull == LoopSpec => []StopsPromptly
BY LoopImplementsScheduler, RunStopsPromptly, PTL

(* However long the events wait for their targets, none is starved by the  *)
(* others (service.cc:345-357).                                            *)
THEOREM NobodyStarvesWhenFull == LoopSpec => []BoundedBypass
BY LoopImplementsScheduler, NobodyStarves, PTL
================================================================================
