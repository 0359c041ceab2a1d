----------------------------- MODULE ConfigProofs ------------------------------
(***************************************************************************)
(* Proofs about Config, for every text.                                    *)
(***************************************************************************)
EXTENDS Config, FiniteSetTheorems, SequenceTheorems, WellFoundedInduction, TLAPS

-----------------------------------------------------------------------------
(* Numbers and loops.                                                      *)

(* The least element of a set of numbers: the library's theorem on the     *)
(* strict subsets of a set, applied to the intervals 0..n.                 *)
LEMMA LeastNumber ==
    ASSUME NEW T \in SUBSET Nat, T # {}
    PROVE  \E n \in T : \A m \in T : n <= m
<1> DEFINE Intervals == {0..n : n \in T}
<1>1. IsWellFoundedOn(StrictSubsetOrdering(Nat), FiniteSubsetsOf(Nat))
  BY FS_StrictSubsetOrderingWellFounded, Zenon
<1>2. \A n \in T : 0..n \in FiniteSubsetsOf(Nat)
  <2>1. ASSUME NEW n \in T PROVE 0..n \in SUBSET Nat /\ IsFiniteSet(0..n)
    BY FS_Interval
  <2> QED BY <2>1 DEF FiniteSubsetsOf
<1>3. Intervals # {} /\ Intervals \subseteq FiniteSubsetsOf(Nat)
  BY <1>2
<1>4. \E x \in Intervals : \A y \in Intervals : ~(<<y, x>> \in StrictSubsetOrdering(Nat))
  <2> HIDE DEF Intervals
  <2> QED BY <1>1, <1>3, WFMin, Zenon
<1>5. PICK n \in T : \A m \in T : ~(<<0..m, 0..n>> \in StrictSubsetOrdering(Nat))
  BY <1>4
<1>6. ASSUME NEW m \in T, m < n PROVE FALSE
  <2>1. /\ 0..m \subseteq 0..n /\ n \in 0..n /\ n \notin 0..m
        /\ 0..m \in SUBSET Nat /\ 0..n \in SUBSET Nat
    BY <1>6
  <2>2. ~(<<0..m, 0..n>> \in StrictSubsetOrdering(Nat)) /\ 0..m # 0..n
    BY <1>5, <2>1
  <2> QED BY <2>1, <2>2 DEF StrictSubsetOrdering
<1> QED BY <1>6

(* Induction from N down to 0.                                             *)
LEMMA DownFrom ==
    ASSUME NEW N \in Nat, NEW S,
           N \in S,
           \A n \in 0..(N - 1) : (\A m \in (n + 1)..N : m \in S) => n \in S
    PROVE  0..N \subseteq S
<1> DEFINE T == {m \in 0..N : N - m \notin S}
<1>1. SUFFICES ASSUME NEW l \in 0..N, l \notin S PROVE FALSE
  OBVIOUS
<1>2. T \in SUBSET Nat
  OBVIOUS
<1>3. PICK m \in T : \A k \in T : m <= k
  <2>1. N - l \in 0..N /\ N - (N - l) = l
    OBVIOUS
  <2>2. T # {}
    BY <1>1, <2>1
  <2> HIDE DEF T
  <2> QED BY <1>2, <2>2, LeastNumber
<1>4. m # 0 /\ m \in 0..N /\ N - m \in 0..(N - 1)
  BY <1>3
<1>5. ASSUME NEW j \in (N - m + 1)..N PROVE j \in S
  <2>1. N - j \in 0..N /\ N - j < m /\ N - (N - j) = j
    BY <1>4, <1>5
  <2>2. N - j \notin T
    <3> HIDE DEF T
    <3> QED BY <1>3, <1>4, <2>1
  <2> QED BY <2>1, <2>2
<1> QED BY <1>3, <1>4, <1>5

(* Repeat is the function its definition says it is, as long as next does  *)
(* not go back.                                                            *)
LEMMA RepeatIs ==
    ASSUME NEW N \in Nat, NEW next \in [0..N -> 0..N], \A i \in 0..N : i <= next[i]
    PROVE  /\ Repeat(next) \in [0..N -> 0..N]
           /\ \A i \in 0..N : Repeat(next)[i] =
                IF next[i] = i THEN i ELSE Repeat(next)[next[i]]
<1> DEFINE From(f, n) ==
             /\ f \in [n..N -> 0..N]
             /\ \A i \in n..N : f[i] = IF next[i] = i THEN i ELSE f[next[i]]
           S == {n \in 0..N : \E f : From(f, n)}
<1>0. \A n \in 0..N : n \in S <=> \E f : From(f, n)
  <2> HIDE DEF From
  <2> QED BY Zenon
<1>1. N \in S
  <2>1. From([i \in N..N |-> N], N)
    <3> DEFINE f == [i \in N..N |-> N]
    <3>1. f \in [N..N -> 0..N] /\ next[N] = N
      OBVIOUS
    <3>2. \A i \in N..N : f[i] = N /\ i = N
      OBVIOUS
    <3> HIDE DEF f
    <3>3. From(f, N)
      BY <3>1, <3>2
    <3> QED BY <3>3 DEF f
  <2> HIDE DEF S, From
  <2> QED BY <1>0, <2>1
<1>2. ASSUME NEW n \in 0..(N - 1), \A m \in (n + 1)..N : m \in S PROVE n \in S
  <2>1. PICK g : From(g, n + 1)
    <3> HIDE DEF S, From
    <3> QED BY <1>0, <1>2
  <2>2. DEFINE f == [i \in n..N |-> IF i # n THEN g[i] ELSE
                                    IF next[n] = n THEN n ELSE g[next[n]]]
  <2>3. next[n] \in n..N /\ (next[n] # n => next[n] \in (n + 1)..N)
    OBVIOUS
  <2>4. \A i \in n..N : i # n => i \in (n + 1)..N /\ next[i] \in (n + 1)..N
    OBVIOUS
  <2>5. f \in [n..N -> 0..N]
    BY <2>1, <2>3, <2>4
  <2>6. ASSUME NEW i \in n..N PROVE f[i] = IF next[i] = i THEN i ELSE f[next[i]]
    <3>1. CASE i = n
      BY <3>1, <2>3
    <3>2. CASE i # n
      BY <3>2, <2>1, <2>4
    <3> QED BY <3>1, <3>2
  <2>7. From(f, n)
    BY <2>5, <2>6
  <2> HIDE DEF S, From
  <2> QED BY <1>0, <2>7
<1>3. 0..N \subseteq S
  <2> HIDE DEF S
  <2> QED BY <1>1, <1>2, DownFrom
<1>4. PICK f : From(f, 0)
  <2> HIDE DEF S, From
  <2> QED BY <1>0, <1>3
<1>5. f = [i \in DOMAIN next |-> IF next[i] = i THEN i ELSE f[next[i]]]
  BY <1>4
<1>6. Repeat(next) =
        [i \in DOMAIN next |-> IF next[i] = i THEN i ELSE Repeat(next)[next[i]]]
  BY <1>5 DEF Repeat
<1>7. \A i \in 0..N : Repeat(next)[i] =
          IF next[i] = i THEN i ELSE Repeat(next)[next[i]]
  BY <1>6
<1>8. 0..N \subseteq {i \in 0..N : Repeat(next)[i] \in 0..N}
  <2> DEFINE R == {i \in 0..N : Repeat(next)[i] \in 0..N}
  <2>1. N \in R
    BY <1>7
  <2>2. ASSUME NEW n \in 0..(N - 1), \A m \in (n + 1)..N : m \in R PROVE n \in R
    <3>1. next[n] = n \/ next[n] \in (n + 1)..N
      OBVIOUS
    <3> QED BY <1>7, <2>2, <3>1
  <2>3. 0..N \subseteq R
    <3> HIDE DEF R
    <3> QED BY <2>1, <2>2, DownFrom
  <2> QED BY <2>3
<1> QED BY <1>6, <1>7, <1>8

(* It never goes back, and where it ends next stays.                       *)
LEMMA RepeatEnds ==
    ASSUME NEW N \in Nat, NEW next \in [0..N -> 0..N], \A i \in 0..N : i <= next[i]
    PROVE  \A i \in 0..N : /\ i <= Repeat(next)[i]
                           /\ next[Repeat(next)[i]] = Repeat(next)[i]
<1> DEFINE last == Repeat(next)
           R == {i \in 0..N : i <= last[i] /\ next[last[i]] = last[i]}
<1>1. /\ last \in [0..N -> 0..N]
      /\ \A i \in 0..N : last[i] = IF next[i] = i THEN i ELSE last[next[i]]
  BY RepeatIs
<1> HIDE DEF last
<1>2. N \in R
  BY <1>1
<1>3. ASSUME NEW n \in 0..(N - 1), \A m \in (n + 1)..N : m \in R PROVE n \in R
  <2>1. next[n] = n \/ next[n] \in (n + 1)..N
    OBVIOUS
  <2> QED BY <1>1, <1>3, <2>1
<1>4. 0..N \subseteq R
  <2> HIDE DEF R
  <2> QED BY <1>2, <1>3, DownFrom
<1> QED BY <1>4 DEF last

-----------------------------------------------------------------------------
(* The text.                                                               *)
LEMMA Characters ==
    ASSUME text \in Seq(Piece)
    PROVE  /\ Size \in Nat
           /\ \A i \in 1..Size : At(i) = text[i] /\ At(i) \in Piece
           /\ At(0) = "space" /\ At(Size + 1) = "EOF"
<1>1. Size \in Nat /\ \A i \in 1..Size : text[i] \in Piece
  BY LenProperties, ElementOfSeq DEF Size
<1>2. \A i \in 1..Size : At(i) = text[i]
  <2>1. \A i \in 1..Size : i # 0 /\ i <= Size
    BY <1>1
  <2> QED BY <2>1, Zenon DEF At
<1>3. At(0) = "space" /\ At(Size + 1) = "EOF"
  <2>1. Size + 1 # 0 /\ ~(Size + 1 <= Size)
    BY <1>1
  <2> QED BY <2>1, Zenon DEF At
<1> QED BY <1>1, <1>2, <1>3

LEMMA FirstAfterIs ==
    ASSUME text \in Seq(Piece), NEW i \in 0..(Size + 1), NEW S
    PROVE  LET k == FirstAfter(i, S)
           IN  /\ k \in i..(Size + 1)
               /\ k > Size \/ k \in S
               /\ \A j \in i..(k - 1) : j \notin S
<1> DEFINE T == {k \in i..(Size + 1) : k > Size \/ k \in S}
<1>0. Size \in Nat
  BY Characters
<1>1. T \in SUBSET Nat /\ Size + 1 \in T
  BY <1>0
<1>2. PICK k \in T : \A j \in T : k <= j
  <2> HIDE DEF T
  <2> QED BY <1>1, LeastNumber
<1>3. ASSUME NEW j \in i..(k - 1) PROVE j \notin S
  <2>1. j \in i..(Size + 1) /\ ~(k <= j)
    BY <1>0, <1>2
  <2> QED BY <1>2, <2>1
<1>4. \E m \in i..(Size + 1) : (m > Size \/ m \in S) /\ \A j \in i..(m - 1) : j \notin S
  BY <1>2, <1>3
<1> QED BY <1>4 DEF FirstAfter

(* What there is at a position, as far as consumeSpace looks at it.        *)
LEMMA Inside ==
    ASSUME text \in Seq(Piece), NEW i \in 0..(Size + 1), At(i) # "EOF"
    PROVE  i + 1 \in 1..(Size + 1) /\ i \in 0..Size
BY Characters

LEMMA AfterBlankIs ==
    ASSUME text \in Seq(Piece), NEW i \in 0..(Size + 1)
    PROVE  /\ AfterBlank(i) \in i..(Size + 1)
           /\ AfterBlank(i) # i => \/ At(i) = "space" /\ AfterBlank(i) = i + 1
                                   \/ Comment(i, AfterBlank(i))
           /\ AfterBlank(i) = i => At(i) \notin {"space", "hash"}
<1>0. Size \in Nat
  BY Characters
<1>1. CASE At(i) = "space"
  BY <1>0, <1>1, Inside DEF AfterBlank
<1>2. CASE At(i) = "hash"
  <2> DEFINE k == FirstAfter(i, LineEnds)
  <2>1. /\ k \in i..(Size + 1) /\ (k > Size \/ k \in LineEnds)
        /\ \A j \in i..(k - 1) : j \notin LineEnds
    BY FirstAfterIs
  <2>2. AfterBlank(i) = k
    BY <1>2 DEF AfterBlank
  <2>3. At(k) \in Newline \union {"EOF"}
    <3>1. CASE k > Size
      <4>1. k = Size + 1
        BY <2>1, <3>1, <1>0
      <4> QED BY <4>1, Characters, Zenon
    <3>2. CASE k \in LineEnds
      BY <3>2 DEF LineEnds
    <3> QED BY <2>1, <3>1, <3>2
  <2> HIDE DEF k
  <2>4. k # i
    BY <1>2, <2>3 DEF Newline
  <2> QED BY <1>2, <2>1, <2>2, <2>3, <2>4 DEF Comment
<1>3. CASE At(i) = "slash" /\ At(i + 1) = "star"
  <2>1. i \in 0..Size /\ i + 1 \in 0..(Size + 1) /\ i + 1 \in 0..Size
    BY <1>0, <1>3, Inside, Characters
  <2> DEFINE k == FirstAfter(i + 1, CommentEnds)
  <2>2. /\ k \in (i + 1)..(Size + 1) /\ (k > Size \/ k \in CommentEnds)
        /\ \A j \in (i + 1)..(k - 1) : j \notin CommentEnds
    BY <2>1, FirstAfterIs
  <2>3. AfterBlank(i) = IF k > Size THEN k ELSE k + 2
    BY <1>3 DEF AfterBlank
  <2> HIDE DEF k
  <2>4. CASE k > Size
    <3>1. k = Size + 1
      BY <1>0, <2>2, <2>4
    <3>0. At(k) = "EOF"
      BY <3>1, Characters, Zenon
    <3>2. \A j \in (i + 1)..(k - 3) : j \notin CommentEnds
      BY <1>0, <2>2, <3>1
    <3> QED BY <1>0, <1>3, <2>1, <2>3, <2>4, <3>0, <3>1, <3>2 DEF Comment
  <2>5. CASE k <= Size
    <3>1. k \in CommentEnds /\ At(k + 1) = "slash"
      BY <1>0, <2>2, <2>5 DEF CommentEnds
    <3>2. k + 1 \in 1..Size
      BY <1>0, <2>1, <2>2, <2>5, <3>1, Characters
    <3>3. (k + 2) - 2 = k /\ (k + 2) - 3 = k - 1 /\ k + 2 > i + 2 /\ k + 2 \in i..(Size + 1)
      BY <1>0, <2>1, <2>2, <3>2
    <3> QED BY <1>0, <1>3, <2>2, <2>3, <2>5, <3>1, <3>3 DEF Comment
  <2> QED BY <1>0, <2>2, <2>4, <2>5
<1>4. CASE At(i) \notin {"space", "hash"} /\ ~(At(i) = "slash" /\ At(i + 1) = "star")
  BY <1>0, <1>4 DEF AfterBlank
<1> QED BY <1>1, <1>2, <1>3, <1>4

(* consumeSpace passes over blanks and comments, and over nothing else.    *)
LEMMA SkipSpaceIs ==
    ASSUME text \in Seq(Piece), NEW i \in 0..(Size + 1)
    PROVE  /\ SkipSpace[i] \in i..(Size + 1)
           /\ Ignorable(i, SkipSpace[i])
           /\ At(SkipSpace[i]) \notin {"space", "hash"}
<1> DEFINE N == Size + 1
           next == [j \in 0..N |-> AfterBlank(j)]
           to == SkipSpace[i]
           S == {j \in i..to : SkipSpace[j] = to}
<1>0. N \in Nat
  BY Characters
<1>1. /\ next \in [0..N -> 0..N] /\ \A j \in 0..N : j <= next[j]
      /\ \A j \in 0..N : next[j] = AfterBlank(j)
  BY <1>0, AfterBlankIs, SMTT(30)
<1>2. SkipSpace = Repeat(next)
  BY DEF SkipSpace
<1> HIDE DEF next, N
<1>3. /\ SkipSpace \in [0..N -> 0..N]
      /\ \A j \in 0..N : SkipSpace[j] = IF next[j] = j THEN j ELSE SkipSpace[next[j]]
  BY <1>0, <1>1, <1>2, RepeatIs
<1>4. \A j \in 0..N : j <= SkipSpace[j] /\ next[SkipSpace[j]] = SkipSpace[j]
  BY <1>0, <1>1, <1>2, RepeatEnds
<1>5. to \in i..N /\ AfterBlank(to) = to
  BY <1>0, <1>1, <1>3, <1>4 DEF N
<1>6. SkipSpace[to] = to
  BY <1>0, <1>1, <1>3, <1>5
<1> HIDE DEF to
<1>7. {i, to} \subseteq S /\ S \subseteq i..to
  BY <1>5, <1>6 DEF to, N
<1>8. ASSUME NEW j \in S \ {to}
      PROVE  \E k \in S : j < k /\ ((At(j) = "space" /\ k = j + 1) \/ Comment(j, k))
  <2>1. j \in 0..N /\ SkipSpace[j] = to /\ to # j
    BY <1>0, <1>5
  <2>2. next[j] # j /\ SkipSpace[next[j]] = to /\ next[j] \in 0..N /\ j <= next[j]
    BY <1>1, <1>3, <2>1
  <2>3. next[j] \in S /\ j < next[j]
    BY <1>0, <1>4, <1>5, <2>1, <2>2
  <2>4. (At(j) = "space" /\ next[j] = j + 1) \/ Comment(j, next[j])
    BY <1>1, <2>1, <2>2, AfterBlankIs DEF N
  <2> QED BY <2>3, <2>4
<1>9. Ignorable(i, to)
  <2> HIDE DEF S
  <2>1. S \in SUBSET (i..to)
    BY <1>7
  <2> QED BY <1>7, <1>8, <2>1 DEF Ignorable
<1> QED BY <1>5, <1>9, AfterBlankIs DEF to, N

(* The end of a line, or several: consumeEndOfLine passes over nothing     *)
(* else, and over nothing but a last carriage return if there is no line   *)
(* feed.                                                                   *)
LEMMA AfterNewlineIs ==
    ASSUME text \in Seq(Piece), NEW i \in 0..(Size + 1)
    PROVE  /\ AfterNewline(i) \in i..(Size + 1)
           /\ \A j \in i..(AfterNewline(i) - 1) : At(j) \in Newline
           /\ At(i) \notin Newline => AfterNewline(i) = i
<1>0. Size \in Nat
  BY Characters
<1>1. CASE At(i) = "LF"
  <2>1. AfterNewline(i) = i + 1 /\ i + 1 \in i..(Size + 1)
    BY <1>0, <1>1, Inside DEF AfterNewline
  <2>2. \A j \in i..(AfterNewline(i) - 1) : j = i
    BY <1>0, <2>1
  <2> QED BY <1>1, <2>1, <2>2, Zenon DEF Newline
<1>2. CASE At(i) = "CR" /\ At(i + 1) = "LF"
  <2>1. i \in 0..Size /\ i + 1 \in 0..(Size + 1)
    BY <1>0, <1>2, Inside
  <2>2. i + 1 \in 0..Size
    BY <1>0, <1>2, <2>1, Inside
  <2>3. AfterNewline(i) = i + 2 /\ i + 2 \in i..(Size + 1)
    BY <1>0, <1>2, <2>2 DEF AfterNewline
  <2>4. \A j \in i..(AfterNewline(i) - 1) : j = i \/ j = i + 1
    BY <1>0, <2>3
  <2> QED BY <1>2, <2>3, <2>4, Zenon DEF Newline
<1>3. CASE At(i) = "CR" /\ At(i + 1) # "LF" /\ i = Size
  <2>1. AfterNewline(i) = i + 1 /\ i + 1 \in i..(Size + 1)
    BY <1>0, <1>3 DEF AfterNewline
  <2>2. \A j \in i..(AfterNewline(i) - 1) : j = i
    BY <1>0, <2>1
  <2> QED BY <1>3, <2>1, <2>2, Zenon DEF Newline
<1>4. CASE At(i) # "LF" /\ ~(At(i) = "CR" /\ (At(i + 1) = "LF" \/ i = Size))
  <2>1. AfterNewline(i) = i
    BY <1>4 DEF AfterNewline
  <2>2. i \in i..(Size + 1) /\ ~\E j \in i..(i - 1) : TRUE
    BY <1>0
  <2> QED BY <2>1, <2>2
<1> QED BY <1>1, <1>2, <1>3, <1>4

LEMMA SkipNewlinesIs ==
    ASSUME text \in Seq(Piece), NEW i \in 0..(Size + 1)
    PROVE  /\ SkipNewlines[i] \in i..(Size + 1)
           /\ \A j \in i..(SkipNewlines[i] - 1) : At(j) \in Newline
           /\ AfterNewline(i) = i <=> SkipNewlines[i] = i
           /\ AfterNewline(i) = Size + 1 => SkipNewlines[i] = Size + 1
<1> DEFINE N == Size + 1
           next == [j \in 0..N |-> AfterNewline(j)]
           S == {n \in 0..N : \A j \in n..(SkipNewlines[n] - 1) : At(j) \in Newline}
<1>0. N \in Nat
  BY Characters
<1>1. /\ next \in [0..N -> 0..N] /\ \A j \in 0..N : j <= next[j]
      /\ \A j \in 0..N : next[j] = AfterNewline(j)
  BY <1>0, AfterNewlineIs, SMTT(30)
<1>2. SkipNewlines = Repeat(next)
  BY DEF SkipNewlines
<1> HIDE DEF next
<1>3. /\ SkipNewlines \in [0..N -> 0..N]
      /\ \A j \in 0..N : SkipNewlines[j] = IF next[j] = j THEN j ELSE SkipNewlines[next[j]]
  BY <1>0, <1>1, <1>2, RepeatIs
<1>4. \A j \in 0..N : j <= SkipNewlines[j] /\ next[SkipNewlines[j]] = SkipNewlines[j]
  BY <1>0, <1>1, <1>2, RepeatEnds
<1>5. N \in S
  <2>1. SkipNewlines[N] = N
    BY <1>0, <1>3, <1>4
  <2> QED BY <1>0, <2>1
<1>6. ASSUME NEW n \in 0..(N - 1), \A m \in (n + 1)..N : m \in S PROVE n \in S
  <2>0. n \in 0..N
    BY <1>0
  <2>1. CASE next[n] = n
    BY <1>0, <1>3, <2>0, <2>1
  <2>2. CASE next[n] # n
    <3>1. next[n] \in (n + 1)..N /\ SkipNewlines[n] = SkipNewlines[next[n]]
      BY <1>0, <1>1, <1>3, <2>0, <2>2
    <3>2. \A j \in next[n]..(SkipNewlines[next[n]] - 1) : At(j) \in Newline
      BY <1>6, <3>1
    <3>3. \A j \in n..(next[n] - 1) : At(j) \in Newline
      BY <1>1, <2>0, AfterNewlineIs
    <3>4. SkipNewlines[n] \in 0..N
      BY <1>3, <2>0
    <3>5. \A j \in n..(SkipNewlines[n] - 1) :
             j \in next[n]..(SkipNewlines[n] - 1) \/ j \in n..(next[n] - 1)
      BY <1>0, <3>1, <3>4
    <3> QED BY <2>0, <3>1, <3>2, <3>3, <3>5
  <2> QED BY <2>1, <2>2
<1>7. 0..N \subseteq S
  <2> HIDE DEF S, N
  <2> QED BY <1>0, <1>5, <1>6, DownFrom
<1>8. SkipNewlines[i] \in i..N
  BY <1>0, <1>3, <1>4
<1>9. AfterNewline(i) = i <=> SkipNewlines[i] = i
  BY <1>1, <1>3, <1>4
<1>10. AfterNewline(i) = N => SkipNewlines[i] = N
  <2>1. SkipNewlines[N] = N
    BY <1>0, <1>3, <1>4
  <2> QED BY <1>1, <1>3, <2>1
<1> QED BY <1>7, <1>8, <1>9, <1>10

-----------------------------------------------------------------------------
(* The tokens.                                                             *)

(* The part of the text a token is.                                        *)
LEMMA RunIs ==
    ASSUME text \in Seq(Piece), NEW i \in 1..(Size + 1), NEW k \in i..(Size + 1)
    PROVE  LET run == SubSeq(text, i, k - 1)
           IN  /\ run \in Seq(Piece)
               /\ Len(run) = k - i
               /\ \A j \in 1..Len(run) : run[j] = At(i + j - 1)
<1> DEFINE run == SubSeq(text, i, k - 1)
<1>0. Size \in Nat
  BY Characters
<1>1. i \in Int /\ k - 1 \in Int /\ \A j \in i..(k - 1) : j \in 1..Size
  BY <1>0
<1>2. \A j \in i..(k - 1) : text[j] \in Piece /\ At(j) = text[j]
  BY <1>1, Characters
<1>3. /\ run \in Seq(Piece)
      /\ Len(run) = IF i <= k - 1 THEN (k - 1) - i + 1 ELSE 0
      /\ \A j \in 1..((k - 1) - i + 1) : run[j] = text[i + j - 1]
  BY <1>1, <1>2, SubSeqProperties
<1> HIDE DEF run
<1>4. Len(run) = k - i /\ \A j \in 1..Len(run) : run[j] = text[i + j - 1]
  BY <1>0, <1>3
<1>5. \A j \in 1..Len(run) : i + j - 1 \in i..(k - 1)
  BY <1>0, <1>4
<1> QED BY <1>2, <1>3, <1>4, <1>5 DEF run

(* What a lexeme must be, to be the next one behind i.                     *)
IsToken(t, i) ==
    /\ t \in [kind : Kind, from : 1..(Size + 1), to : 1..(Size + 1)]
    /\ t.from = i /\ t.from <= t.to
    /\ t.kind = "Name" => At(t.from) \notin Delimiter
    /\ WellFormed(t)

LEMMA LexemeIs ==
    ASSUME text \in Seq(Piece), NEW i \in 1..(Size + 1), NEW k \in i..(Size + 1),
           NEW kind \in Kind, kind # "Name", WellFormed(Lexeme(kind, i, k))
    PROVE  IsToken(Lexeme(kind, i, k), i)
<1> DEFINE t == Lexeme(kind, i, k)
<1>0. Size \in Nat
  BY Characters
<1>1. t = [kind |-> kind, from |-> i, to |-> k]
  BY DEF Lexeme
<1> HIDE DEF t
<1>2. t.kind = kind /\ t.from = i /\ t.to = k
  BY <1>1
<1>3. k \in 1..(Size + 1) /\ t.from <= t.to
  BY <1>0, <1>2
<1>4. t \in [kind : Kind, from : 1..(Size + 1), to : 1..(Size + 1)]
  BY <1>1, <1>3
<1>5. WellFormed(t)
  BY DEF t
<1> QED BY <1>2, <1>3, <1>4, <1>5 DEF IsToken, t

LEMMA ParseWordIs ==
    ASSUME text \in Seq(Piece), NEW i \in 1..Size, At(i) \in Word \union Number
    PROVE  IsToken(ParseWord(i), i)
<1> DEFINE k == FirstAfter(i, WordEnds)
           run == SubSeq(text, i, k - 1)
           t == ParseWord(i)
<1>0. Size \in Nat
  BY Characters
<1>1. /\ k \in i..(Size + 1)
      /\ k > Size \/ k \in WordEnds
      /\ \A j \in i..(k - 1) : j \notin WordEnds
  BY <1>0, FirstAfterIs
<1>2. At(k) \notin Word \union Number
  <2>1. CASE k > Size
    <3>1. k = Size + 1
      BY <1>0, <1>1, <2>1
    <3>2. At(k) = "EOF"
      BY <3>1, Characters, Zenon
    <3> QED BY <3>2 DEF Word, Number, Keyword
  <2>2. CASE k \in WordEnds
    BY <2>2 DEF WordEnds
  <2> QED BY <1>1, <2>1, <2>2
<1>3. /\ t = Lexeme(t.kind, i, k)
      /\ t.kind = IF At(i) \in Number THEN "Value"
                  ELSE IF At(i) \in Keyword /\ k = i + 1 THEN At(i) ELSE "Name"
      /\ t.from = i /\ t.to = k
  BY DEF ParseWord, Lexeme
<1> HIDE DEF k, t
<1>4. k # i
  BY <1>2
<1>5. k \in (i + 1)..(Size + 1)
  BY <1>0, <1>1, <1>4
<1>6. \A j \in i..(k - 1) : At(j) \in Word \union Number
  BY <1>0, <1>1 DEF WordEnds
<1>7. /\ run \in Seq(Piece) /\ Len(run) = k - i
      /\ \A j \in 1..Len(run) : run[j] = At(i + j - 1)
  <2>1. i \in 1..(Size + 1)
    BY <1>0
  <2> QED BY <1>1, <2>1, RunIs, Zenon
<1> HIDE DEF run
<1>8. run[1] = At(i) /\ \A j \in 1..Len(run) : run[j] \in Word \union Number
  <2>1. 1 \in 1..Len(run) /\ i + 1 - 1 = i
    BY <1>0, <1>5, <1>7
  <2>2. \A j \in 1..Len(run) : i + j - 1 \in i..(k - 1)
    BY <1>0, <1>5, <1>7
  <2>3. run[1] = At(i)
    BY <1>7, <2>1
  <2> QED BY <1>6, <1>7, <2>2, <2>3
<1>9. At(i) \notin Delimiter
  BY DEF Word, Number, Keyword, Delimiter
<1>10. t \in [kind : Kind, from : 1..(Size + 1), to : 1..(Size + 1)]
  <2>1. t.kind \in Kind
    BY <1>3 DEF Kind
  <2>2. i \in 1..(Size + 1) /\ k \in 1..(Size + 1)
    BY <1>0, <1>5
  <2> QED BY <1>3, <2>1, <2>2 DEF Lexeme
<1>11. WellFormed(t)
  <2>0. run = SubSeq(text, t.from, t.to - 1) /\ run # <<>>
    <3>1. Len(run) # 0
      BY <1>0, <1>5, <1>7
    <3> QED BY <1>3, <3>1, EmptySeq, Zenon DEF run
  <2>4. ~(t.kind = "Eof") /\ ~(t.from > Size)
    BY <1>0, <1>3 DEF Keyword
  <2>1. CASE t.kind = "Value"
    <3>1. run[1] \in Number /\ t.kind \notin Keyword
      BY <1>3, <1>8, <2>1 DEF Keyword
    <3> QED BY <1>2, <1>3, <2>0, <2>1, <2>4, <3>1 DEF WellFormed, Grammar
  <2>2. CASE t.kind \in Keyword
    <3>1. t.kind = At(i) /\ k = i + 1
      BY <1>3, <2>2 DEF Keyword
    <3>2. Len(run) = 1
      BY <1>7, <3>1
    <3>3. run = <<t.kind>>
      BY <1>7, <1>8, <3>1, <3>2
    <3>4. t.kind \notin {"End", "Name", "Value", "Eof", "Unknown"}
      BY <2>2 DEF Keyword
    <3> QED BY <1>2, <1>3, <2>0, <2>2, <2>4, <3>3, <3>4, Zenon DEF WellFormed, Grammar
  <2>3. CASE t.kind = "Name"
    <3>1. At(i) \in Word /\ t.kind \notin Keyword
      BY <1>3, <2>3 DEF Keyword
    <3> QED BY <1>2, <1>3, <1>8, <2>0, <2>3, <2>4, <3>1 DEF WellFormed, Grammar
  <2> QED BY <1>3, <2>1, <2>2, <2>3
<1>12. t.from <= t.to
  BY <1>0, <1>3, <1>5
<1> QED BY <1>3, <1>9, <1>10, <1>11, <1>12 DEF IsToken, t

LEMMA ParseStringIs ==
    ASSUME text \in Seq(Piece), NEW i \in 1..Size, At(i) \in Delimiter
    PROVE  IsToken(ParseString(i), i)
<1> DEFINE k == FirstAfter(i + 1, Closing(i))
           t == ParseString(i)
<1>0. Size \in Nat
  BY Characters
<1>1. /\ k \in (i + 1)..(Size + 1)
      /\ k > Size \/ k \in Closing(i)
      /\ \A j \in (i + 1)..(k - 1) : j \notin Closing(i)
  <2>1. i + 1 \in 0..(Size + 1)
    BY <1>0
  <2> QED BY <2>1, FirstAfterIs
<1>2. t = IF k > Size THEN Lexeme("Unknown", i, k) ELSE Lexeme("Value", i, k + 1)
  BY DEF ParseString
<1> HIDE DEF k, t
<1>3. i \in 1..(Size + 1) /\ k \in i..(Size + 1) /\ k \in 1..(Size + 1)
  BY <1>0, <1>1
<1>4. CASE k > Size
  <2> DEFINE run == SubSeq(text, i, k - 1)
  <2>1. /\ t = Lexeme("Unknown", i, k)
        /\ t.kind = "Unknown" /\ t.from = i /\ t.to = k
    BY <1>2, <1>4 DEF Lexeme
  <2>2. /\ Len(run) = k - i
        /\ \A j \in 1..Len(run) : run[j] = At(i + j - 1)
    BY <1>3, RunIs, Zenon
  <2> HIDE DEF run
  <2>3. 1 \in 1..Len(run) /\ i + 1 - 1 = i
    BY <1>0, <1>1, <2>2
  <2>4. run[1] \in Delimiter
    BY <2>2, <2>3
  <2>5. t.kind \notin Keyword
    BY <2>1 DEF Keyword
  <2>6. WellFormed(t)
    <3>1. ~(t.kind = "Eof") /\ ~(t.from > Size)
      BY <1>0, <2>1
    <3> QED BY <2>1, <2>4, <2>5, <3>1 DEF WellFormed, Grammar, run
  <2>7. t.kind \in Kind
    BY <2>1 DEF Kind
  <2> QED BY <1>3, <2>1, <2>6, <2>7, LexemeIs DEF t
<1>5. CASE ~(k > Size)
  <2> DEFINE run == SubSeq(text, i, (k + 1) - 1)
  <2>1. /\ t = Lexeme("Value", i, k + 1)
        /\ t.kind = "Value" /\ t.from = i /\ t.to = k + 1
    BY <1>2, <1>5 DEF Lexeme
  <2>2. k + 1 \in i..(Size + 1) /\ k + 1 \in 1..(Size + 1) /\ k \in 1..Size
    BY <1>0, <1>3, <1>5
  <2>3. /\ Len(run) = (k + 1) - i
        /\ \A j \in 1..Len(run) : run[j] = At(i + j - 1)
    BY <1>3, <2>2, RunIs, Zenon
  <2> HIDE DEF run
  <2>4. /\ 1 \in 1..Len(run) /\ i + 1 - 1 = i /\ Len(run) > 1
        /\ Len(run) \in 1..Len(run) /\ i + Len(run) - 1 = k
    BY <1>0, <1>1, <2>2, <2>3
  <2>5. run[1] = At(i) /\ run[Len(run)] = At(k)
    BY <2>3, <2>4
  <2>6. At(k) = At(i)
    BY <1>1, <1>5 DEF Closing
  <2>7. ASSUME NEW j \in 2..(Len(run) - 1), run[j] = run[1]
        PROVE  run[j - 1] = "backslash"
    <3>1. /\ j \in 1..Len(run) /\ j - 1 \in 1..Len(run)
          /\ i + j - 1 \in (i + 1)..(k - 1) /\ i + j - 1 \in 1..Size
          /\ i + (j - 1) - 1 = (i + j - 1) - 1
      BY <1>0, <1>1, <2>2, <2>3
    <3>2. run[j] = At(i + j - 1) /\ run[j - 1] = At((i + j - 1) - 1)
      BY <2>3, <3>1
    <3>3. i + j - 1 \notin Closing(i)
      BY <1>1, <3>1
    <3> QED BY <2>5, <2>7, <3>1, <3>2, <3>3 DEF Closing
  <2>8. t.kind \notin Keyword /\ t.kind \in Kind
    BY <2>1 DEF Keyword, Kind
  <2>9. WellFormed(t)
    <3>1. run = SubSeq(text, t.from, t.to - 1)
      BY <2>1 DEF run
    <3>2. run[1] \in Delimiter /\ run[Len(run)] = run[1]
      BY <2>5, <2>6
    <3>3. run # <<>>
      <4>1. Len(run) # 0
        BY <2>4
      <4> QED BY <4>1, EmptySeq, Zenon
    <3>4. ASSUME NEW whole PROVE Grammar("Value", run, whole)
      BY <2>1, <2>4, <2>7, <2>8, <3>2, <3>3, Zenon DEF Grammar
    <3> QED BY <1>0, <2>1, <3>1, <3>4 DEF WellFormed
  <2> QED BY <1>3, <2>1, <2>2, <2>8, <2>9, LexemeIs DEF t
<1> QED BY <1>4, <1>5 DEF t

(* Every token is what the grammar calls by its name, and only blanks and  *)
(* comments stand before it.                                               *)
LEMMA LexIs ==
    ASSUME text \in Seq(Piece), NEW pos \in 0..(Size + 1)
    PROVE  /\ IsToken(Lex(pos), Lex(pos).from) /\ Ignorable(pos, Lex(pos).from)
           /\ Lex(pos).from \in pos..(Size + 1)
<1> DEFINE i == SkipSpace[pos]
           k == SkipNewlines[i]
           t == Lex(pos)
<1>0. Size \in Nat
  BY Characters
<1>1. i \in pos..(Size + 1) /\ Ignorable(pos, i) /\ At(i) # "space"
  BY SkipSpaceIs, Zenon
<1>2. i \in 1..(Size + 1)
  <2>1. i # 0
    BY <1>1, Characters, Zenon
  <2> QED BY <1>0, <1>1, <2>1
<1>3. /\ k \in i..(Size + 1)
      /\ \A j \in i..(k - 1) : At(j) \in Newline
      /\ AfterNewline(i) = i <=> k = i
      /\ AfterNewline(i) = Size + 1 => k = Size + 1
  <2>1. i \in 0..(Size + 1)
    BY <1>0, <1>2
  <2> QED BY <2>1, SkipNewlinesIs, Zenon
<1>4. t = CASE i > Size -> Lexeme("Eof", i, i)
            [] At(i) = "LF" \/ (At(i) = "CR" /\ At(i + 1) = "LF") -> Lexeme("End", i, k)
            [] At(i) \in Word \union Number -> ParseWord(i)
            [] At(i) \in Delimiter -> ParseString(i)
            [] OTHER -> Lexeme("Unknown", i, k)
  BY <1>2 DEF Lex, TokenAt
<1> HIDE DEF i, k, t
<1> DEFINE run == SubSeq(text, i, k - 1)
<1>5. k \in 1..(Size + 1) /\ i \in 0..(Size + 1)
  BY <1>0, <1>2, <1>3
<1>6. /\ Len(run) = k - i
      /\ \A j \in 1..Len(run) : run[j] = At(i + j - 1)
  BY <1>2, <1>3, RunIs, Zenon
<1>7. Len(run) = 0 => run = <<>>
  <2>1. run \in Seq(Piece)
    BY <1>2, <1>3, RunIs, Zenon
  <2> HIDE DEF run
  <2> QED BY <2>1
<1> HIDE DEF run
<1>8. SUFFICES IsToken(t, i)
  <2>1. t.from = i
    BY <1>8 DEF IsToken
  <2> QED BY <1>1, <1>8, <2>1 DEF t
<1>9. CASE i > Size
  <2>1. i = Size + 1
    BY <1>0, <1>2, <1>9
  <2>2. k = i
    BY <1>0, <1>3, <2>1
  <2>3. run = <<>>
    BY <1>0, <1>2, <1>6, <1>7, <2>2
  <2>4. t = Lexeme("Eof", i, k)
    <3>1. At(i) = "EOF"
      BY <2>1, Characters, Zenon
    <3>2. At(i) \notin Word \union Number \union Delimiter
      BY <3>1 DEF Word, Number, Keyword, Delimiter
    <3> QED BY <1>4, <1>9, <2>2, <3>1, <3>2
  <2>5. t.kind = "Eof" /\ t.from = i /\ t.to = k
    BY <2>4 DEF Lexeme
  <2>6. t.kind \in Kind /\ t.kind \notin Keyword
    BY <2>5 DEF Kind, Keyword
  <2>7. WellFormed(t)
    BY <1>9, <2>3, <2>5, <2>6 DEF WellFormed, Grammar, run
  <2> QED BY <1>2, <1>3, <2>4, <2>5, <2>6, <2>7, LexemeIs
<1>10. CASE ~(i > Size) /\ (At(i) = "LF" \/ (At(i) = "CR" /\ At(i + 1) = "LF"))
  <2>1. t = Lexeme("End", i, k)
    <3>1. At(i) \notin Word \union Number \union Delimiter
      BY <1>10 DEF Word, Number, Keyword, Delimiter
    <3> QED BY <1>4, <1>10, <3>1
  <2>2. t.kind = "End" /\ t.from = i /\ t.to = k
    BY <2>1 DEF Lexeme
  <2>3. t.kind \in Kind /\ t.kind \notin Keyword
    BY <2>2 DEF Kind, Keyword
  <2>4. \A j \in 1..Len(run) : i + j - 1 \in i..(k - 1)
    BY <1>0, <1>2, <1>3, <1>6
  <2>5. run # <<>>
    <3>1. AfterNewline(i) # i
      BY <1>0, <1>2, <1>10 DEF AfterNewline
    <3>2. Len(run) # 0
      BY <1>0, <1>2, <1>3, <1>6, <3>1
    <3> QED BY <3>2, EmptySeq, Zenon
  <2>6. WellFormed(t)
    BY <1>3, <1>6, <1>10, <2>2, <2>3, <2>4, <2>5 DEF WellFormed, Grammar, run
  <2> QED BY <1>2, <1>3, <2>1, <2>2, <2>3, <2>6, LexemeIs
<1>11. CASE ~(i > Size) /\ At(i) \in Word \union Number
  <2>1. At(i) \notin {"LF", "CR"} \union Delimiter
    BY <1>11 DEF Word, Number, Keyword, Delimiter
  <2>2. t = ParseWord(i) /\ i \in 1..Size
    BY <1>0, <1>2, <1>4, <1>11, <2>1
  <2> QED BY <1>11, <2>2, ParseWordIs
<1>12. CASE ~(i > Size) /\ At(i) \in Delimiter
  <2>1. At(i) \notin {"LF", "CR"} /\ At(i) \notin Word \union Number
    BY <1>12 DEF Word, Number, Keyword, Delimiter
  <2>2. t = ParseString(i) /\ i \in 1..Size
    BY <1>0, <1>2, <1>4, <1>12, <2>1
  <2> QED BY <1>12, <2>2, ParseStringIs
<1>13. CASE /\ ~(i > Size) /\ ~(At(i) = "LF" \/ (At(i) = "CR" /\ At(i + 1) = "LF"))
            /\ At(i) \notin Word \union Number \union Delimiter
  <2>1. t = Lexeme("Unknown", i, k)
    BY <1>4, <1>13
  <2>2. t.kind = "Unknown" /\ t.from = i /\ t.to = k
    BY <2>1 DEF Lexeme
  <2>3. t.kind \in Kind /\ t.kind \notin Keyword
    BY <2>2 DEF Kind, Keyword
  <2>4. run = <<>> \/ run[1] = "CR"
    <3>1. CASE At(i) = "CR"
      <4>1. CASE k = i
        BY <1>0, <1>2, <1>6, <1>7, <4>1
      <4>2. CASE k # i
        <5>1. 1 \in 1..Len(run) /\ i + 1 - 1 = i
          BY <1>0, <1>2, <1>3, <1>6, <4>2
        <5> QED BY <1>6, <3>1, <5>1
      <4> QED BY <4>1, <4>2
    <3>2. CASE At(i) # "CR"
      <4>1. At(i) \notin Newline
        BY <1>13, <3>2 DEF Newline
      <4>2. k = i
        BY <1>3, <1>5, <4>1, AfterNewlineIs
      <4> QED BY <1>0, <1>2, <1>6, <1>7, <4>2
    <3> QED BY <3>1, <3>2
  <2>5. WellFormed(t)
    BY <1>13, <2>2, <2>3, <2>4 DEF WellFormed, Grammar, run
  <2> QED BY <1>2, <1>3, <2>1, <2>2, <2>3, <2>5, LexemeIs
<1> QED BY <1>9, <1>10, <1>11, <1>12, <1>13

-----------------------------------------------------------------------------
(* Lexing.                                                                *)
Token == [kind : Kind, from : 1..(Size + 1), to : 1..(Size + 1)]

(* What was lexed so far, with the token the parser has in hand.           *)
Lexing ==
    /\ text \in Seq(Piece)
    /\ lexed \in Seq(Token) /\ lexed # <<>>
    /\ token = lexed[Len(lexed)]
    /\ \A n \in 1..Len(lexed) : IsToken(lexed[n], lexed[n].from)
    /\ TokensAreText

(* The text stays as it is, and with it what is said about it.             *)
LEMMA SameText ==
    ASSUME text' = text
    PROVE  /\ Size' = Size
           /\ \A t : WellFormed(t)' <=> WellFormed(t)
           /\ \A t : IsToken(t, t.from)' <=> IsToken(t, t.from)
           /\ \A from, to : Ignorable(from, to)' <=> Ignorable(from, to)
<1>1. Size' = Size
  BY DEF Size
<1>2. \A j : At(j)' = At(j)
  BY <1>1 DEF At
<1>3. LineEnds' = LineEnds /\ CommentEnds' = CommentEnds
  BY <1>1, <1>2 DEF LineEnds, CommentEnds
<1>4. \A t : WellFormed(t)' <=> WellFormed(t)
  BY <1>1, <1>2 DEF WellFormed
<1>5. \A t : IsToken(t, t.from)' <=> IsToken(t, t.from)
  BY <1>1, <1>2, <1>4 DEF IsToken
<1>6. \A j, k : Comment(j, k)' <=> Comment(j, k)
  BY <1>2, <1>3 DEF Comment
<1>7. \A from, to : Ignorable(from, to)' <=> Ignorable(from, to)
  BY <1>2, <1>6 DEF Ignorable
<1> QED BY <1>1, <1>4, <1>5, <1>7

(* No step of the parser touches the text, and it has the lexer read one   *)
(* token or none.                                                          *)
LEMMA StepsOfTheLexer ==
    ASSUME [Next]_vars
    PROVE  text' = text /\ (NextToken \/ UNCHANGED lexer)
<1>1. ASSUME NEW kinds, NEW label, Consume(kinds, label) PROVE NextToken
  BY <1>1 DEF Consume
<1> QED BY <1>1 DEF Next, ReadToken, PluginDecl, EventDecl, OutputDecl, UnexpectedToken,
     PluginKeyword, PluginPath, PluginEnd, EventKeyword, EventName, EventProperty,
     EventEnd, SourceKeyword, SourceName, SourceValue, SourceProperty, SourceEnd,
     EventDone, OutputKeyword, OutputName, OutputPath, OutputEnd, vars

LEMMA LexingInit == Init => Lexing
<1> SUFFICES ASSUME Init PROVE Lexing
  OBVIOUS
<1>1. text \in Seq(Piece) /\ token = Lex(0) /\ lexed = <<token>>
  BY TextsAssumption DEF Init
<1>2. 0 \in 0..(Size + 1)
  BY <1>1, Characters
<1>3. IsToken(token, token.from) /\ Ignorable(0, token.from)
  BY <1>1, <1>2, LexIs
<1>4. token \in Token /\ WellFormed(token)
  BY <1>3 DEF IsToken, Token
<1>5. /\ lexed \in Seq(Token) /\ lexed # <<>>
      /\ Len(lexed) = 1 /\ lexed[1] = token
  BY <1>1, <1>4
<1>6. \A n \in 1..Len(lexed) : n = 1
  BY <1>5
<1> HIDE DEF Init
<1> QED BY <1>1, <1>3, <1>4, <1>5, <1>6 DEF Lexing, TokensAreText

LEMMA LexingStep ==
    ASSUME Lexing, [Next]_vars
    PROVE  Lexing'
<1>1. text' = text /\ (NextToken \/ UNCHANGED lexer)
  BY StepsOfTheLexer
<1>2. /\ Size' = Size /\ Token' = Token
      /\ \A t : WellFormed(t)' <=> WellFormed(t)
      /\ \A t : IsToken(t, t.from)' <=> IsToken(t, t.from)
      /\ \A from, to : Ignorable(from, to)' <=> Ignorable(from, to)
  BY <1>1, SameText DEF Token
<1>3. /\ text \in Seq(Piece) /\ lexed \in Seq(Token) /\ lexed # <<>>
      /\ token = lexed[Len(lexed)]
      /\ \A n \in 1..Len(lexed) : IsToken(lexed[n], lexed[n].from)
      /\ \A n \in 1..Len(lexed) :
            /\ WellFormed(lexed[n])
            /\ Ignorable(IF n = 1 THEN 0 ELSE lexed[n - 1].to, lexed[n].from)
  BY DEF Lexing, TokensAreText
<1>4. CASE UNCHANGED lexer
  BY <1>1, <1>2, <1>3, <1>4 DEF Lexing, TokensAreText, lexer
<1>5. CASE NextToken
  <2> DEFINE t == Lex(token.to)
             L == Len(lexed)
  <2>1. L \in Nat \ {0} /\ token \in Token
    BY <1>3
  <2>2. token.to \in 0..(Size + 1)
    BY <1>3, <2>1, Characters DEF Token
  <2>3. IsToken(t, t.from) /\ Ignorable(token.to, t.from)
    BY <1>3, <2>2, LexIs
  <2>4. t \in Token /\ WellFormed(t)
    BY <2>3 DEF IsToken, Token
  <2>5. token' = t /\ lexed' = Append(lexed, t)
    BY <1>5 DEF NextToken
  <2> HIDE DEF t
  <2>6. /\ lexed' \in Seq(Token) /\ lexed' # <<>> /\ Len(lexed') = L + 1
        /\ \A n \in 1..L : lexed'[n] = lexed[n]
        /\ lexed'[L + 1] = t
    BY <1>3, <2>4, <2>5, AppendProperties
  <2>7. ASSUME NEW n \in 1..Len(lexed')
        PROVE  /\ IsToken(lexed'[n], lexed'[n].from)
               /\ WellFormed(lexed'[n])
               /\ Ignorable(IF n = 1 THEN 0 ELSE lexed'[n - 1].to, lexed'[n].from)
    <3>1. CASE n = L + 1
      <4>1. L \in 1..L /\ (L + 1) - 1 = L /\ L + 1 # 1
        BY <2>1
      <4>2. lexed'[n - 1] = token
        BY <1>3, <2>6, <3>1, <4>1
      <4> QED BY <2>3, <2>4, <2>6, <3>1, <4>1, <4>2
    <3>2. CASE n # L + 1
      <4>1. n \in 1..L /\ (n # 1 => n - 1 \in 1..L)
        BY <2>1, <2>6, <3>2
      <4> QED BY <1>3, <2>6, <4>1
    <3> QED BY <3>1, <3>2
  <2>8. TokensAreText'
    BY <1>2, <2>7 DEF TokensAreText
  <2> QED BY <1>1, <1>2, <1>3, <2>5, <2>6, <2>7, <2>8 DEF Lexing
<1> QED BY <1>1, <1>4, <1>5

(* The tokens are the text, whatever the text: every one is what the       *)
(* grammar calls by its name, and between them there is nothing but blanks *)
(* and comments.                                                           *)
THEOREM TokensRead == Spec => []TokensAreText
<1>1. Init => Lexing
  BY LexingInit
<1>2. Lexing /\ [Next]_vars => Lexing'
  BY LexingStep
<1>3. Lexing => TokensAreText
  BY DEF Lexing
<1> QED BY <1>1, <1>2, <1>3, PTL DEF Spec

-----------------------------------------------------------------------------
(* What the parser keeps.                                                  *)
Keeping ==
    /\ pc \in {"tokens", "end", "error", "sources", "sourceProperties"}
              \union DOMAIN Expected
    /\ plugins \in Seq(Seq(Piece)) /\ path \in Seq(Piece)
    /\ event \in Event /\ source \in Source /\ target \in Target
    /\ events \in Seq(Event) /\ targets \in Seq(Target)

LEMMA StringIs ==
    ASSUME text \in Seq(Piece), NEW t \in Token
    PROVE  StringOf(t) \in Seq(Piece)
<1>0. Size \in Nat /\ \A j \in 1..Size : text[j] \in Piece
  BY Characters
<1>1. t.from \in 1..(Size + 1) /\ t.to \in 1..(Size + 1)
  BY DEF Token
<1>2. SubSeq(text, t.from + 1, t.to - 2) \in Seq(Piece)
  <2>1. t.from + 1 \in Int /\ t.to - 2 \in Int
        /\ \A j \in (t.from + 1)..(t.to - 2) : j \in 1..Size
    BY <1>0, <1>1
  <2> QED BY <1>0, <2>1, SubSeqProperties
<1>3. SubSeq(text, t.from, t.to - 1) \in Seq(Piece)
  <2>1. t.from \in Int /\ t.to - 1 \in Int
        /\ \A j \in t.from..(t.to - 1) : j \in 1..Size
    BY <1>0, <1>1
  <2> QED BY <1>0, <2>1, SubSeqProperties
<1> QED BY <1>2, <1>3 DEF StringOf

LEMMA Labels ==
    DOMAIN Expected = {"goal", "pluginPath", "pluginEnd", "eventName", "eventProperties",
                       "sourceName", "sourceValue", "outputName", "outputPath", "outputEnd"}
BY DEF Expected

LEMMA KeepingInit == Init => Keeping
BY Labels DEF Init, Keeping, NoEvent, NoSource, NoTarget, Event, Source, Target

LEMMA KeepingStep ==
    ASSUME Lexing, Keeping, [Next]_vars
    PROVE  Keeping'
<1>1. StringValue \in Seq(Piece)
  <2>1. text \in Seq(Piece) /\ token \in Token
    BY LenProperties, ElementOfSeq DEF Lexing
  <2> QED BY <2>1, StringIs DEF StringValue
<1> USE Labels DEF Keeping
<1>2. CASE UNCHANGED vars
  BY <1>2 DEF vars, result, decls
<1>3. CASE ReadToken
  BY <1>3 DEF ReadToken, result, decls
<1>4. CASE PluginKeyword
  BY <1>4 DEF PluginKeyword, Consume, result, decls
<1>5. CASE PluginPath
  BY <1>1, <1>5 DEF PluginPath, Consume, result
<1>6. CASE PluginEnd
  BY <1>6 DEF PluginEnd, Consume, decls
<1>7. CASE EventKeyword
  BY <1>7 DEF EventKeyword, Consume, result, NoEvent, Event
<1>8. CASE EventName
  BY <1>1, <1>8 DEF EventName, Consume, result, Event
<1>9. CASE EventProperty
  BY <1>9 DEF EventProperty, Consume, result, Event
<1>10. CASE EventEnd
  BY <1>10 DEF EventEnd, Consume, result, decls
<1>11. CASE SourceKeyword
  BY <1>11 DEF SourceKeyword, Consume, result, NoSource, Source
<1>12. CASE SourceName
  BY <1>1, <1>12 DEF SourceName, Consume, result, Source
<1>13. CASE SourceValue
  BY <1>1, <1>13 DEF SourceValue, Consume, result, Source
<1>14. CASE SourceProperty
  <2>1. source.properties + 1 \in Nat
    BY DEF Source
  <2>2. source' \in Source
    BY <1>14, <2>1 DEF SourceProperty, Source
  <2> QED BY <1>14, <2>2 DEF SourceProperty, Consume, result
<1>15. CASE SourceEnd
  <2>1. Append(event.sources, source) \in Seq(Source)
    BY AppendProperties DEF Event
  <2>2. event' \in Event
    BY <1>15, <2>1 DEF SourceEnd, Event
  <2> QED BY <1>15, <2>2 DEF SourceEnd, result
<1>16. CASE EventDone
  BY <1>16 DEF EventDone, NoTarget, Target
<1>17. CASE OutputKeyword
  BY <1>17 DEF OutputKeyword, Consume, result, NoTarget, Target
<1>18. CASE OutputName
  BY <1>1, <1>18 DEF OutputName, Consume, result, Target
<1>19. CASE OutputPath
  BY <1>1, <1>19 DEF OutputPath, Consume, result, Target
<1>20. CASE OutputEnd
  BY <1>20 DEF OutputEnd, Consume, decls
<1>21. CASE UnexpectedToken
  BY <1>21 DEF UnexpectedToken, result, decls
<1> QED
  BY <1>2, <1>3, <1>4, <1>5, <1>6, <1>7, <1>8, <1>9, <1>10, <1>11, <1>12, <1>13, <1>14,
     <1>15, <1>16, <1>17, <1>18, <1>19, <1>20, <1>21
  DEF Next, PluginDecl, EventDecl, OutputDecl

(* Every variable of the lexer and the parser keeps its type, for every    *)
(* text: no token begins or ends outside of it.                            *)
THEOREM TypeCorrect == Spec => []TypeOK
<1>1. Init => Lexing /\ Keeping
  BY LexingInit, KeepingInit
<1>2. Lexing /\ Keeping /\ [Next]_vars => (Lexing /\ Keeping)'
  BY LexingStep, KeepingStep
<1>3. Lexing /\ Keeping => TypeOK
  <2> SUFFICES ASSUME Lexing, Keeping PROVE TypeOK
    OBVIOUS
  <2>1. Size \in Nat /\ token \in Token
    BY Characters, LenProperties, ElementOfSeq DEF Lexing
  <2>2. token.from <= token.to
    <3>1. Len(lexed) \in 1..Len(lexed)
      BY LenProperties, EmptySeq DEF Lexing
    <3> QED BY <3>1 DEF Lexing, IsToken
  <2>3. token.kind \in Kind /\ token.from \in 1..(Size + 1) /\ token.to \in 1..(Size + 1)
    BY <2>1 DEF Token
  <2>4. token.from \in 0..(Size + 1) /\ token.to \in token.from..(Size + 1)
    BY <2>1, <2>2, <2>3
  <2> QED BY <2>3, <2>4 DEF Lexing, Keeping, TypeOK, Event, Source, Target
<1> QED BY <1>1, <1>2, <1>3, PTL DEF Spec

-----------------------------------------------------------------------------
(* What was declared.  The inductive invariant says how far the tokens go  *)
(* at each step of the parser, and what it has made of them.               *)

(* The tokens of all declarations of plugins that are complete.            *)
Count == 3 * Len(plugins)

InEvent == {"eventName", "eventProperties", "sources", "sourceName", "sourceValue",
            "sourceProperties"}
InSource == {"sourceName", "sourceValue", "sourceProperties"}
InOutput == {"outputName", "outputPath", "outputEnd"}

(* The sources among the tokens that have been consumed.                   *)
SourceAt == {n \in 1..(Len(lexed) - 1) : lexed[n].kind = "source"}

PluginsKept ==
    \A n \in 1..Len(plugins) :
       3 * n < Len(lexed) /\ PluginAt(3 * n - 2) /\ plugins[n] = StringOf(lexed[3 * n - 1])

PluginHere ==
    /\ pc = "goal" => Len(lexed) = Count + 1
    /\ pc = "pluginPath" => Len(lexed) = Count + 2 /\ lexed[Count + 1].kind = "plugin"
    /\ pc = "pluginEnd" => /\ Len(lexed) = Count + 3 /\ lexed[Count + 1].kind = "plugin"
                           /\ lexed[Count + 2].kind \in {"Name", "Value"}
                           /\ path = StringOf(lexed[Count + 2])
    /\ pc \in InEvent \union InOutput => /\ Len(lexed) > Count + 1
                                        /\ lexed[Count + 1].kind # "plugin"
    /\ pc = "error" /\ Len(lexed) > Count + 2 => ~PluginAt(Count + 1)

EventHere ==
    /\ events # <<>> => pc \in InOutput \union {"error"}
    /\ pc \in {"goal", "pluginPath", "pluginEnd", "eventName", "eventProperties"} =>
          SourceAt = {}
    /\ pc \in {"eventName", "eventProperties"} => event.sources = <<>>
    /\ pc = "eventName" => Len(lexed) = Count + 2
    /\ pc \in InEvent \ {"eventName"} => /\ Len(lexed) > Count + 2
                                         /\ event.name = NameOf(lexed[Count + 2])

(* The sources kept are those declared at the positions in S.              *)
Match(sources, S) ==
    /\ Len(sources) = Cardinality(S)
    /\ \A n \in S :
          LET declared == sources[Cardinality({m \in S : m <= n})]
          IN  /\ n + 2 < Len(lexed)
              /\ declared.name = NameOf(lexed[n + 1])
              /\ declared.value = StringOf(lexed[n + 2])

(* The one that is being read was declared last.                           *)
SourceHere ==
    /\ pc = "sources" => Match(event.sources, SourceAt)
    /\ pc \in InSource =>
          \E m \in SourceAt :
             /\ Match(event.sources, SourceAt \ {m})
             /\ \A n \in SourceAt \ {m} : n < m
             /\ pc = "sourceName" => m = Len(lexed) - 1
             /\ pc = "sourceValue" => /\ m = Len(lexed) - 2
                                      /\ source.name = NameOf(lexed[m + 1])
             /\ pc = "sourceProperties" => /\ m + 2 < Len(lexed)
                                           /\ source.name = NameOf(lexed[m + 1])
                                           /\ source.value = StringOf(lexed[m + 2])

EventsKept ==
    \A e \in 1..Len(events) :
       /\ Count + 2 <= Len(lexed)
       /\ events[e].name = NameOf(lexed[Count + 2])
       /\ Match(events[e].sources, SourceAt)

(* The line of the event has ended, and behind its end the tokens before   *)
(* the last one are those of sources.                                      *)
Behind(start) ==
    /\ LineEnd(Count + 1, start) /\ start < Len(lexed)
    /\ \A m \in (start + 1)..(Len(lexed) - 1) : PartOfSource(start, m)
    /\ \A n \in SourceAt : start < n

(* The tokens of sources, and with them the sources, end before stop.      *)
Between(start, stop) ==
    /\ LineEnd(Count + 1, start) /\ start < stop /\ stop < Len(lexed)
    /\ \A m \in (start + 1)..(stop - 1) : PartOfSource(start, m)
    /\ ~PartOfSource(start, stop)
    /\ \A n \in SourceAt : start < n /\ n < stop

(* Where the lines are: the one of the event is not left before its end,   *)
(* and the one behind it is that of the sources.                           *)
LinesHere ==
    /\ pc \in {"eventName", "eventProperties"} =>
          \A m \in (Count + 1)..(Len(lexed) - 1) : lexed[m].kind # "End"
    /\ pc \in InSource \union {"sources"} =>
          \E start \in Nat :
             /\ Behind(start)
             /\ pc = "sources" => start = Len(lexed) - 1 \/ token.kind # "Name"
    /\ events # <<>> => \E start, stop \in Nat : Between(start, stop)

Kept == PluginsKept /\ PluginHere /\ EventHere /\ SourceHere /\ EventsKept

(* The tokens lexed so far stay what they are.                             *)
Longer ==
    /\ Len(lexed) \in Nat \ {0} /\ Len(lexed') \in Nat /\ Len(lexed') >= Len(lexed)
    /\ \A n \in 1..Len(lexed) : lexed'[n] = lexed[n]
    /\ token = lexed[Len(lexed)]
    /\ \A t : StringOf(t)' = StringOf(t) /\ NameOf(t)' = NameOf(t)

LEMMA LongerIs ==
    ASSUME Lexing, [Next]_vars
    PROVE  /\ Longer
           /\ NextToken => /\ Len(lexed') = Len(lexed) + 1
                           /\ token.kind # "source" => SourceAt' = SourceAt
                           /\ token.kind = "source" => SourceAt' = SourceAt \union {Len(lexed)}
           /\ UNCHANGED lexer => lexed' = lexed /\ SourceAt' = SourceAt
<1>1. text' = text /\ (NextToken \/ UNCHANGED lexer)
  BY StepsOfTheLexer
<1>2. /\ text \in Seq(Piece) /\ lexed \in Seq(Token) /\ lexed # <<>>
      /\ token = lexed[Len(lexed)]
  BY DEF Lexing
<1>3. Len(lexed) \in Nat \ {0}
  BY <1>2
<1>4. \A t : StringOf(t)' = StringOf(t) /\ NameOf(t)' = NameOf(t)
  <2>1. Size' = Size
    BY <1>1 DEF Size
  <2>2. \A j : At(j)' = At(j)
    BY <1>1, <2>1 DEF At
  <2> QED BY <1>1, <2>2 DEF StringOf, NameOf
<1>5. CASE UNCHANGED lexer
  <2>1. lexed' = lexed
    BY <1>5 DEF lexer
  <2>2. SourceAt' = SourceAt
    BY <2>1 DEF SourceAt
  <2>3. ~NextToken
    <3>1. Len(Append(lexed, token')) # Len(lexed)
      BY <1>2, <1>3
    <3> QED BY <2>1, <3>1 DEF NextToken
  <2> QED BY <1>2, <1>3, <1>4, <1>5, <2>1, <2>2, <2>3 DEF Longer
<1>6. CASE NextToken
  <2>1. text' = text /\ Lexing' /\ Token' = Token
    BY <1>1, LexingStep, SameText DEF Token
  <2>2. lexed' \in Seq(Token)
    BY <2>1 DEF Lexing
  <2>3. lexed' = Append(lexed, token')
    BY <1>6 DEF NextToken
  <2>4. /\ Len(lexed') = Len(lexed) + 1
        /\ \A n \in 1..Len(lexed) : lexed'[n] = lexed[n]
    BY <1>2, <2>2, <2>3
  <2>5. /\ token.kind # "source" => SourceAt' = SourceAt
        /\ token.kind = "source" => SourceAt' = SourceAt \union {Len(lexed)}
    <3>1. SourceAt' = {n \in 1..Len(lexed) : lexed[n].kind = "source"}
      BY <1>3, <2>4 DEF SourceAt
    <3>2. 1..Len(lexed) = (1..(Len(lexed) - 1)) \union {Len(lexed)}
      BY <1>3
    <3> QED BY <1>2, <3>1, <3>2 DEF SourceAt
  <2>6. lexed' # lexed
    BY <1>3, <2>4
  <2> QED BY <1>2, <1>3, <1>4, <2>4, <2>5, <2>6 DEF Longer, lexer
<1> QED BY <1>1, <1>5, <1>6

LEMMA StillMatch ==
    ASSUME Longer
    PROVE  \A sources, S : S \subseteq Nat \ {0} /\ Match(sources, S) => Match(sources, S)'
<1> SUFFICES ASSUME NEW sources, NEW S, S \subseteq Nat \ {0}, Match(sources, S)
             PROVE  Match(sources, S)'
  OBVIOUS
<1>1. ASSUME NEW n \in S
      PROVE  /\ n + 2 < Len(lexed')
             /\ lexed'[n + 1] = lexed[n + 1] /\ lexed'[n + 2] = lexed[n + 2]
  <2>1. n + 2 < Len(lexed)
    BY DEF Match
  <2>2. n + 1 \in 1..Len(lexed) /\ n + 2 \in 1..Len(lexed)
    BY <2>1 DEF Longer
  <2> QED BY <2>1, <2>2 DEF Longer
<1> QED BY <1>1 DEF Match, Longer

(* One more source, declared behind the others.                            *)
LEMMA OneMore ==
    ASSUME NEW sources \in Seq(Source), NEW x \in Source,
           NEW S \in SUBSET Nat, NEW m \in Nat \ S, IsFiniteSet(S),
           Match(sources, S), \A n \in S : n < m,
           m + 2 < Len(lexed),
           x.name = NameOf(lexed[m + 1]), x.value = StringOf(lexed[m + 2])
    PROVE  Match(Append(sources, x), S \union {m})
<1> DEFINE T == S \union {m}
           longer == Append(sources, x)
<1>1. Cardinality(S) \in Nat /\ Cardinality(T) = Cardinality(S) + 1
  BY FS_CardinalityType, FS_AddElement
<1>2. /\ Len(longer) = Len(sources) + 1
      /\ \A k \in 1..Len(sources) : longer[k] = sources[k]
      /\ longer[Len(sources) + 1] = x
  BY AppendProperties
<1>3. Len(sources) = Cardinality(S)
  BY DEF Match
<1>4. {k \in T : k <= m} = T
  <2>1. \A k \in T : k <= m
    OBVIOUS
  <2> QED BY <2>1
<1>5. ASSUME NEW n \in S
      PROVE  /\ {k \in T : k <= n} = {k \in S : k <= n}
             /\ Cardinality({k \in S : k <= n}) \in 1..Len(sources)
  <2>1. {k \in T : k <= n} = {k \in S : k <= n}
    OBVIOUS
  <2>2. {k \in S : k <= n} \subseteq S /\ {k \in S : k <= n} # {}
    OBVIOUS
  <2>3. /\ Cardinality({k \in S : k <= n}) \in Nat
        /\ Cardinality({k \in S : k <= n}) <= Cardinality(S)
        /\ Cardinality({k \in S : k <= n}) # 0
    BY <2>2, FS_Subset, FS_CardinalityType, FS_EmptySet
  <2> QED BY <1>1, <1>3, <2>1, <2>3
<1> HIDE DEF longer
<1>6. ASSUME NEW n \in T
      PROVE  LET declared == longer[Cardinality({k \in T : k <= n})]
             IN  /\ n + 2 < Len(lexed)
                 /\ declared.name = NameOf(lexed[n + 1])
                 /\ declared.value = StringOf(lexed[n + 2])
  <2>1. CASE n = m
    BY <1>1, <1>2, <1>3, <1>4, <2>1
  <2>2. CASE n \in S
    <3>1. longer[Cardinality({k \in T : k <= n})] = sources[Cardinality({k \in S : k <= n})]
      BY <1>2, <1>5, <2>2
    <3> QED BY <2>2, <3>1 DEF Match
  <2> QED BY <2>1, <2>2
<1>7. Len(longer) = Cardinality(T)
  BY <1>1, <1>2, <1>3
<1> HIDE DEF T
<1> QED BY <1>6, <1>7 DEF Match, longer, T

LEMMA KeptInit == Init => Kept
<1> SUFFICES ASSUME Init PROVE Kept
  OBVIOUS
<1>1. /\ pc \in {"goal", "tokens"} /\ plugins = <<>> /\ events = <<>>
      /\ Len(lexed) = 1
  BY DEF Init
<1>2. Count = 0
  BY <1>1 DEF Count
<1>3. SourceAt = {}
  BY <1>1 DEF SourceAt
<1> QED BY <1>1, <1>2, <1>3 DEF Kept, PluginsKept, PluginHere, EventHere, SourceHere,
        EventsKept, InEvent, InSource, InOutput

(* Complete declarations stay complete.                                    *)
LEMMA PluginsStay ==
    ASSUME Longer, plugins \in Seq(Seq(Piece)), PluginsKept, plugins' = plugins
    PROVE  PluginsKept'
<1> SUFFICES ASSUME NEW n \in 1..Len(plugins)
             PROVE  /\ 3 * n < Len(lexed') /\ PluginAt(3 * n - 2)'
                    /\ (plugins[n] = StringOf(lexed[3 * n - 1]))'
  BY DEF PluginsKept
<1>1. 3 * n < Len(lexed) /\ PluginAt(3 * n - 2) /\ plugins[n] = StringOf(lexed[3 * n - 1])
  BY DEF PluginsKept
<1>2. /\ 3 * n - 2 \in 1..Len(lexed) /\ 3 * n - 1 \in 1..Len(lexed)
      /\ 3 * n - 2 + 1 = 3 * n - 1 /\ 3 * n - 2 + 2 \in 1..Len(lexed)
  BY <1>1 DEF Longer
<1>3. /\ lexed'[3 * n - 2] = lexed[3 * n - 2] /\ lexed'[3 * n - 1] = lexed[3 * n - 1]
      /\ lexed'[3 * n - 2 + 2] = lexed[3 * n - 2 + 2]
  BY <1>2 DEF Longer
<1> QED BY <1>1, <1>2, <1>3, SMTT(30) DEF PluginAt, Longer

LEMMA EventsStay ==
    ASSUME Longer, plugins \in Seq(Seq(Piece)), EventsKept,
           plugins' = plugins, events' = events, SourceAt' = SourceAt
    PROVE  EventsKept'
<1> SUFFICES ASSUME NEW e \in 1..Len(events)
             PROVE  /\ (Count + 2 <= Len(lexed))'
                    /\ (events[e].name = NameOf(lexed[Count + 2]))'
                    /\ Match(events[e].sources, SourceAt)'
  BY DEF EventsKept, Count
<1>1. /\ Count \in Nat /\ Count + 2 <= Len(lexed) /\ Count' = Count
      /\ events[e].name = NameOf(lexed[Count + 2]) /\ Match(events[e].sources, SourceAt)
  BY DEF EventsKept, Count
<1>2. Match(events[e].sources, SourceAt)'
  <2>1. SourceAt \subseteq Nat \ {0}
    BY DEF SourceAt
  <2> QED BY <1>1, <2>1, StillMatch
<1>3. Count + 2 \in 1..Len(lexed)
  BY <1>1 DEF Longer
<1> QED BY <1>1, <1>2, <1>3 DEF Longer

LEMMA PluginDeclKeeps ==
    ASSUME Lexing, Keeping, Kept, PluginDecl
    PROVE  Kept'
<1>1. [Next]_vars
  BY DEF Next
<1>2. /\ Longer
      /\ NextToken => /\ Len(lexed') = Len(lexed) + 1
                      /\ token.kind # "source" => SourceAt' = SourceAt
  BY <1>1, LongerIs
<1>3. Len(plugins) \in Nat /\ Count \in Nat /\ plugins \in Seq(Seq(Piece))
  BY DEF Keeping, Count
<1>4. PluginsKept /\ PluginHere /\ EventHere /\ EventsKept
  BY DEF Kept
<1>5. events = <<>>
  BY <1>4 DEF PluginDecl, PluginKeyword, PluginPath, PluginEnd, EventHere, InOutput
<1>6. CASE PluginKeyword
  <2>1. /\ pc = "goal" /\ pc' = "pluginPath" /\ token.kind = "plugin" /\ NextToken
        /\ plugins' = plugins /\ events' = events
    BY <1>6 DEF PluginKeyword, Consume, result
  <2>2. Len(lexed) = Count + 1 /\ Count' = Count
    BY <1>4, <2>1 DEF PluginHere, Count
  <2>3. lexed'[Count + 1] = token /\ Len(lexed') = Count + 2
    BY <1>2, <1>3, <2>1, <2>2 DEF Longer
  <2>4. PluginHere'
    BY <2>1, <2>2, <2>3 DEF PluginHere, InEvent, InOutput
  <2>5. EventHere' /\ SourceHere' /\ EventsKept'
    BY <1>2, <1>4, <1>5, <2>1 DEF EventHere, SourceHere, EventsKept, InEvent, InSource
  <2> QED BY <1>2, <1>3, <1>4, <2>1, <2>4, <2>5, PluginsStay DEF Kept
<1>7. CASE PluginPath
  <2>1. /\ pc = "pluginPath" /\ pc' = "pluginEnd" /\ token.kind \in {"Name", "Value"}
        /\ NextToken /\ plugins' = plugins /\ events' = events /\ path' = StringOf(token)
    BY <1>7 DEF PluginPath, Consume, result, StringValue
  <2>2. Len(lexed) = Count + 2 /\ lexed[Count + 1].kind = "plugin" /\ Count' = Count
    BY <1>4, <2>1 DEF PluginHere, Count
  <2>3. /\ lexed'[Count + 1] = lexed[Count + 1] /\ lexed'[Count + 2] = token
        /\ Len(lexed') = Count + 3 /\ (path = StringOf(lexed[Count + 2]))'
    <3>1. Count + 1 \in 1..Len(lexed) /\ Count + 2 \in 1..Len(lexed)
      BY <1>3, <2>2
    <3>2. /\ lexed'[Count + 1] = lexed[Count + 1] /\ lexed'[Count + 2] = token
          /\ Len(lexed') = Count + 3
      BY <1>2, <1>3, <2>1, <2>2, <3>1 DEF Longer
    <3> QED BY <1>2, <2>1, <2>2, <3>2 DEF Longer
  <2>4. PluginHere'
    BY <2>1, <2>2, <2>3 DEF PluginHere, InEvent, InOutput
  <2>5. EventHere' /\ SourceHere' /\ EventsKept'
    BY <1>2, <1>4, <1>5, <2>1 DEF EventHere, SourceHere, EventsKept, InEvent, InSource
  <2> QED BY <1>2, <1>3, <1>4, <2>1, <2>4, <2>5, PluginsStay DEF Kept
<1>8. CASE PluginEnd
  <2>1. /\ pc = "pluginEnd" /\ pc' = "goal" /\ token.kind = "End" /\ NextToken
        /\ plugins' = Append(plugins, path) /\ events' = events /\ path \in Seq(Piece)
    BY <1>8 DEF PluginEnd, Consume, Keeping
  <2>2. /\ Len(lexed) = Count + 3 /\ lexed[Count + 1].kind = "plugin"
        /\ lexed[Count + 2].kind \in {"Name", "Value"} /\ path = StringOf(lexed[Count + 2])
    BY <1>4, <2>1 DEF PluginHere
  <2>3. /\ Len(plugins') = Len(plugins) + 1 /\ Count' = Count + 3
        /\ \A n \in 1..Len(plugins) : plugins'[n] = plugins[n]
        /\ plugins'[Len(plugins) + 1] = path
    BY <1>3, <2>1, AppendProperties DEF Count
  <2>4. PluginHere'
    BY <1>2, <1>3, <2>1, <2>2, <2>3 DEF PluginHere, InEvent, InOutput
  <2>5. EventHere' /\ SourceHere' /\ EventsKept'
    BY <1>2, <1>4, <1>5, <2>1 DEF EventHere, SourceHere, EventsKept, InEvent, InSource
  <2>6. ASSUME NEW n \in 1..Len(plugins')
        PROVE  /\ 3 * n < Len(lexed') /\ PluginAt(3 * n - 2)'
               /\ (plugins[n] = StringOf(lexed[3 * n - 1]))'
    <3>0. 3 * n <= Count' /\ 3 * n \in Nat
      BY <1>3, <2>3 DEF Count
    <3>1. /\ 3 * n < Len(lexed') /\ 3 * n - 2 \in 1..Len(lexed)
          /\ 3 * n - 1 \in 1..Len(lexed) /\ 3 * n - 2 + 2 \in 1..Len(lexed)
          /\ 3 * n - 2 + 1 = 3 * n - 1
      BY <1>2, <1>3, <2>1, <2>2, <2>3, <3>0
    <3>2. PluginAt(3 * n - 2) /\ plugins'[n] = StringOf(lexed[3 * n - 1])
      <4>1. CASE n \in 1..Len(plugins)
        BY <1>4, <2>3, <4>1 DEF PluginsKept
      <4>2. CASE n = Len(plugins) + 1
        <5>1. /\ 3 * n - 2 = Count + 1 /\ 3 * n - 1 = Count + 2 /\ 3 * n - 2 + 1 = Count + 2
              /\ 3 * n - 2 + 2 = Len(lexed)
          BY <1>3, <2>2, <4>2 DEF Count
        <5> QED BY <1>2, <2>1, <2>2, <2>3, <4>2, <5>1 DEF PluginAt, Longer
      <4> QED BY <1>3, <2>3, <4>1, <4>2
    <3>3. /\ lexed'[3 * n - 2] = lexed[3 * n - 2] /\ lexed'[3 * n - 1] = lexed[3 * n - 1]
          /\ lexed'[3 * n - 2 + 2] = lexed[3 * n - 2 + 2]
      BY <1>2, <3>1 DEF Longer
    <3> QED BY <1>2, <3>1, <3>2, <3>3 DEF PluginAt, Longer
  <2>7. PluginsKept'
    BY <2>6 DEF PluginsKept
  <2> QED BY <2>4, <2>5, <2>7 DEF Kept
<1> QED BY <1>6, <1>7, <1>8 DEF PluginDecl

(* No plugin is declared behind an event or an output.                     *)
LEMMA BehindPlugins ==
    ASSUME Longer, Keeping, PluginHere, plugins' = plugins,
           pc \in InEvent \union InOutput, pc' \in InEvent \union InOutput \union {"error"}
    PROVE  PluginHere'
<1>1. /\ Count \in Nat /\ Count' = Count
      /\ Len(lexed) > Count + 1 /\ lexed[Count + 1].kind # "plugin"
  BY DEF Keeping, Count, PluginHere
<1>2. Len(lexed') > Count + 1 /\ lexed'[Count + 1] = lexed[Count + 1]
  BY <1>1 DEF Longer
<1> QED BY <1>1, <1>2 DEF PluginHere, PluginAt, InEvent, InOutput

(* The name of a token that is one.                                        *)
LEMMA NameIs ==
    ASSUME Lexing, token.kind = "Name"
    PROVE  StringOf(token) = NameOf(token)
<1>1. Len(lexed) \in 1..Len(lexed)
  BY LenProperties, EmptySeq DEF Lexing
<1>2. At(token.from) \notin Delimiter
  BY <1>1 DEF Lexing, IsToken
<1> QED BY <1>2 DEF StringOf, NameOf

LEMMA EventLineKeeps ==
    ASSUME Lexing, Keeping, Kept, [Next]_vars,
           EventKeyword \/ EventName \/ EventProperty \/ EventEnd
    PROVE  Kept'
<1>1. /\ Longer /\ NextToken /\ token.kind # "source"
      /\ plugins' = plugins /\ events' = events
  BY LongerIs DEF EventKeyword, EventName, EventProperty, EventEnd, Consume, result
<1>2. Len(lexed') = Len(lexed) + 1 /\ SourceAt' = SourceAt
  BY <1>1, LongerIs
<1>3. /\ Count \in Nat /\ Count' = Count /\ plugins \in Seq(Seq(Piece))
      /\ event \in Event
  BY <1>1 DEF Keeping, Count
<1>4. PluginsKept /\ PluginHere /\ EventHere /\ EventsKept
  BY DEF Kept
<1>5. events = <<>>
  BY <1>4 DEF EventKeyword, EventName, EventProperty, EventEnd, EventHere, InOutput
<1>6. PluginsKept' /\ EventsKept'
  BY <1>1, <1>3, <1>4, <1>5, PluginsStay DEF EventsKept
<1>7. SUFFICES PluginHere' /\ EventHere' /\ SourceHere'
  BY <1>6, <1>7 DEF Kept
<1>8. CASE EventKeyword
  <2>1. /\ pc = "goal" /\ pc' = "eventName" /\ token.kind = "event"
        /\ event'.sources = <<>>
    BY <1>8 DEF EventKeyword, Consume, NoEvent
  <2>2. Len(lexed) = Count + 1 /\ SourceAt = {}
    BY <1>4, <2>1 DEF PluginHere, EventHere
  <2>3. lexed'[Count + 1].kind = "event" /\ Len(lexed') = Count + 2
    BY <1>1, <1>2, <1>3, <2>1, <2>2 DEF Longer
  <2>4. PluginHere'
    BY <1>3, <2>1, <2>3 DEF PluginHere, InEvent, InOutput
  <2> QED BY <1>1, <1>2, <1>3, <1>5, <2>1, <2>2, <2>3, <2>4
          DEF EventHere, SourceHere, InEvent, InSource
<1>9. CASE EventName
  <2>1. /\ pc = "eventName" /\ pc' = "eventProperties" /\ token.kind = "Name"
        /\ event'.sources = event.sources /\ event'.name = NameOf(token)
    BY <1>3, <1>9, NameIs DEF EventName, Consume, StringValue, Event
  <2>2. Len(lexed) = Count + 2 /\ SourceAt = {} /\ event.sources = <<>>
    BY <1>4, <2>1 DEF EventHere
  <2>3. (event.name = NameOf(lexed[Count + 2]))' /\ Len(lexed') > Count + 2
    <3>1. lexed'[Count + 2] = token /\ Len(lexed') > Count + 2
      BY <1>1, <1>2, <1>3, <2>2 DEF Longer
    <3> QED BY <1>1, <1>3, <2>1, <3>1 DEF Longer
  <2>4. PluginHere'
    BY <1>1, <1>4, <2>1, BehindPlugins DEF InEvent
  <2> QED BY <1>1, <1>2, <1>3, <1>5, <2>1, <2>2, <2>3, <2>4
          DEF EventHere, SourceHere, InEvent, InSource
<1>10. ASSUME EventProperty \/ EventEnd
       PROVE  /\ pc = "eventProperties" /\ SourceAt = {}
              /\ event'.sources = <<>> /\ event'.name = event.name
              /\ Len(lexed') > Count + 2 /\ (event.name = NameOf(lexed[Count + 2]))'
  <2>1. /\ pc = "eventProperties"
        /\ event'.sources = event.sources /\ event'.name = event.name
    BY <1>3, <1>10 DEF EventProperty, EventEnd, Consume, Event, decls
  <2>2. /\ SourceAt = {} /\ event.sources = <<>> /\ Len(lexed) > Count + 2
        /\ event.name = NameOf(lexed[Count + 2])
    BY <1>4, <2>1 DEF EventHere, InEvent
  <2>3. lexed'[Count + 2] = lexed[Count + 2] /\ Len(lexed') > Count + 2
    BY <1>1, <1>2, <1>3, <2>2 DEF Longer
  <2> QED BY <1>1, <1>3, <2>1, <2>2, <2>3 DEF Longer
<1>11. CASE EventProperty
  <2>1. pc' = "eventProperties"
    BY <1>11 DEF EventProperty, Consume
  <2>2. PluginHere'
    BY <1>1, <1>4, <1>10, <1>11, <2>1, BehindPlugins DEF InEvent
  <2> QED BY <1>1, <1>2, <1>3, <1>5, <1>10, <1>11, <2>1, <2>2
          DEF EventHere, SourceHere, InEvent, InSource
<1>12. CASE EventEnd
  <2>1. pc' = "sources"
    BY <1>12 DEF EventEnd, Consume
  <2>2. PluginHere'
    BY <1>1, <1>4, <1>10, <1>12, <2>1, BehindPlugins DEF InEvent
  <2>3. Len(event'.sources) = Cardinality(SourceAt') /\ SourceAt' = {}
    BY <1>2, <1>10, <1>12, FS_EmptySet
  <2>4. Match(event.sources, SourceAt)'
    BY <2>3 DEF Match
  <2> QED BY <1>1, <1>2, <1>3, <1>5, <1>10, <1>12, <2>1, <2>2, <2>4
          DEF EventHere, SourceHere, InEvent, InSource
<1> QED BY <1>8, <1>9, <1>11, <1>12

(* The name of the event is kept while the sources are read.               *)
LEMMA EventNameStays ==
    ASSUME Longer, Keeping, Kept, plugins' = plugins, events' = events,
           pc \in InSource \union {"sources"}, pc' \in InSource \union {"sources"},
           event'.name = event.name
    PROVE  EventHere' /\ events = <<>>
<1>1. /\ Count \in Nat /\ Count' = Count /\ events = <<>>
      /\ Len(lexed) > Count + 2 /\ event.name = NameOf(lexed[Count + 2])
  BY DEF Keeping, Count, Kept, EventHere, InEvent, InSource, InOutput
<1>2. Len(lexed') > Count + 2 /\ lexed'[Count + 2] = lexed[Count + 2]
  BY <1>1 DEF Longer
<1> QED BY <1>1, <1>2 DEF EventHere, Longer, InEvent, InSource

LEMMA SourcesKeep ==
    ASSUME Lexing, Keeping, Kept, [Next]_vars,
           SourceKeyword \/ SourceName \/ SourceValue \/ SourceProperty \/ SourceEnd
    PROVE  Kept'
<1>1. /\ Longer /\ plugins' = plugins /\ events' = events
      /\ pc \in InSource \union {"sources"} /\ pc' \in InSource \union {"sources"}
  BY LongerIs DEF SourceKeyword, SourceName, SourceValue, SourceProperty, SourceEnd,
                  Consume, result, InSource
<1>2. /\ plugins \in Seq(Seq(Piece)) /\ event \in Event /\ source \in Source
      /\ event'.name = event.name
  BY DEF Keeping, SourceKeyword, SourceName, SourceValue, SourceProperty, SourceEnd, Event, decls
<1>3. EventHere' /\ events = <<>>
  BY <1>1, <1>2, EventNameStays
<1>4. PluginsKept' /\ EventsKept' /\ PluginHere'
  BY <1>1, <1>2, <1>3, PluginsStay, BehindPlugins
  DEF Kept, EventsKept, InEvent, InSource
<1>5. SUFFICES SourceHere'
  BY <1>3, <1>4, <1>5 DEF Kept
<1>6. SourceHere /\ SourceAt \in SUBSET (1..(Len(lexed) - 1))
  BY DEF Kept, SourceAt
<1>7. Len(lexed) \in Nat \ {0} /\ token = lexed[Len(lexed)]
  BY <1>1 DEF Longer
<1>8. CASE SourceKeyword
  <2>0. PICK m \in Nat : m = Len(lexed)
    BY <1>7
  <2>1. /\ pc = "sources" /\ pc' = "sourceName" /\ token.kind = "source" /\ NextToken
        /\ event' = event
    BY <1>8 DEF SourceKeyword, Consume
  <2>2. Len(lexed') = Len(lexed) + 1 /\ SourceAt' = SourceAt \union {m}
    BY <2>0, <2>1, LongerIs
  <2>3. Match(event.sources, SourceAt) /\ SourceAt \subseteq Nat \ {0}
    BY <1>6, <2>1 DEF SourceHere
  <2>4. m \in SourceAt' /\ SourceAt' \ {m} = SourceAt /\ \A n \in SourceAt : n < m
    BY <1>6, <1>7, <2>0, <2>2
  <2>5. Match(event.sources, SourceAt \ {m})'
    BY <1>1, <2>1, <2>3, <2>4, StillMatch
  <2>6. m = Len(lexed') - 1
    BY <1>7, <2>0, <2>2
  <2> QED BY <2>1, <2>4, <2>5, <2>6 DEF SourceHere, InSource
<1>9. ASSUME pc \in InSource, event' = event, SourceAt' = SourceAt
      PROVE  \E m \in SourceAt :
               /\ Match(event.sources, SourceAt \ {m})'
               /\ \A n \in SourceAt \ {m} : n < m
               /\ pc = "sourceName" => m = Len(lexed) - 1
               /\ pc = "sourceValue" =>
                     m = Len(lexed) - 2 /\ (source.name = NameOf(lexed[m + 1]))
               /\ pc = "sourceProperties" => /\ m + 2 < Len(lexed)
                                             /\ source.name = NameOf(lexed[m + 1])
                                             /\ source.value = StringOf(lexed[m + 2])
  <2>1. PICK m \in SourceAt :
               /\ Match(event.sources, SourceAt \ {m})
               /\ \A n \in SourceAt \ {m} : n < m
               /\ pc = "sourceName" => m = Len(lexed) - 1
               /\ pc = "sourceValue" =>
                     m = Len(lexed) - 2 /\ (source.name = NameOf(lexed[m + 1]))
               /\ pc = "sourceProperties" => /\ m + 2 < Len(lexed)
                                             /\ source.name = NameOf(lexed[m + 1])
                                             /\ source.value = StringOf(lexed[m + 2])
    BY <1>6, <1>9 DEF SourceHere
  <2>2. SourceAt \ {m} \subseteq Nat \ {0}
    BY <1>6
  <2>3. Match(event.sources, SourceAt \ {m})'
    BY <1>1, <1>9, <2>1, <2>2, StillMatch
  <2> QED BY <2>1, <2>3
<1>10. CASE SourceName
  <2>1. /\ pc = "sourceName" /\ pc' = "sourceValue" /\ token.kind = "Name" /\ NextToken
        /\ event' = event /\ source'.name = NameOf(token)
    BY <1>2, <1>10, NameIs DEF SourceName, Consume, StringValue, Source
  <2>2. Len(lexed') = Len(lexed) + 1 /\ SourceAt' = SourceAt
    BY <2>1, LongerIs
  <2>3. PICK m \in SourceAt : /\ Match(event.sources, SourceAt \ {m})'
                              /\ \A n \in SourceAt \ {m} : n < m
                              /\ m = Len(lexed) - 1
    BY <1>9, <2>1, <2>2 DEF InSource
  <2>4. m = Len(lexed') - 2 /\ lexed'[m + 1] = token
    BY <1>1, <1>7, <2>2, <2>3 DEF Longer
  <2>5. (source.name = NameOf(lexed[m + 1]))'
    BY <1>1, <2>1, <2>4 DEF Longer
  <2> QED BY <2>1, <2>2, <2>3, <2>4, <2>5 DEF SourceHere, InSource
<1>11. CASE SourceValue
  <2>1. /\ pc = "sourceValue" /\ pc' = "sourceProperties" /\ token.kind # "source"
        /\ NextToken /\ event' = event
        /\ source'.name = source.name /\ source'.value = StringOf(token)
    BY <1>2, <1>11 DEF SourceValue, Consume, StringValue, Source
  <2>2. Len(lexed') = Len(lexed) + 1 /\ SourceAt' = SourceAt
    BY <2>1, LongerIs
  <2>3. PICK m \in SourceAt : /\ Match(event.sources, SourceAt \ {m})'
                              /\ \A n \in SourceAt \ {m} : n < m
                              /\ m = Len(lexed) - 2 /\ source.name = NameOf(lexed[m + 1])
    BY <1>9, <2>1, <2>2 DEF InSource
  <2>4. /\ m + 2 < Len(lexed') /\ lexed'[m + 2] = token
        /\ lexed'[m + 1] = lexed[m + 1]
    <3>1. m + 1 \in 1..Len(lexed) /\ m + 2 = Len(lexed)
      BY <1>6, <1>7, <2>3
    <3> QED BY <1>1, <1>7, <2>2, <3>1 DEF Longer
  <2>5. (source.name = NameOf(lexed[m + 1]))' /\ (source.value = StringOf(lexed[m + 2]))'
    BY <1>1, <2>1, <2>3, <2>4 DEF Longer
  <2> QED BY <2>1, <2>2, <2>3, <2>4, <2>5 DEF SourceHere, InSource
<1>12. CASE SourceProperty
  <2>1. /\ pc = "sourceProperties" /\ pc' = "sourceProperties" /\ token.kind # "source"
        /\ NextToken /\ event' = event
        /\ source'.name = source.name /\ source'.value = source.value
    BY <1>2, <1>12 DEF SourceProperty, Consume, Source
  <2>2. Len(lexed') = Len(lexed) + 1 /\ SourceAt' = SourceAt
    BY <2>1, LongerIs
  <2>3. PICK m \in SourceAt : /\ Match(event.sources, SourceAt \ {m})'
                              /\ \A n \in SourceAt \ {m} : n < m
                              /\ m + 2 < Len(lexed) /\ source.name = NameOf(lexed[m + 1])
                              /\ source.value = StringOf(lexed[m + 2])
    BY <1>9, <2>1, <2>2 DEF InSource
  <2>4. /\ m + 2 < Len(lexed') /\ lexed'[m + 2] = lexed[m + 2]
        /\ lexed'[m + 1] = lexed[m + 1]
    <3>1. m + 1 \in 1..Len(lexed) /\ m + 2 \in 1..Len(lexed)
      BY <1>6, <1>7, <2>3
    <3> QED BY <1>1, <1>6, <1>7, <2>2, <2>3, <3>1 DEF Longer
  <2>5. (source.name = NameOf(lexed[m + 1]))' /\ (source.value = StringOf(lexed[m + 2]))'
    BY <1>1, <2>1, <2>3, <2>4 DEF Longer
  <2> QED BY <2>1, <2>2, <2>3, <2>4, <2>5 DEF SourceHere, InSource
<1>13. CASE SourceEnd
  <2>1. /\ pc = "sourceProperties" /\ pc' = "sources" /\ UNCHANGED lexer
        /\ event'.sources = Append(event.sources, source)
    BY <1>2, <1>13 DEF SourceEnd, Event
  <2>2. lexed' = lexed /\ SourceAt' = SourceAt
    BY <2>1, LongerIs
  <2>3. PICK m \in SourceAt : /\ Match(event.sources, SourceAt \ {m})
                              /\ \A n \in SourceAt \ {m} : n < m
                              /\ m + 2 < Len(lexed) /\ source.name = NameOf(lexed[m + 1])
                              /\ source.value = StringOf(lexed[m + 2])
    BY <1>6, <2>1 DEF SourceHere, InSource
  <2> DEFINE S == SourceAt \ {m}
  <2>4. S \in SUBSET Nat /\ m \in Nat \ S /\ IsFiniteSet(S) /\ S \union {m} = SourceAt
    <3>1. IsFiniteSet(1..(Len(lexed) - 1)) /\ S \subseteq 1..(Len(lexed) - 1)
      BY <1>6, <1>7, FS_Interval
    <3>2. IsFiniteSet(S)
      BY <3>1, FS_Subset, Zenon
    <3> QED BY <1>6, <3>2
  <2>5. event.sources \in Seq(Source)
    BY <1>2 DEF Event
  <2>6. Match(event'.sources, SourceAt)
    <3> HIDE DEF S
    <3>1. Match(Append(event.sources, source), S \union {m})
      BY <1>2, <2>3, <2>4, <2>5, OneMore DEF S
    <3> QED BY <2>1, <2>4, <3>1
  <2>7. Match(event.sources, SourceAt)'
    <3>1. SourceAt \subseteq Nat \ {0}
      BY <1>6
    <3> QED BY <1>1, <2>2, <2>6, <3>1, StillMatch
  <2> QED BY <2>1, <2>7 DEF SourceHere, InSource
<1> QED BY <1>8, <1>10, <1>11, <1>12, <1>13

LEMMA EventDoneKeeps ==
    ASSUME Lexing, Keeping, Kept, [Next]_vars, EventDone
    PROVE  Kept'
<1>1. /\ Longer /\ NextToken /\ token.kind # "source"
      /\ pc = "sources" /\ pc' = "outputName"
      /\ plugins' = plugins /\ events' = Append(events, event)
  BY LongerIs DEF EventDone
<1>2. Len(lexed') = Len(lexed) + 1 /\ SourceAt' = SourceAt
  BY <1>1, LongerIs
<1>3. /\ plugins \in Seq(Seq(Piece)) /\ event \in Event
      /\ Count \in Nat /\ Count' = Count
  BY <1>1 DEF Keeping, Count
<1>4. PluginsKept' /\ PluginHere'
  BY <1>1, <1>3, PluginsStay, BehindPlugins DEF Kept, InEvent, InOutput
<1>5. /\ events = <<>> /\ Len(lexed) > Count + 2
      /\ event.name = NameOf(lexed[Count + 2]) /\ Match(event.sources, SourceAt)
  BY <1>1 DEF Kept, EventHere, SourceHere, InEvent, InOutput
<1>6. Len(events') = 1 /\ events'[1] = event
  BY <1>1, <1>5
<1>7. Match(event.sources, SourceAt) => \A e : e = event => Match(e.sources, SourceAt)'
  <2>1. SourceAt \subseteq Nat \ {0}
    BY DEF SourceAt
  <2> QED BY <1>1, <1>2, <2>1, StillMatch
<1>8. (events[1].name = NameOf(lexed[Count + 2]))' /\ Count + 2 <= Len(lexed')
  <2>1. lexed'[Count + 2] = lexed[Count + 2] /\ Count + 2 <= Len(lexed')
    BY <1>1, <1>2, <1>3, <1>5 DEF Longer
  <2> QED BY <1>1, <1>3, <1>5, <1>6, <2>1 DEF Longer
<1>9. Match(events[1].sources, SourceAt)'
  BY <1>5, <1>6, <1>7
<1>10. EventsKept'
  <2>1. \A e \in 1..Len(events') : e = 1
    BY <1>6
  <2> QED BY <1>3, <1>8, <1>9, <2>1 DEF EventsKept
<1>11. EventHere' /\ SourceHere'
  BY <1>1 DEF EventHere, SourceHere, InEvent, InSource, InOutput
<1> QED BY <1>4, <1>10, <1>11 DEF Kept

LEMMA OutputDeclKeeps ==
    ASSUME Lexing, Keeping, Kept, [Next]_vars, OutputDecl
    PROVE  Kept'
<1>1. /\ Longer /\ NextToken /\ token.kind # "source"
      /\ plugins' = plugins /\ events' = events
      /\ pc \in InOutput \/ (pc = "goal" /\ token.kind = "output")
      /\ pc' \in InOutput \/ (pc = "outputEnd" /\ pc' = "error")
      /\ pc = "goal" => pc' = "outputName"
  <2>1. Longer
    BY LongerIs
  <2>2. CASE OutputKeyword
    BY <2>1, <2>2 DEF OutputKeyword, Consume, result, InOutput
  <2>3. CASE OutputName
    BY <2>1, <2>3 DEF OutputName, Consume, result, InOutput
  <2>4. CASE OutputPath
    BY <2>1, <2>4 DEF OutputPath, Consume, result, InOutput
  <2>5. CASE OutputEnd
    BY <2>1, <2>5 DEF OutputEnd, Consume, InOutput
  <2> QED BY <2>2, <2>3, <2>4, <2>5 DEF OutputDecl
<1>2. Len(lexed') = Len(lexed) + 1 /\ SourceAt' = SourceAt
  BY <1>1, LongerIs
<1>3. /\ plugins \in Seq(Seq(Piece)) /\ Count \in Nat /\ Count' = Count
  BY <1>1 DEF Keeping, Count
<1>4. PluginsKept' /\ EventsKept'
  BY <1>1, <1>2, <1>3, PluginsStay, EventsStay DEF Kept
<1>5. PluginHere'
  <2>1. CASE pc \in InOutput
    BY <1>1, <2>1, BehindPlugins DEF Kept
  <2>2. CASE pc = "goal" /\ token.kind = "output"
    <3>1. Len(lexed) = Count + 1
      BY <2>2 DEF Kept, PluginHere
    <3>2. lexed'[Count + 1].kind = "output" /\ Len(lexed') = Count + 2
      BY <1>1, <1>2, <1>3, <2>2, <3>1 DEF Longer
    <3> QED BY <1>1, <1>3, <2>2, <3>2 DEF PluginHere, InEvent, InOutput
  <2> QED BY <1>1, <2>1, <2>2
<1>6. EventHere' /\ SourceHere'
  BY <1>1 DEF EventHere, SourceHere, InEvent, InSource, InOutput
<1> QED BY <1>4, <1>5, <1>6 DEF Kept

(* A token that is not expected, and the steps that are none.              *)
LEMMA UnexpectedTokenKeeps ==
    ASSUME Lexing, Keeping, Kept, [Next]_vars, UnexpectedToken
    PROVE  Kept'
<1>1. /\ Longer /\ UNCHANGED lexer /\ pc' = "error" /\ pc \in DOMAIN Expected
      /\ plugins' = plugins /\ events' = events /\ token.kind \notin Expected[pc]
  BY LongerIs DEF UnexpectedToken, result
<1>2. lexed' = lexed /\ SourceAt' = SourceAt
  BY <1>1, LongerIs
<1>3. /\ plugins \in Seq(Seq(Piece)) /\ Count \in Nat /\ Count' = Count
  BY <1>1 DEF Keeping, Count
<1>4. PluginsKept' /\ EventsKept'
  BY <1>1, <1>2, <1>3, PluginsStay, EventsStay DEF Kept
<1>5. PluginHere'
  <2>1. CASE pc \in InEvent \union InOutput
    BY <1>1, <2>1, BehindPlugins DEF Kept
  <2>2. CASE pc \in {"goal", "pluginPath"}
    <3>1. Len(lexed) <= Count + 2
      BY <1>3, <2>2 DEF Kept, PluginHere
    <3> QED BY <1>1, <1>2, <1>3, <3>1 DEF PluginHere, InEvent, InOutput, Longer
  <2>3. CASE pc = "pluginEnd"
    <3>1. Len(lexed) = Count + 3 /\ token.kind # "End"
      BY <1>1, <2>3 DEF Kept, PluginHere, Expected
    <3>2. lexed'[(Count + 1) + 2].kind # "End"
      BY <1>1, <1>2, <1>3, <3>1 DEF Longer
    <3> QED BY <1>1, <1>3, <3>2 DEF PluginHere, PluginAt, InEvent, InOutput
  <2> QED BY <1>1, <2>1, <2>2, <2>3, Labels DEF InEvent, InOutput
<1>6. EventHere' /\ SourceHere'
  BY <1>1 DEF EventHere, SourceHere, InEvent, InSource, InOutput
<1> QED BY <1>4, <1>5, <1>6 DEF Kept

LEMMA OthersKeep ==
    ASSUME Lexing, Keeping, Kept, [Next]_vars, ReadToken \/ UNCHANGED vars
    PROVE  Kept'
<1>1. /\ Longer /\ plugins' = plugins /\ events' = events /\ path' = path
      /\ event' = event /\ source' = source
      /\ plugins \in Seq(Seq(Piece)) /\ Count' = Count
  BY LongerIs DEF ReadToken, vars, result, decls, Keeping, Count
<1>2. PluginsKept'
  BY <1>1, PluginsStay DEF Kept
<1>3. CASE ReadToken
  <2>1. pc = "tokens" /\ pc' \in {"tokens", "end"}
    BY <1>3 DEF ReadToken
  <2>2. events' = <<>>
    BY <1>1, <2>1 DEF Kept, EventHere, InOutput
  <2>3. PluginHere' /\ EventHere' /\ SourceHere' /\ EventsKept'
    BY <2>1, <2>2 DEF PluginHere, EventHere, SourceHere, EventsKept, InEvent, InSource, InOutput
  <2> QED BY <1>2, <2>3 DEF Kept
<1>4. CASE UNCHANGED vars
  <2>1. UNCHANGED lexer /\ pc' = pc
    BY <1>4 DEF vars
  <2>2. lexed' = lexed /\ SourceAt' = SourceAt
    BY <2>1, LongerIs
  <2>3. EventsKept'
    BY <1>1, <2>2, EventsStay DEF Kept
  <2>4. PluginHere' /\ EventHere'
    BY <1>1, <2>1, <2>2 DEF Kept, PluginHere, EventHere, PluginAt, Longer
  <2>5. SourceHere'
    <3>1. \A S : S \subseteq Nat \ {0} /\ Match(event.sources, S) => Match(event.sources, S)'
      BY <1>1, StillMatch
    <3>2. SourceAt \subseteq Nat \ {0}
      BY DEF SourceAt
    <3> QED BY <1>1, <2>1, <2>2, <3>1, <3>2 DEF Kept, SourceHere, Longer
  <2> QED BY <1>2, <2>3, <2>4, <2>5 DEF Kept
<1> QED BY <1>3, <1>4

LEMMA KeptStep ==
    ASSUME Lexing, Keeping, Kept, [Next]_vars
    PROVE  Kept'
BY PluginDeclKeeps, EventLineKeeps, SourcesKeep, EventDoneKeeps, OutputDeclKeeps,
   UnexpectedTokenKeeps, OthersKeep DEF Next, EventDecl

(* The tokens that have been read stay where they are on their lines.      *)
LEMMA LinesStay ==
    ASSUME Longer, plugins \in Seq(Seq(Piece)), plugins' = plugins
    PROVE  /\ \A start \in Nat : LineEnd(Count + 1, start) => LineEnd(Count + 1, start)'
           /\ \A start \in Nat, n \in 1..Len(lexed) :
                 start < n => (PartOfSource(start, n)' <=> PartOfSource(start, n))
<1>1. Count \in Nat /\ Count' = Count /\ Len(lexed) \in Nat /\ Len(lexed') \in Nat
  BY DEF Count, Longer
<1>2. ASSUME NEW start \in Nat, LineEnd(Count + 1, start)
      PROVE  LineEnd(Count + 1, start)'
  <2>1. /\ start \in (Count + 1)..Len(lexed) /\ lexed[start].kind = "End"
        /\ \A m \in (Count + 1)..(start - 1) : lexed[m].kind # "End"
    BY <1>2 DEF LineEnd
  <2>2. \A m \in (Count + 1)..start : m \in 1..Len(lexed) /\ lexed'[m] = lexed[m]
    BY <1>1, <2>1 DEF Longer
  <2>3. /\ start \in (Count + 1)..Len(lexed') /\ lexed'[start].kind = "End"
        /\ \A m \in (Count + 1)..(start - 1) : lexed'[m].kind # "End"
    BY <1>1, <2>1, <2>2 DEF Longer
  <2> QED BY <1>1, <2>3 DEF LineEnd
<1>3. ASSUME NEW start \in Nat, NEW n \in 1..Len(lexed), start < n
      PROVE  PartOfSource(start, n)' <=> PartOfSource(start, n)
  <2>1. lexed'[n] = lexed[n] /\ (n > start + 2 => lexed'[n - 2] = lexed[n - 2])
    BY <1>1, <1>3 DEF Longer
  <2> QED BY <2>1 DEF PartOfSource
<1> QED BY <1>2, <1>3

LEMMA BetweenStays ==
    ASSUME Longer, plugins \in Seq(Seq(Piece)), plugins' = plugins, SourceAt' = SourceAt,
           NEW start \in Nat, NEW stop \in Nat, Between(start, stop)
    PROVE  Between(start, stop)'
<1>1. \A n \in (start + 1)..stop : n \in 1..Len(lexed) /\ start < n
  BY DEF Between, Longer
<1>2. LineEnd(Count + 1, start)'
  BY LinesStay DEF Between
<1>3. \A n \in (start + 1)..stop : PartOfSource(start, n)' <=> PartOfSource(start, n)
  BY <1>1, LinesStay
<1>4. stop < Len(lexed') /\ stop \in (start + 1)..stop
  BY DEF Between, Longer
<1> QED BY <1>2, <1>3, <1>4 DEF Between

(* One more token of a source.                                             *)
LEMMA BehindGoesOn ==
    ASSUME Longer, plugins \in Seq(Seq(Piece)), plugins' = plugins,
           Len(lexed') = Len(lexed) + 1, SourceAt' \subseteq SourceAt \union {Len(lexed)},
           NEW start \in Nat, Behind(start), PartOfSource(start, Len(lexed))
    PROVE  Behind(start)'
<1>1. Len(lexed) \in Nat /\ start < Len(lexed)
  BY DEF Behind, Longer
<1>2. LineEnd(Count + 1, start)'
  BY LinesStay DEF Behind
<1>3. ASSUME NEW n \in (start + 1)..(Len(lexed') - 1)
      PROVE  PartOfSource(start, n)'
  <2>1. n \in 1..Len(lexed) /\ start < n
    BY <1>1
  <2>2. PartOfSource(start, n)
    BY <1>1, <2>1 DEF Behind
  <2> QED BY <2>1, <2>2, LinesStay
<1> QED BY <1>1, <1>2, <1>3 DEF Behind

LEMMA LinesInit == Init => LinesHere
BY DEF Init, LinesHere, InSource

LEMMA EventLineEnds ==
    ASSUME Lexing, Keeping, Kept, LinesHere, [Next]_vars,
           EventKeyword \/ EventName \/ EventProperty \/ EventEnd
    PROVE  LinesHere'
<1>1. /\ Longer /\ NextToken /\ token.kind # "source"
      /\ plugins' = plugins /\ events' = events
  BY LongerIs DEF EventKeyword, EventName, EventProperty, EventEnd, Consume, result
<1>2. Len(lexed') = Len(lexed) + 1 /\ SourceAt' = SourceAt
  BY <1>1, LongerIs
<1>3. /\ Count \in Nat /\ Count' = Count /\ plugins \in Seq(Seq(Piece))
      /\ Len(lexed) \in Nat /\ token = lexed[Len(lexed)]
  BY <1>1 DEF Keeping, Count, Longer
<1>4. events = <<>> /\ pc \in {"goal", "eventName", "eventProperties"}
  BY DEF EventKeyword, EventName, EventProperty, EventEnd, Kept, EventHere, InOutput
<1>5. \A m \in (Count + 1)..(Len(lexed) - 1) : lexed[m].kind # "End"
  BY <1>3, <1>4 DEF LinesHere, Kept, PluginHere
<1>6. \A m \in (Count + 1)..Len(lexed) : m \in 1..Len(lexed) /\ lexed'[m] = lexed[m]
  BY <1>1, <1>3 DEF Longer
<1>7. CASE EventKeyword \/ EventName \/ EventProperty
  <2>1. token.kind # "End" /\ pc' \in {"eventName", "eventProperties"}
    BY <1>7 DEF EventKeyword, EventName, EventProperty, Consume
  <2>2. \A m \in (Count' + 1)..(Len(lexed') - 1) : lexed'[m].kind # "End"
    BY <1>2, <1>3, <1>5, <1>6, <2>1
  <2> QED BY <1>1, <1>4, <2>1, <2>2 DEF LinesHere, InSource
<1>8. CASE EventEnd
  <2>1. /\ token.kind = "End" /\ pc = "eventProperties" /\ pc' = "sources"
    BY <1>8 DEF EventEnd, Consume
  <2>2. Len(lexed) > Count + 2 /\ SourceAt = {}
    BY <2>1 DEF Kept, EventHere, InEvent
  <2>4. PICK start \in Nat : start = Len(lexed)
    BY <1>3
  <2>3. LineEnd(Count + 1, start)'
    <3>1. /\ start \in (Count + 1)..Len(lexed') /\ lexed'[start].kind = "End"
          /\ \A m \in (Count + 1)..(start - 1) : lexed'[m].kind # "End"
      BY <1>2, <1>3, <1>5, <1>6, <2>1, <2>2, <2>4
    <3> QED BY <1>3, <3>1 DEF LineEnd
  <2>5. Behind(start)' /\ start = Len(lexed') - 1
    <3>1. (start + 1)..(Len(lexed') - 1) = {} /\ start < Len(lexed')
      BY <1>2, <1>3, <2>4
    <3>2. SourceAt' = {}
      BY <1>2, <2>2
    <3> QED BY <1>2, <1>3, <2>3, <2>4, <3>1, <3>2 DEF Behind
  <2> QED BY <1>1, <1>4, <2>1, <2>5 DEF LinesHere
<1> QED BY <1>7, <1>8

LEMMA SourcesFollow ==
    ASSUME Lexing, Keeping, Kept, LinesHere, [Next]_vars,
           SourceKeyword \/ SourceName \/ SourceValue \/ SourceProperty \/ SourceEnd
    PROVE  LinesHere'
<1>1. /\ Longer /\ plugins' = plugins /\ events' = events
      /\ pc \in InSource \union {"sources"} /\ pc' \in InSource \union {"sources"}
  BY LongerIs DEF SourceKeyword, SourceName, SourceValue, SourceProperty, SourceEnd,
                  Consume, result, InSource
<1>2. /\ plugins \in Seq(Seq(Piece)) /\ events = <<>> /\ SourceHere
      /\ Len(lexed) \in Nat /\ token = lexed[Len(lexed)]
      /\ SourceAt \subseteq 1..(Len(lexed) - 1) /\ \A n \in SourceAt : lexed[n].kind = "source"
  BY <1>1 DEF Keeping, Kept, EventHere, InOutput, InSource, Longer, SourceAt
<1>3. PICK start \in Nat :
         /\ Behind(start)
         /\ pc = "sources" => start = Len(lexed) - 1 \/ token.kind # "Name"
  BY <1>1 DEF LinesHere
<1>4. CASE SourceEnd
  <2>1. UNCHANGED lexer /\ pc' = "sources" /\ token.kind # "Name"
    BY <1>4 DEF SourceEnd
  <2>2. lexed' = lexed /\ token' = token /\ SourceAt' = SourceAt /\ Count' = Count
    BY <1>1, <2>1, LongerIs DEF lexer, Count
  <2>3. Behind(start)'
    BY <1>3, <2>2 DEF Behind, LineEnd, PartOfSource
  <2> QED BY <1>1, <1>2, <2>1, <2>2, <2>3 DEF LinesHere
<1>5. ASSUME PartOfSource(start, Len(lexed)), NextToken, pc' \in InSource
      PROVE  LinesHere'
  <2>1. /\ Len(lexed') = Len(lexed) + 1
        /\ SourceAt' \subseteq SourceAt \union {Len(lexed)}
    BY <1>5, LongerIs
  <2>2. Behind(start)'
    BY <1>1, <1>2, <1>3, <1>5, <2>1, BehindGoesOn
  <2> QED BY <1>1, <1>2, <1>5, <2>2 DEF LinesHere, InSource
<1>6. CASE SourceKeyword
  BY <1>2, <1>5, <1>6 DEF SourceKeyword, Consume, PartOfSource, InSource
<1>7. ASSUME pc \in InSource
      PROVE  \E m \in SourceAt :
                /\ start < m /\ m \in Nat /\ m < Len(lexed)
                /\ pc = "sourceValue" => m = Len(lexed) - 2
  <2>1. PICK m \in SourceAt : pc = "sourceValue" => m = Len(lexed) - 2
    BY <1>2, <1>7 DEF SourceHere
  <2>2. start < m /\ m \in 1..(Len(lexed) - 1)
    BY <1>2, <1>3 DEF Behind
  <2> QED BY <1>2, <2>1, <2>2
<1>8. CASE SourceName \/ SourceProperty
  <2>1. token.kind = "Name" /\ pc \in InSource /\ pc' \in InSource /\ NextToken
    BY <1>8 DEF SourceName, SourceProperty, Consume, InSource
  <2>2. Len(lexed) > start + 1
    BY <1>2, <1>7, <2>1
  <2> QED BY <1>2, <1>5, <2>1, <2>2 DEF PartOfSource
<1>9. CASE SourceValue
  <2>1. /\ token.kind \in {"Name", "Value"} /\ pc = "sourceValue" /\ pc \in InSource
        /\ pc' \in InSource /\ NextToken
    BY <1>9 DEF SourceValue, Consume, InSource
  <2>2. PICK m \in SourceAt : start < m /\ m \in Nat /\ m = Len(lexed) - 2
    BY <1>7, <2>1
  <2>3. Len(lexed) > start + 2 /\ lexed[Len(lexed) - 2].kind = "source"
    BY <1>2, <2>2
  <2> QED BY <1>2, <1>5, <2>1, <2>3 DEF PartOfSource
<1> QED BY <1>4, <1>6, <1>8, <1>9

LEMMA SourcesEnd ==
    ASSUME Lexing, Keeping, Kept, LinesHere, [Next]_vars, EventDone
    PROVE  LinesHere'
<1>1. /\ Longer /\ NextToken /\ token.kind # "source" /\ token = lexed[Len(lexed)]
      /\ pc = "sources" /\ pc' = "outputName" /\ plugins' = plugins
      /\ plugins \in Seq(Seq(Piece)) /\ Len(lexed) \in Nat
      /\ Match(event.sources, SourceAt)
  BY LongerIs DEF EventDone, Keeping, Longer, Kept, SourceHere
<1>2. Len(lexed') = Len(lexed) + 1 /\ SourceAt' = SourceAt
  BY <1>1, LongerIs
<1>3. PICK start \in Nat :
         Behind(start) /\ (start = Len(lexed) - 1 \/ token.kind # "Name")
  BY <1>1 DEF LinesHere
<1>4. ~PartOfSource(start, Len(lexed))
  <2>1. ASSUME Len(lexed) > start + 2, lexed[Len(lexed) - 2].kind = "source"
        PROVE  FALSE
    <3>1. PICK n \in Nat : n = Len(lexed) - 2 /\ n > 0
      <4>1. Len(lexed) - 2 \in Nat /\ Len(lexed) - 2 > 0
        BY <1>1, <2>1
      <4> QED BY <4>1
    <3>2. n \in SourceAt
      BY <1>1, <2>1, <3>1 DEF SourceAt
    <3>3. n + 2 < Len(lexed)
      BY <1>1, <3>2 DEF Match
    <3> QED BY <1>1, <3>1, <3>3
  <2> QED BY <1>1, <1>3, <2>1 DEF PartOfSource
<1>5. PICK stop \in Nat : stop = Len(lexed)
  BY <1>1
<1>6. Between(start, stop)'
  <2>1. \A n \in (start + 1)..stop : n \in 1..Len(lexed) /\ start < n
    BY <1>1, <1>5
  <2>2. LineEnd(Count + 1, start)' /\ start < stop
    BY <1>1, <1>3, <1>5, LinesStay DEF Behind
  <2>3. \A n \in (start + 1)..stop : PartOfSource(start, n)' <=> PartOfSource(start, n)
    BY <1>1, <2>1, LinesStay
  <2>4. /\ \A n \in (start + 1)..(stop - 1) : PartOfSource(start, n)'
        /\ ~PartOfSource(start, stop)'
    BY <1>1, <1>3, <1>4, <1>5, <2>2, <2>3 DEF Behind
  <2>5. \A n \in SourceAt' : start < n /\ n < stop
    BY <1>1, <1>2, <1>3, <1>5 DEF Behind, SourceAt
  <2> QED BY <1>1, <1>2, <1>5, <2>2, <2>4, <2>5 DEF Between
<1> QED BY <1>1, <1>6 DEF LinesHere, InSource

(* The others begin no line of an event or a source.                       *)
LEMMA OthersLeaveLines ==
    ASSUME Lexing, Keeping, Kept, LinesHere, [Next]_vars,
           ReadToken \/ PluginDecl \/ OutputDecl \/ UnexpectedToken \/ UNCHANGED vars
    PROVE  LinesHere'
<1>1. Longer /\ plugins \in Seq(Seq(Piece)) /\ EventHere
  BY LongerIs DEF Keeping, Kept
<1>2. CASE ReadToken
  BY <1>1, <1>2 DEF ReadToken, result, EventHere, LinesHere, InSource, InOutput
<1>3. CASE PluginDecl
  <2>1. /\ events' = events /\ pc \in {"goal", "pluginPath", "pluginEnd"}
        /\ pc' \in {"goal", "pluginPath", "pluginEnd"}
    BY <1>3 DEF PluginDecl, PluginKeyword, PluginPath, PluginEnd, Consume, result
  <2> QED BY <1>1, <2>1 DEF EventHere, LinesHere, InSource, InOutput
<1>4. ASSUME plugins' = plugins, events' = events, SourceAt' = SourceAt,
             pc' \in InOutput \union {"error"}
      PROVE  LinesHere'
  <2>1. \A start, stop \in Nat : Between(start, stop) => Between(start, stop)'
    BY <1>1, <1>4, BetweenStays
  <2>2. events' # <<>> => \E start, stop \in Nat : Between(start, stop)'
    BY <1>4, <2>1 DEF LinesHere
  <2> QED BY <1>4, <2>2 DEF LinesHere, InSource, InOutput
<1>5. CASE OutputDecl
  <2>1. /\ plugins' = plugins /\ events' = events /\ pc' \in InOutput \union {"error"}
        /\ NextToken /\ token.kind # "source"
    BY <1>5 DEF OutputDecl, OutputKeyword, OutputName, OutputPath, OutputEnd, Consume,
                result, InOutput
  <2>2. SourceAt' = SourceAt
    BY <2>1, LongerIs
  <2> QED BY <1>4, <2>1, <2>2
<1>6. CASE UnexpectedToken
  <2>1. SourceAt' = SourceAt
    BY <1>6, LongerIs DEF UnexpectedToken
  <2> QED BY <1>4, <1>6, <2>1 DEF UnexpectedToken, result
<1>7. CASE UNCHANGED vars
  <2>1. /\ lexed' = lexed /\ token' = token /\ plugins' = plugins /\ events' = events
        /\ pc' = pc
    BY <1>7 DEF vars, lexer, result
  <2>2. Count' = Count /\ SourceAt' = SourceAt
    BY <2>1 DEF Count, SourceAt
  <2>3. \A start : Behind(start)' <=> Behind(start)
    BY <2>1, <2>2 DEF Behind, LineEnd, PartOfSource
  <2>4. \A start, stop : Between(start, stop)' <=> Between(start, stop)
    BY <2>1, <2>2 DEF Between, LineEnd, PartOfSource
  <2> QED BY <2>1, <2>2, <2>3, <2>4 DEF LinesHere
<1> QED BY <1>2, <1>3, <1>5, <1>6, <1>7

LEMMA LinesStep ==
    ASSUME Lexing, Keeping, Kept, LinesHere, [Next]_vars
    PROVE  LinesHere'
BY EventLineEnds, SourcesFollow, SourcesEnd, OthersLeaveLines DEF Next, EventDecl

(* The sources consumed are the ones declared behind the event's line.     *)
LEMMA SourcesAre ==
    ASSUME Lexing, NEW start \in Nat, NEW stop \in Nat, Between(start, stop)
    PROVE  SourceAt = SourcesBehind(start)
<1>1. Len(lexed) \in Nat /\ start < stop /\ stop < Len(lexed)
  BY DEF Lexing, Between
<1>2. ASSUME NEW n \in SourceAt PROVE n \in SourcesBehind(start)
  <2>1. n \in 1..(Len(lexed) - 1) /\ lexed[n].kind = "source" /\ start < n /\ n < stop
    BY DEF SourceAt, Between
  <2>2. \A m \in (start + 1)..n : PartOfSource(start, m)
    BY <1>1, <2>1 DEF Between
  <2> QED BY <1>1, <2>1, <2>2 DEF SourcesBehind
<1>3. ASSUME NEW n \in SourcesBehind(start) PROVE n \in SourceAt
  <2>1. /\ n \in (start + 1)..Len(lexed) /\ lexed[n].kind = "source"
        /\ \A m \in (start + 1)..n : PartOfSource(start, m)
    BY DEF SourcesBehind
  <2>2. stop \in (start + 1)..n => FALSE
    BY <2>1 DEF Between
  <2>3. n < stop
    BY <1>1, <2>1, <2>2
  <2> QED BY <1>1, <2>1, <2>3 DEF SourceAt
<1> QED BY <1>2, <1>3

(* The parser keeps what was declared, whatever the text: the plugins that *)
(* are declared completely, and an event with exactly the sources on the   *)
(* one line behind it.                                                     *)
THEOREM DeclarationsKept == Spec => []KeptAsDeclared
<1>1. Init => Lexing /\ Keeping /\ Kept /\ LinesHere
  BY LexingInit, KeepingInit, KeptInit, LinesInit
<1>2. Lexing /\ Keeping /\ Kept /\ LinesHere /\ [Next]_vars
      => (Lexing /\ Keeping /\ Kept /\ LinesHere)'
  BY LexingStep, KeepingStep, KeptStep, LinesStep
<1>3. Lexing /\ Keeping /\ Kept /\ LinesHere => KeptAsDeclared
  <2> SUFFICES ASSUME Lexing, Keeping, Kept, LinesHere PROVE KeptAsDeclared
    OBVIOUS
  <2>1. ASSUME NEW e \in 1..Len(events)
        PROVE  /\ events[e].name = NameOf(lexed[Count + 1 + 1])
               /\ \E end \in (Count + 1)..Len(lexed) :
                     /\ LineEnd(Count + 1, end)
                     /\ DeclaredAt(SourcesBehind(end), events[e].sources)
    <3>1. Count \in Nat /\ Count + 1 + 1 = Count + 2 /\ events # <<>>
      BY DEF Keeping, Count
    <3>2. /\ events[e].name = NameOf(lexed[Count + 2])
          /\ Match(events[e].sources, SourceAt)
      BY DEF Kept, EventsKept
    <3>3. PICK start \in Nat, stop \in Nat : Between(start, stop)
      BY <3>1 DEF LinesHere
    <3>4. SourceAt = SourcesBehind(start) /\ LineEnd(Count + 1, start)
      BY <3>3, SourcesAre DEF Between
    <3>5. start \in (Count + 1)..Len(lexed)
      BY <3>4 DEF LineEnd
    <3>6. DeclaredAt(SourcesBehind(start), events[e].sources)
      BY <3>2, <3>4 DEF Match, DeclaredAt
    <3> QED BY <3>1, <3>2, <3>4, <3>5, <3>6
  <2>2. Count \in Nat /\ 3 * Len(plugins) + 1 = Count + 1 /\ Count + 1 + 1 = Count + 2
    BY DEF Keeping, Count
  <2>3. /\ \A n \in 1..Len(plugins) :
              PluginAt(3 * n - 2) /\ plugins[n] = StringOf(lexed[3 * n - 1])
        /\ pc = "error" /\ Len(lexed) > Count + 2 => ~PluginAt(Count + 1)
    BY DEF Kept, PluginsKept, PluginHere
  <2> QED BY <2>1, <2>2, <2>3 DEF KeptAsDeclared
<1> QED BY <1>1, <1>2, <1>3, PTL DEF Spec

-----------------------------------------------------------------------------
(* The end.  How far the parser is from it: the positions that are left,   *)
(* and the steps at one of them that read no token, or one at the end.     *)
AtSources(label) ==
    CASE label = "sourceProperties" -> 2 [] label = "sources" -> 1 [] OTHER -> 0
Left ==
    IF pc \in {"end", "error"} THEN 0
    ELSE 1 + 3 * (Size + 1 - token.from) + AtSources(pc)

LEMMA LeftIs ==
    Lexing => Left \in Nat /\ Size \in Nat /\ token.from \in 1..(Size + 1)
<1> SUFFICES ASSUME Lexing PROVE Left \in Nat /\ Size \in Nat /\ token.from \in 1..(Size + 1)
  OBVIOUS
<1>1. Size \in Nat /\ token \in Token
  BY Characters, LenProperties, ElementOfSeq DEF Lexing
<1>2. token.from \in 1..(Size + 1) /\ 3 * (Size + 1 - token.from) \in Nat
  BY <1>1 DEF Token
<1> QED BY <1>1, <1>2 DEF Left, AtSources

(* The next token begins behind the one at hand, or where it does if that  *)
(* is the end or no token.                                                 *)
LEMMA TokenMovesOn ==
    ASSUME Lexing, Lexing', NextToken, UNCHANGED text
    PROVE  /\ token'.from >= token.from
           /\ token.kind \notin {"Eof", "Unknown"} => token'.from > token.from
<1>1. Size \in Nat /\ token \in Token /\ IsToken(token, token.from)
  BY Characters, LenProperties, ElementOfSeq, EmptySeq DEF Lexing
<1>2. /\ token.from \in 1..(Size + 1) /\ token.to \in token.from..(Size + 1)
      /\ WellFormed(token)
  BY <1>1 DEF IsToken, Token
<1>3. token'.from \in token.to..(Size + 1)
  <2>1. token.to \in 0..(Size + 1) /\ text \in Seq(Piece)
    BY <1>1, <1>2 DEF Lexing
  <2>2. Lex(token.to).from \in token.to..(Size + 1)
    BY <2>1, LexIs
  <2> QED BY <2>2 DEF NextToken
<1>4. token.kind \notin {"Eof", "Unknown"} => token.to > token.from
  <2> DEFINE run == SubSeq(text, token.from, token.to - 1)
  <2>1. run \in Seq(Piece) /\ Len(run) = token.to - token.from
    BY <1>2, RunIs, Zenon DEF Lexing
  <2>2. token.kind \notin {"Eof", "Unknown"} => run # <<>>
    BY <1>2 DEF WellFormed, Grammar
  <2> HIDE DEF run
  <2> QED BY <1>1, <1>2, <2>1, <2>2, EmptySeq
<1> QED BY <1>1, <1>2, <1>3, <1>4

LEMMA LeftFalls ==
    ASSUME Lexing, Keeping, Next
    PROVE  Left' < Left
<1>1. Lexing' /\ text' = text /\ Size' = Size
  BY LexingStep, StepsOfTheLexer DEF Size
<1>2. /\ Size \in Nat /\ token.from \in 1..(Size + 1) /\ token'.from \in 1..(Size + 1)
      /\ Left \in Nat /\ Left' \in Nat
  <2>1. (Lexing => Left \in Nat /\ Size \in Nat /\ token.from \in 1..(Size + 1))'
    BY LeftIs, PTL
  <2> QED BY <1>1, <2>1, LeftIs
<1>3. ASSUME pc \notin {"end", "error"}, pc' \in {"end", "error"}
      PROVE  Left' < Left
  BY <1>2, <1>3 DEF Left, AtSources
<1>4. ASSUME pc \notin {"end", "error"}, NextToken, token.kind \notin {"Eof", "Unknown"}
      PROVE  Left' < Left
  <2>1. token'.from > token.from
    BY <1>1, <1>4, TokenMovesOn
  <2>2. \A label : AtSources(label) \in 0..2
    BY DEF AtSources
  <2>3. Left = 1 + 3 * (Size + 1 - token.from) + AtSources(pc)
    BY <1>4 DEF Left
  <2>4. Left' = 0 \/ Left' = 1 + 3 * (Size + 1 - token'.from) + AtSources(pc')
    BY <1>1 DEF Left
  <2> QED BY <1>2, <2>1, <2>2, <2>3, <2>4
<1>5. CASE ReadToken
  BY <1>3, <1>4, <1>5 DEF ReadToken
<1>6. CASE PluginDecl
  BY <1>4, <1>6 DEF PluginDecl, PluginKeyword, PluginPath, PluginEnd, Consume
<1>7. CASE EventKeyword \/ EventName \/ EventProperty \/ EventEnd
  BY <1>4, <1>7 DEF EventKeyword, EventName, EventProperty, EventEnd, Consume
<1>8. CASE SourceKeyword \/ SourceName \/ SourceValue \/ SourceProperty
  BY <1>4, <1>8 DEF SourceKeyword, SourceName, SourceValue, SourceProperty, Consume
<1>9. CASE SourceEnd
  <2>1. pc = "sourceProperties" /\ pc' = "sources" /\ token' = token
    BY <1>9 DEF SourceEnd, lexer
  <2> QED BY <1>1, <1>2, <2>1 DEF Left, AtSources
<1>10. CASE EventDone
  <2>1. pc = "sources" /\ pc' = "outputName" /\ token'.from >= token.from
    BY <1>1, <1>10, TokenMovesOn DEF EventDone
  <2> QED BY <1>1, <1>2, <2>1 DEF Left, AtSources
<1>11. CASE OutputDecl
  BY <1>4, <1>11
  DEF OutputDecl, OutputKeyword, OutputName, OutputPath, OutputEnd, Consume
<1>12. CASE UnexpectedToken
  BY <1>3, <1>12, Labels DEF UnexpectedToken
<1> QED BY <1>5, <1>6, <1>7, <1>8, <1>9, <1>10, <1>11, <1>12 DEF Next, EventDecl

(* Every step of the lexer and the parser brings the end nearer, whatever  *)
(* the text: no token is looked at for ever, and no text takes more steps  *)
(* than three for each of its positions (config.cc:226-437, 485-691).      *)
THEOREM ParserGetsOn == Spec => [](Left \in Nat) /\ [][Left' < Left]_vars
<1>1. Init => Lexing /\ Keeping
  BY LexingInit, KeepingInit
<1>2. Lexing /\ Keeping /\ [Next]_vars => (Lexing /\ Keeping)'
  BY LexingStep, KeepingStep
<1>3. Lexing => Left \in Nat
  BY LeftIs
<1>4. Lexing /\ Keeping /\ [Next]_vars => [Left' < Left]_vars
  BY LeftFalls
<1> QED BY <1>1, <1>2, <1>3, <1>4, PTL DEF Spec

===============================================================================
