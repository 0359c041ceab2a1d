----------------------------- MODULE StartupProofs -----------------------------
(***************************************************************************)
(* Proofs about CommandLine, for every command line, and PropertyLists,    *)
(* for every property list.                                                *)
(***************************************************************************)
EXTENDS ConfigProofs, CommandLine, PropertyLists

(* A sequence that holds what is given for each number in S, in the order  *)
(* of the numbers.                                                         *)
Rank(S, k) == Cardinality({m \in S : m <= k})
Enumerates(seq, S, given) ==
    /\ Len(seq) = Cardinality(S)
    /\ \A k \in S : seq[Rank(S, k)] = given[k]

LEMMA PartOfInterval ==
    ASSUME NEW n \in Int, NEW S \in SUBSET (1..n)
    PROVE  IsFiniteSet(S) /\ Cardinality(S) \in Nat /\ Cardinality(S) <= IF n < 1 THEN 0 ELSE n
<1>1. IsFiniteSet(1..n) /\ Cardinality(1..n) = IF 1 > n THEN 0 ELSE n - 1 + 1
  BY FS_Interval
<1>2. IsFiniteSet(S) /\ Cardinality(S) <= Cardinality(1..n)
  BY <1>1, FS_Subset, Zenon
<1> QED BY <1>1, <1>2, FS_CardinalityType

(* One more number, behind the others.                                     *)
LEMMA EnumeratesOneMore ==
    ASSUME NEW V, NEW seq \in Seq(V), NEW x \in V,
           NEW S \in SUBSET Nat, NEW m \in Nat, NEW given, IsFiniteSet(S),
           Enumerates(seq, S, given), \A n \in S : n < m,
           x = given[m]
    PROVE  Enumerates(Append(seq, x), S \union {m}, given)
<1> DEFINE T == S \union {m}
           longer == Append(seq, x)
<1>1. Cardinality(S) \in Nat /\ Cardinality(T) = Cardinality(S) + 1
  BY FS_CardinalityType, FS_AddElement
<1>2. /\ Len(longer) = Len(seq) + 1
      /\ \A k \in 1..Len(seq) : longer[k] = seq[k]
      /\ longer[Len(seq) + 1] = x
  BY AppendProperties
<1>3. Len(seq) = Cardinality(S)
  BY DEF Enumerates
<1>4. Rank(T, m) = Cardinality(T)
  <2>1. \A k \in T : k <= m
    OBVIOUS
  <2>2. {k \in T : k <= m} = T
    BY <2>1
  <2> QED BY <2>2 DEF Rank
<1>5. ASSUME NEW n \in S
      PROVE  Rank(T, n) = Rank(S, n) /\ Rank(S, n) \in 1..Len(seq)
  <2>1. {k \in T : k <= n} = {k \in S : k <= n}
    OBVIOUS
  <2>2. {k \in S : k <= n} \subseteq S /\ {k \in S : k <= n} # {}
    OBVIOUS
  <2>3. /\ Cardinality({k \in S : k <= n}) \in Nat
        /\ Cardinality({k \in S : k <= n}) <= Cardinality(S)
        /\ Cardinality({k \in S : k <= n}) # 0
    BY <2>2, FS_Subset, FS_CardinalityType, FS_EmptySet
  <2> HIDE DEF T
  <2>4. Rank(T, n) = Rank(S, n)
    BY <2>1 DEF Rank
  <2>5. Rank(S, n) \in 1..Len(seq)
    BY <1>1, <1>3, <2>3 DEF Rank
  <2> QED BY <2>4, <2>5
<1> HIDE DEF longer, T
<1>6. ASSUME NEW n \in S \union {m} PROVE longer[Rank(T, n)] = given[n]
  <2>1. CASE n = m
    BY <1>1, <1>2, <1>3, <1>4, <2>1
  <2>2. CASE n \in S
    <3>1. longer[Rank(T, n)] = seq[Rank(S, n)]
      BY <1>2, <1>5, <2>2
    <3> QED BY <2>2, <3>1 DEF Enumerates
  <2> QED BY <2>1, <2>2
<1> QED BY <1>1, <1>2, <1>3, <1>6 DEF Enumerates, longer, T

-----------------------------------------------------------------------------
(* The flags that were read, and what the command line gives for each.     *)
Taken(f) == {k \in Positions(f) : k < i}
Given(f) == [k \in 1..Len(argv) |-> IF f \in String THEN argv[k + 1] ELSE Plain("true")]

Parsed ==
    /\ stage = "parse" => ~IsValue(i)
    /\ stage \notin {"parse", "exit1"} => i > Len(argv)
    /\ \A f \in Flag : Enumerates(values[f], Taken(f), Given(f))
    /\ \A f \in String : \A k \in Taken(f) : k < Len(argv) /\ argv[k].form # "--f="

LastDecides ==
    \A f \in Flag : values[f] # <<>> =>
        \E k \in Taken(f) : /\ \A m \in Taken(f) : m <= k
                            /\ values[f][Len(values[f])] = Given(f)[k]

Stages ==
    /\ stage \in {"help", "config", "spool_dir", "service"} =>
          /\ GetString("loglevel") \in {Plain(l) : l \in Levels}
          /\ IsSet("daemonize") => "stderr" \notin log
    /\ stage \in {"config", "spool_dir", "service"} => ~IsSet("help") /\ ~IsSet("version")
    /\ stage \in {"spool_dir", "service"} => GetString("config") # Empty
    /\ stage \in {"parse", "help", "config"} => conf.load_plugins = <<>>
    /\ stage = "spool_dir" => conf.load_plugins = <<Plain("hostname"), Plain("eventql")>>
    /\ stage = "service" =>
          /\ conf.load_plugins = <<Plain("hostname"), Plain("eventql")>> \o values["plugin"]
          /\ conf.spool_dir = GetString("spool_dir") /\ conf.spool_dir # Empty

FlagsInv == FlagsTypeOK /\ Parsed /\ LastDecides /\ Stages

LEMMA IsValueIs ==
    ASSUME NEW k \in Nat \ {0}
    PROVE  IsValue(k + 1) <=> TakesValue(k) /\ ~IsValue(k)
<1> DEFINE Run(n) == {j \in 1..(n - 1) : \A m \in j..(n - 1) : TakesValue(m)}
<1>1. IsFiniteSet(Run(k)) /\ Cardinality(Run(k)) \in Nat
  <2>1. k - 1 \in Int /\ Run(k) \in SUBSET (1..(k - 1))
    OBVIOUS
  <2> HIDE DEF Run
  <2> QED BY <2>1, PartOfInterval, Zenon
<1>2. (k + 1) - 1 = k
  OBVIOUS
<1>3. CASE ~TakesValue(k)
  <2>1. Run(k + 1) = {}
    <3>1. ASSUME NEW j \in 1..k PROVE k \in j..k
      OBVIOUS
    <3> QED BY <1>2, <1>3, <3>1
  <2>2. Cardinality(Run(k + 1)) = 0
    BY <2>1, FS_EmptySet
  <2>3. 0 % 2 = 0
    OBVIOUS
  <2> QED BY <1>3, <2>2, <2>3 DEF IsValue
<1>4. CASE TakesValue(k)
  <2>1. Run(k + 1) = Run(k) \union {k} /\ k \notin Run(k)
    <3>1. ASSUME NEW j \in 1..k PROVE j..k = (j..(k - 1)) \union {k}
      OBVIOUS
    <3>2. 1..k = (1..(k - 1)) \union {k} /\ k \notin 1..(k - 1) /\ k..(k - 1) = {}
      OBVIOUS
    <3>3. ASSUME NEW j \in 1..k
          PROVE  (\A m \in j..k : TakesValue(m)) <=> (\A m \in j..(k - 1) : TakesValue(m))
      BY <1>4, <3>1
    <3> QED BY <1>2, <1>4, <3>2, <3>3
  <2>2. Cardinality(Run(k + 1)) = Cardinality(Run(k)) + 1
    BY <1>1, <2>1, FS_AddElement, Zenon
  <2>3. \A c \in Nat : (c + 1) % 2 = 1 <=> c % 2 # 1
    OBVIOUS
  <2>4. Cardinality(Run(k + 1)) % 2 = 1 <=> Cardinality(Run(k)) % 2 # 1
    <3> HIDE DEF Run
    <3> QED BY <1>1, <2>2, <2>3
  <2> QED BY <1>4, <2>4 DEF IsValue
<1> QED BY <1>3, <1>4

LEMMA FirstIsNoValue == ~IsValue(1)
<1>1. {j \in 1..(1 - 1) : \A m \in j..(1 - 1) : TakesValue(m)} = {}
  OBVIOUS
<1> QED BY <1>1, FS_EmptySet DEF IsValue

LEMMA SameArgv ==
    ASSUME UNCHANGED argv
    PROVE  /\ \A f : Positions(f)' = Positions(f) /\ Given(f)' = Given(f)
           /\ \A k : IsValue(k)' = IsValue(k)
BY DEF Positions, Given, IsValue, TakesValue, Matches

(* The argument at i resembles one flag at most, and is behind those taken. *)
LEMMA TakenIs ==
    ASSUME FlagsTypeOK, Parsed, Parsing, NEW f \in Flag
    PROVE  /\ {k \in Positions(f) : k < i + 1} =
                 IF Matches(argv[i], f) THEN Taken(f) \union {i} ELSE Taken(f)
           /\ TakesValue(i) =>
                 {k \in Positions(f) : k < i + 2} = {k \in Positions(f) : k < i + 1}
<1>1. i \in 1..Len(argv) /\ ~IsValue(i)
  BY DEF FlagsTypeOK, Parsed, Parsing
<1>2. i \in Positions(f) <=> Matches(argv[i], f)
  BY <1>1 DEF Positions
<1>3. Positions(f) \in SUBSET Nat
  BY DEF Positions
<1>4. TakesValue(i) => i + 1 \notin Positions(f)
  BY <1>1, IsValueIs DEF Positions
<1> QED BY <1>1, <1>2, <1>3, <1>4 DEF Taken

LEMMA TakenIsFinite ==
    ASSUME FlagsTypeOK, NEW f
    PROVE  Taken(f) \in SUBSET (1..Len(argv)) /\ IsFiniteSet(Taken(f))
<1>1. Taken(f) \in SUBSET (1..Len(argv))
  BY DEF Taken, Positions
<1>2. Len(argv) \in Int
  BY DEF FlagsTypeOK
<1> QED BY <1>1, <1>2, PartOfInterval, Zenon

(* A flag is given once more.                                              *)
LEMMA OneMoreValue ==
    ASSUME FlagsInv, Parsing, NEW f \in Flag, NEW x \in Argument, x = Given(f)[i],
           values' = [values EXCEPT ![f] = Append(@, x)], UNCHANGED argv,
           \A g \in Flag : Taken(g)' = IF g = f THEN Taken(g) \union {i} ELSE Taken(g)
    PROVE  /\ values' \in [Flag -> Seq(Argument)]
           /\ \A g \in Flag : Enumerates(values[g], Taken(g), Given(g))'
           /\ LastDecides'
<1>1. values[f] \in Seq(Argument) /\ values \in [Flag -> Seq(Argument)] /\ i \in Nat
  BY DEF FlagsInv, FlagsTypeOK
<1>2. values'[f] = Append(values[f], x) /\ \A g \in Flag \ {f} : values'[g] = values[g]
  BY <1>1
<1>3. values' \in [Flag -> Seq(Argument)]
  BY <1>1
<1>4. \A g \in Flag : Given(g)' = Given(g)
  BY SameArgv
<1>5. /\ Taken(f) \in SUBSET Nat /\ IsFiniteSet(Taken(f))
      /\ \A k \in Taken(f) : k < i
  <2>1. \A k \in Taken(f) : k < i
    BY DEF Taken
  <2> QED BY <2>1, TakenIsFinite DEF FlagsInv
<1>6. Enumerates(Append(values[f], x), Taken(f) \union {i}, Given(f))
  BY <1>1, <1>5, EnumeratesOneMore DEF FlagsInv, Parsed
<1>7. ASSUME NEW g \in Flag PROVE Enumerates(values'[g], Taken(g)', Given(g)')
  <2>1. CASE g = f
    BY <1>2, <1>4, <1>6, <2>1
  <2>2. CASE g # f
    BY <1>2, <1>4, <2>2 DEF FlagsInv, Parsed
  <2> QED BY <2>1, <2>2
<1>8. ASSUME NEW g \in Flag, values'[g] # <<>>
      PROVE  \E k \in Taken(g)' : /\ \A m \in Taken(g)' : m <= k
                                  /\ values'[g][Len(values'[g])] = Given(g)'[k]
  <2>1. CASE g = f
    <3>1. Len(values'[f]) = Len(values[f]) + 1 /\ values'[f][Len(values[f]) + 1] = x
      BY <1>1, <1>2, AppendProperties
    <3>2. i \in Taken(f)' /\ \A m \in Taken(f)' : m <= i
      BY <1>1, <1>5
    <3> QED BY <1>4, <2>1, <3>1, <3>2
  <2>2. CASE g # f
    BY <1>2, <1>4, <1>8, <2>2 DEF FlagsInv, LastDecides
  <2> QED BY <2>1, <2>2
<1>9. \A g \in Flag : Enumerates(values[g], Taken(g), Given(g))'
  BY <1>7
<1>10. LastDecides'
  BY <1>8 DEF LastDecides
<1> QED BY <1>3, <1>9, <1>10

LEMMA LeaveArgInv == ASSUME FlagsInv, LeaveArg PROVE FlagsInv'
<1>1. /\ FlagsTypeOK /\ Parsed /\ Parsing /\ stage = "parse" /\ i \in Nat
      /\ argv[i] \in Argument /\ i \in 1..Len(argv)
  BY DEF FlagsInv, LeaveArg, Parsing, FlagsTypeOK
<1>2. \A f \in Flag : ~Matches(argv[i], f)
  BY DEF LeaveArg, IsFlag
<1>3. UNCHANGED <<argv, values, stage, conf, log>> /\ i' = i + 1
  BY DEF LeaveArg
<1>4. \A f \in Flag : Taken(f)' = Taken(f) /\ Given(f)' = Given(f)
  BY <1>1, <1>2, <1>3, TakenIs, SameArgv DEF Taken
<1>5. ~IsValue(i)'
  <2>1. ~TakesValue(i)
    BY <1>2 DEF TakesValue, Flag
  <2>2. ~IsValue(i + 1)
    BY <1>1, <2>1, IsValueIs
  <2> QED BY <1>3, <2>2, SameArgv
<1>6. Parsed'
  BY <1>1, <1>3, <1>4, <1>5 DEF Parsed, Flag
<1>7. LastDecides'
  BY <1>3, <1>4 DEF FlagsInv, LastDecides
<1>8. FlagsTypeOK'
  <2>1. rest' \in Seq(Argument)
    BY <1>1 DEF LeaveArg, FlagsTypeOK
  <2> QED BY <1>1, <1>3, <2>1 DEF FlagsTypeOK
<1>9. Stages'
  BY <1>1, <1>3 DEF Stages, FlagsInv, IsSet, GetString
<1> QED BY <1>6, <1>7, <1>8, <1>9 DEF FlagsInv

LEMMA SetSwitchInv == ASSUME FlagsInv, NEW f \in Switch, SetSwitch(f) PROVE FlagsInv'
<1>1. /\ FlagsTypeOK /\ Parsed /\ Parsing /\ stage = "parse" /\ i \in 1..Len(argv)
      /\ f \in Flag /\ f \notin String
  BY SMTT(30) DEF FlagsInv, SetSwitch, Parsing, FlagsTypeOK, Flag, Switch, String
<1>2. Matches(argv[i], f) /\ \A g \in Flag : Matches(argv[i], g) <=> g = f
  BY DEF SetSwitch, Matches
<1>3. UNCHANGED <<argv, rest, stage, conf, log>> /\ i' = i + 1
  BY DEF SetSwitch
<1>4. \A g \in Flag : Taken(g)' = IF g = f THEN Taken(g) \union {i} ELSE Taken(g)
  BY <1>1, <1>2, <1>3, TakenIs, SameArgv DEF Taken
<1>5. ~IsValue(i)'
  <2>1. ~TakesValue(i)
    BY <1>1, <1>2 DEF TakesValue, Flag
  <2>2. ~IsValue(i + 1)
    BY <1>1, <2>1, IsValueIs
  <2> QED BY <1>3, <2>2, SameArgv
<1>6. Plain("true") \in Argument /\ Plain("true") = Given(f)[i]
  BY <1>1 DEF Plain, Argument, Form, Words, Given
<1>7. /\ values' \in [Flag -> Seq(Argument)]
      /\ \A g \in Flag : Enumerates(values[g], Taken(g), Given(g))'
      /\ LastDecides'
  BY <1>1, <1>3, <1>4, <1>6, OneMoreValue DEF SetSwitch
<1>8. Parsed'
  <2>1. \A g \in String : Taken(g)' = Taken(g)
    BY <1>1, <1>4 DEF Flag
  <2> QED BY <1>1, <1>3, <1>5, <1>7, <2>1 DEF Parsed
<1>9. FlagsTypeOK'
  BY <1>1, <1>3, <1>7 DEF FlagsTypeOK
<1>10. Stages'
  BY <1>1, <1>3 DEF Stages, FlagsInv
<1> QED BY <1>7, <1>8, <1>9, <1>10 DEF FlagsInv

LEMMA TakeValueInv == ASSUME FlagsInv, NEW f \in String, TakeValue(f) PROVE FlagsInv'
<1>1. /\ FlagsTypeOK /\ Parsed /\ Parsing /\ stage = "parse" /\ i \in 1..Len(argv)
      /\ f \in Flag
  BY DEF FlagsInv, TakeValue, Parsing, FlagsTypeOK, Flag
<1>2. Matches(argv[i], f) /\ \A g \in Flag : Matches(argv[i], g) <=> g = f
  BY DEF TakeValue, Matches
<1>3. UNCHANGED <<argv, rest, conf, log>>
  BY DEF TakeValue
<1>4. CASE argv[i].form = "--f=" \/ i = Len(argv)
  <2>1. stage' = "exit1" /\ UNCHANGED <<i, values>>
    BY <1>4 DEF TakeValue
  <2>2. \A g \in Flag : Taken(g)' = Taken(g) /\ Given(g)' = Given(g)
    BY <1>3, <2>1, SameArgv DEF Taken
  <2>3. Parsed'
    BY <1>1, <1>3, <2>1, <2>2 DEF Parsed, Flag
  <2>4. LastDecides'
    BY <2>1, <2>2 DEF FlagsInv, LastDecides
  <2>5. FlagsTypeOK' /\ Stages'
    BY <1>1, <1>3, <2>1 DEF FlagsTypeOK, Stages, Final
  <2> QED BY <2>3, <2>4, <2>5 DEF FlagsInv
<1>5. CASE ~(argv[i].form = "--f=" \/ i = Len(argv))
  <2>1. /\ values' = [values EXCEPT ![f] = Append(@, argv[i + 1])]
        /\ i' = i + 2 /\ UNCHANGED stage
    BY <1>5 DEF TakeValue
  <2>2. TakesValue(i)
    BY <1>2 DEF TakesValue
  <2>3. \A g \in Flag : Taken(g)' = IF g = f THEN Taken(g) \union {i} ELSE Taken(g)
    BY <1>1, <1>2, <1>3, <2>1, <2>2, TakenIs, SameArgv DEF Taken
  <2>4. ~IsValue(i)'
    <3>1. IsValue(i + 1) /\ ~IsValue(i + 1 + 1)
      BY <1>1, <2>2, IsValueIs DEF Parsed
    <3>2. i + 2 = i + 1 + 1
      BY <1>1
    <3> QED BY <1>3, <2>1, <3>1, <3>2, SameArgv
  <2>5. argv[i + 1] \in Argument /\ argv[i + 1] = Given(f)[i] /\ i < Len(argv)
    BY <1>1, <1>5 DEF Given, FlagsTypeOK
  <2>6. /\ values' \in [Flag -> Seq(Argument)]
        /\ \A g \in Flag : Enumerates(values[g], Taken(g), Given(g))'
        /\ LastDecides'
    BY <1>1, <1>3, <2>1, <2>3, <2>5, OneMoreValue
  <2>7. Parsed'
    <3>1. \A g \in String : \A k \in Taken(g)' : k < Len(argv) /\ argv[k].form # "--f="
      BY <1>1, <1>5, <2>3, <2>5 DEF Parsed, Flag
    <3> QED BY <1>1, <1>3, <2>1, <2>4, <2>6, <3>1 DEF Parsed
  <2>8. FlagsTypeOK'
    BY <1>1, <1>3, <2>1, <2>5, <2>6 DEF FlagsTypeOK
  <2>9. Stages'
    BY <1>1, <1>3, <2>1 DEF Stages, FlagsInv
  <2> QED BY <2>6, <2>7, <2>8, <2>9 DEF FlagsInv
<1> QED BY <1>4, <1>5

(* What main does after parsing leaves the flags as they are.              *)
LEMMA FlagsStay ==
    ASSUME FlagsInv, UNCHANGED <<argv, i, values, rest>>,
           i > Len(argv) \/ UNCHANGED stage, stage' = "parse" => stage = "parse"
    PROVE  Parsed' /\ LastDecides' /\ \A f : IsSet(f)' = IsSet(f) /\ GetString(f)' = GetString(f)
<1>1. \A g \in Flag : Taken(g)' = Taken(g) /\ Given(g)' = Given(g)
  BY SameArgv DEF Taken
<1>2. Parsed'
  BY <1>1, SameArgv DEF FlagsInv, Parsed, Flag
<1>3. LastDecides'
  BY <1>1 DEF FlagsInv, LastDecides
<1> QED BY <1>2, <1>3 DEF IsSet, GetString

LEMMA ValuesAreArguments ==
    ASSUME FlagsTypeOK, NEW f \in Flag
    PROVE  GetString(f) \in Argument
<1>1. Empty \in Argument /\ \A g \in DOMAIN DefaultValue : DefaultValue[g] \in Argument
  <2>1. \A w \in Words : Plain(w) \in Argument
    BY DEF Plain, Argument, Form
  <2>2. /\ DOMAIN DefaultValue = {"plugin_path", "loglevel"}
        /\ DefaultValue["plugin_path"] = Plain("plugins")
        /\ DefaultValue["loglevel"] = Plain("INFO")
    BY DEF DefaultValue
  <2> QED BY <2>1, <2>2 DEF Empty, Words, Levels
<1>2. values[f] \in Seq(Argument)
  BY DEF FlagsTypeOK
<1>3. values[f] # <<>> => values[f][Len(values[f])] \in Argument
  BY <1>2
<1> QED BY <1>1, <1>3 DEF GetString

LEMMA MainInv ==
    ASSUME FlagsInv, SetUpLogging \/ PrintHelp \/ LoadConfig \/ SetSpoolDir
    PROVE  FlagsInv'
<1>0. /\ FlagsTypeOK /\ Parsed /\ Stages
      /\ stage \in {"parse", "help", "config", "spool_dir"} /\ i > Len(argv)
  BY DEF FlagsInv, Parsed, SetUpLogging, PrintHelp, LoadConfig, SetSpoolDir
<1>1. UNCHANGED <<argv, i, values, rest>> /\ stage' # "parse"
  BY DEF SetUpLogging, PrintHelp, LoadConfig, SetSpoolDir
<1>2. Parsed' /\ LastDecides' /\ \A f : IsSet(f)' = IsSet(f) /\ GetString(f)' = GetString(f)
  BY <1>0, <1>1, FlagsStay
<1>3. CASE SetUpLogging
  <2>1. FlagsTypeOK'
    BY <1>0, <1>1, <1>3 DEF SetUpLogging, FlagsTypeOK, Final
  <2>2. Stages'
    BY <1>0, <1>2, <1>3 DEF SetUpLogging, Stages
  <2> QED BY <1>2, <2>1, <2>2 DEF FlagsInv
<1>4. CASE PrintHelp
  <2>1. FlagsTypeOK'
    BY <1>0, <1>1, <1>4 DEF PrintHelp, FlagsTypeOK, Final
  <2>2. Stages'
    BY <1>0, <1>2, <1>4 DEF PrintHelp, Stages
  <2> QED BY <1>2, <2>1, <2>2 DEF FlagsInv
<1>5. CASE LoadConfig
  <2>1. /\ GetString("plugin_path") \in Argument
        /\ Plain("hostname") \in Argument /\ Plain("eventql") \in Argument
    BY <1>0, ValuesAreArguments DEF Flag, String, Plain, Argument, Form, Words
  <2>2. /\ conf.spool_dir \in Argument /\ conf.load_plugins \in Seq(Argument)
        /\ conf = [plugin_dir |-> conf.plugin_dir, spool_dir |-> conf.spool_dir,
                   load_plugins |-> conf.load_plugins]
    BY <1>0 DEF FlagsTypeOK
  <2>3. conf.load_plugins = <<>>
    BY <1>0, <1>5 DEF LoadConfig, Stages
  <2> DEFINE two == <<Plain("hostname"), Plain("eventql")>>
  <2>4. two \in Seq(Argument) /\ conf.load_plugins \o two = two
    BY <2>1, <2>3
  <2> HIDE DEF two
  <2>5. CASE GetString("config") = Empty
    <3>1. stage' = "exit1" /\ UNCHANGED <<conf, log>>
      BY <1>5, <2>5 DEF LoadConfig
    <3>2. FlagsTypeOK'
      BY <1>0, <1>1, <3>1 DEF FlagsTypeOK, Final
    <3>3. Stages'
      BY <3>1 DEF Stages
    <3> QED BY <1>2, <3>2, <3>3 DEF FlagsInv
  <2>6. CASE GetString("config") # Empty
    <3>1. /\ conf' = [plugin_dir |-> GetString("plugin_path"),
                      spool_dir |-> conf.spool_dir, load_plugins |-> two]
          /\ stage' = "spool_dir" /\ UNCHANGED log
      <4>1. conf' = [conf EXCEPT !.plugin_dir = GetString("plugin_path"),
                                 !.load_plugins = @ \o two]
        BY <1>5, <2>6 DEF LoadConfig, two
      <4> QED BY <1>5, <2>2, <2>4, <2>6, <4>1 DEF LoadConfig
    <3>2. FlagsTypeOK'
      BY <1>0, <1>1, <2>1, <2>2, <2>4, <3>1 DEF FlagsTypeOK
    <3>3. Stages'
      BY <1>0, <1>2, <1>5, <2>6, <3>1 DEF LoadConfig, Stages, two
    <3> QED BY <1>2, <3>2, <3>3 DEF FlagsInv
  <2> QED BY <2>5, <2>6
<1>6. CASE SetSpoolDir
  <2>1. GetString("spool_dir") \in Argument /\ values["plugin"] \in Seq(Argument)
    BY <1>0, ValuesAreArguments DEF Flag, String, FlagsTypeOK
  <2>2. FlagsTypeOK'
    <3>1. /\ conf.plugin_dir \in Argument /\ conf.load_plugins \in Seq(Argument)
          /\ conf = [plugin_dir |-> conf.plugin_dir, spool_dir |-> conf.spool_dir,
                     load_plugins |-> conf.load_plugins]
      BY <1>0 DEF FlagsTypeOK
    <3>2. conf' \in [plugin_dir : Argument, spool_dir : Argument, load_plugins : Seq(Argument)]
      <4>1. CASE UNCHANGED conf
        BY <1>0, <4>1 DEF FlagsTypeOK
      <4>2. CASE conf' = [conf EXCEPT !.spool_dir = GetString("spool_dir"),
                                      !.load_plugins = @ \o values["plugin"]]
        <5>1. conf.load_plugins \o values["plugin"] \in Seq(Argument)
          BY <2>1, <3>1
        <5>2. conf' = [plugin_dir |-> conf.plugin_dir, spool_dir |-> GetString("spool_dir"),
                       load_plugins |-> conf.load_plugins \o values["plugin"]]
          BY <3>1, <4>2
        <5> QED BY <2>1, <3>1, <5>1, <5>2
      <4> QED BY <1>6, <4>1, <4>2 DEF SetSpoolDir
    <3>3. stage' \in Final /\ UNCHANGED log
      BY <1>6 DEF SetSpoolDir, Final
    <3> QED BY <1>0, <1>1, <3>2, <3>3 DEF FlagsTypeOK
  <2>3. stage' = "service" =>
          /\ conf'.load_plugins =
                <<Plain("hostname"), Plain("eventql")>> \o values["plugin"]
          /\ conf'.spool_dir = GetString("spool_dir") /\ conf'.spool_dir # Empty
    BY <1>0, <1>6 DEF SetSpoolDir, FlagsTypeOK, Stages
  <2>4. Stages'
    BY <1>0, <1>1, <1>2, <1>6, <2>3 DEF SetSpoolDir, Stages
  <2> QED BY <1>2, <2>2, <2>4 DEF FlagsInv
<1> QED BY <1>3, <1>4, <1>5, <1>6

LEMMA FlagsInvInit == FlagsInit => FlagsInv
<1> SUFFICES ASSUME FlagsInit PROVE FlagsInv
  OBVIOUS
<1>1. argv \in Seq(Argument) /\ i = 1 /\ stage = "parse" /\ values = [f \in Flag |-> <<>>]
  BY ArgvsAssumption DEF FlagsInit
<1>2. Empty \in Argument
  BY DEF Empty, Plain, Argument, Form, Words
<1>3. FlagsTypeOK
  BY <1>1, <1>2 DEF FlagsInit, FlagsTypeOK, NoConf
<1>4. \A f \in Flag : Taken(f) = {}
  BY <1>1 DEF Taken, Positions
<1>5. \A f \in Flag : Enumerates(values[f], Taken(f), Given(f))
  BY <1>1, <1>4, FS_EmptySet DEF Enumerates
<1>6. String \subseteq Flag
  BY DEF Flag
<1>7. Parsed
  BY <1>1, <1>4, <1>5, <1>6, FirstIsNoValue DEF Parsed
<1>8. LastDecides
  BY <1>1 DEF LastDecides
<1>9. Stages
  BY <1>1 DEF Stages, FlagsInit, NoConf
<1> QED BY <1>3, <1>7, <1>8, <1>9 DEF FlagsInv

LEMMA FlagsInvStep == FlagsInv /\ [FlagsNext]_flagVars => FlagsInv'
<1> SUFFICES ASSUME FlagsInv, [FlagsNext]_flagVars PROVE FlagsInv'
  OBVIOUS
<1>1. CASE UNCHANGED flagVars
  <2>1. Parsed' /\ LastDecides' /\ \A f : IsSet(f)' = IsSet(f) /\ GetString(f)' = GetString(f)
    BY <1>1, FlagsStay DEF flagVars
  <2>2. FlagsTypeOK'
    BY <1>1 DEF flagVars, FlagsInv, FlagsTypeOK
  <2>3. Stages'
    BY <1>1, <2>1 DEF flagVars, FlagsInv, Stages
  <2> QED BY <2>1, <2>2, <2>3 DEF FlagsInv
<1> QED
  BY <1>1, LeaveArgInv, SetSwitchInv, TakeValueInv, MainInv DEF FlagsNext, ParseArg

(* The variables of parseArgv and of main have their types, for every      *)
(* command line.                                                           *)
THEOREM FlagsTypeCorrect == FlagsSpec => []FlagsTypeOK
<1>1. FlagsInv => FlagsTypeOK
  BY DEF FlagsInv
<1> QED BY FlagsInvInit, FlagsInvStep, <1>1, PTL DEF FlagsSpec

(* A value that is used was given, and the last one that was given is used. *)
LEMMA LastIsUsed ==
    ASSUME FlagsInv, i > Len(argv), NEW f \in String
    PROVE  /\ values[f] # <<>> =>
                 \E k \in 1..Len(argv) : IsLast(k, f) /\ GetString(f) = argv[k + 1]
           /\ \A k \in 1..Len(argv) : IsLast(k, f) => GetString(f) = argv[k + 1]
<1>1. f \in Flag /\ Len(argv) \in Nat /\ i \in Nat
  BY DEF Flag, FlagsInv, FlagsTypeOK
<1>2. Positions(f) = Taken(f) /\ Positions(f) \subseteq 1..Len(argv)
  BY <1>1 DEF Taken, Positions
<1>3. values[f] # <<>> =>
        \E k \in 1..Len(argv) : IsLast(k, f) /\ GetString(f) = argv[k + 1]
  BY <1>1, <1>2 DEF FlagsInv, LastDecides, IsLast, GetString, Given
<1>4. ASSUME NEW k \in 1..Len(argv), IsLast(k, f) PROVE GetString(f) = argv[k + 1]
  <2>1. IsFiniteSet(Taken(f)) /\ Taken(f) # {}
    BY <1>2, <1>4, TakenIsFinite DEF FlagsInv, IsLast
  <2>2. Len(values[f]) # 0
    BY <1>1, <2>1, FS_EmptySet DEF FlagsInv, Parsed, Enumerates
  <2>3. values[f] # <<>>
    BY <2>2
  <2>4. PICK m \in 1..Len(argv) : IsLast(m, f) /\ GetString(f) = argv[m + 1]
    BY <1>3, <2>3
  <2>5. m = k
    BY <1>2, <1>4, <2>4 DEF IsLast
  <2> QED BY <2>4, <2>5
<1> QED BY <1>3, <1>4

LEMMA NotGiven ==
    ASSUME FlagsInv, i > Len(argv), NEW f \in Switch
    PROVE  IsSet(f) <=> Positions(f) # {}
<1>1. f \in Flag /\ Len(argv) \in Nat /\ i \in Nat /\ values[f] \in Seq(Argument)
  BY DEF Flag, FlagsInv, FlagsTypeOK
<1>2. Positions(f) = Taken(f)
  BY <1>1 DEF Taken, Positions
<1>3. f \notin DOMAIN DefaultValue
  BY DEF Switch, DefaultValue
<1>4. Len(values[f]) = 0 <=> Positions(f) = {}
  BY <1>1, <1>2, TakenIsFinite, FS_EmptySet DEF FlagsInv, Parsed, Enumerates
<1> QED BY <1>1, <1>3, <1>4 DEF IsSet

(* What evcollectd starts with is what its command line says, whatever it  *)
(* is: parseArgv may take an argument for a value that looks like a flag,  *)
(* but no argument twice and none too many (flagparser.cc:136-203,         *)
(* evcollectd.cc:130-217).                                                 *)
THEOREM StartsAsTold == FlagsSpec => []StartedAsTold
<1>1. FlagsInv => StartedAsTold
  <2> SUFFICES ASSUME FlagsInv, stage = "service" PROVE StartedAsTold
    BY DEF StartedAsTold
  <2>1. /\ FlagsTypeOK /\ Parsed /\ Stages /\ i > Len(argv) /\ i \in Nat /\ Len(argv) \in Nat
        /\ String \subseteq Flag
    BY DEF FlagsInv, Parsed, FlagsTypeOK, Flag
  <2>2. Positions("help") \union Positions("version") = {}
    BY <2>1, NotGiven DEF Switch, Stages
  <2>3. \A f \in Flag : Positions(f) = Taken(f) /\ Positions(f) \subseteq 1..Len(argv)
    BY <2>1 DEF Taken, Positions
  <2>4. \A f \in String : \A k \in Positions(f) : k < Len(argv) /\ argv[k].form # "--f="
    BY <2>1, <2>3 DEF Parsed
  <2>5. ASSUME NEW f \in {"config", "spool_dir"}
        PROVE  \E k \in 1..Len(argv) :
                  IsLast(k, f) /\ GetString(f) = argv[k + 1] /\ argv[k + 1] # Empty
    <3>1. f \in String /\ f \notin DOMAIN DefaultValue /\ GetString(f) # Empty
      BY <2>1 DEF Stages, String, DefaultValue
    <3>2. values[f] # <<>>
      BY <3>1 DEF GetString
    <3> QED BY <2>1, <3>1, <3>2, LastIsUsed
  <2>6. /\ \E k \in 1..Len(argv) : IsLast(k, "config") /\ argv[k + 1] # Empty
        /\ \E k \in 1..Len(argv) : /\ IsLast(k, "spool_dir")
                                   /\ conf.spool_dir = argv[k + 1] /\ argv[k + 1] # Empty
    BY <2>1, <2>5 DEF Stages
  <2>7. /\ Len(conf.load_plugins) = 2 + Cardinality(Positions("plugin"))
        /\ conf.load_plugins[1] = Plain("hostname") /\ conf.load_plugins[2] = Plain("eventql")
        /\ \A k \in Positions("plugin") :
              conf.load_plugins[2 + Cardinality({m \in Positions("plugin") : m <= k})] =
                 argv[k + 1]
    <3> DEFINE S == Positions("plugin")
               two == <<Plain("hostname"), Plain("eventql")>>
    <3>1. /\ "plugin" \in String /\ "plugin" \in Flag /\ values["plugin"] \in Seq(Argument)
          /\ conf.load_plugins = two \o values["plugin"]
      BY <2>1 DEF Flag, String, Stages, FlagsTypeOK
    <3>2. IsFiniteSet(S) /\ S \subseteq 1..Len(argv) /\ S = Taken("plugin")
      BY <2>1, <2>3, <3>1, TakenIsFinite
    <3>3. Len(values["plugin"]) = Cardinality(S) /\ Cardinality(S) \in Nat
      BY <2>1, <3>1, <3>2, FS_CardinalityType DEF Parsed, Enumerates
    <3>4. ASSUME NEW k \in S
          PROVE  Rank(S, k) \in 1..Cardinality(S) /\ values["plugin"][Rank(S, k)] = argv[k + 1]
      <4>1. {m \in S : m <= k} \subseteq S /\ {m \in S : m <= k} # {}
        BY <3>2
      <4>2. Rank(S, k) \in 1..Cardinality(S)
        <5> HIDE DEF S
        <5>1. /\ IsFiniteSet({m \in S : m <= k}) /\ Cardinality({m \in S : m <= k}) \in Nat
              /\ Cardinality({m \in S : m <= k}) <= Cardinality(S)
              /\ Cardinality({m \in S : m <= k}) # 0
          BY <3>2, <4>1, FS_Subset, FS_CardinalityType, FS_EmptySet
        <5> QED BY <3>3, <5>1 DEF Rank
      <4>3. values["plugin"][Rank(S, k)] = Given("plugin")[k]
        BY <2>1, <3>1, <3>2 DEF Parsed, Enumerates
      <4> QED BY <3>1, <3>2, <4>2, <4>3 DEF Given
    <3> HIDE DEF S
    <3>5. /\ Len(conf.load_plugins) = 2 + Len(values["plugin"])
          /\ conf.load_plugins[1] = Plain("hostname") /\ conf.load_plugins[2] = Plain("eventql")
          /\ \A n \in 1..Len(values["plugin"]) :
                conf.load_plugins[2 + n] = values["plugin"][n]
      BY <3>1
    <3> QED BY <3>3, <3>4, <3>5 DEF S, Rank
  <2>8. \A k \in 1..Len(argv) :
          IsLast(k, "loglevel") => argv[k + 1] \in {Plain(l) : l \in Levels}
    BY <2>1, LastIsUsed DEF Stages, String
  <2>9. Positions("daemonize") # {} => "stderr" \notin log
    BY <2>1, NotGiven DEF Switch, Stages
  <2> QED BY <2>2, <2>4, <2>6, <2>7, <2>8, <2>9 DEF StartedAsTold
<1> QED BY FlagsInvInit, FlagsInvStep, <1>1, PTL DEF FlagsSpec

-----------------------------------------------------------------------------
(* The options that were looked at are what the list says, and the others  *)
(* are still what they were.                                               *)
Looked == {Order[attaching][n] : n \in 1..at}
OptionsRead ==
    \A key \in Settings :
        IF key \in Looked THEN Valid(key) /\ Says(key, options[key])
        ELSE options[key] = Default[key]

(* The routes so far, and the arguments of the next one.                   *)
RoutesRead ==
    /\ route # <<>> \/ routes # <<>> =>
          attaching = "eventql" /\ at = Len(Order.eventql)
    /\ \A n \in DOMAIN routes :
          Len(routes[n]) = 2 /\ \E k \in Nth("route", n - 1) : routes[n] = list[k].values
    /\ route # <<>> =>
          \E k \in Nth("route", Len(routes)) :
             /\ Len(route) <= Len(list[k].values)
             /\ \A j \in 1..Len(route) : route[j] = list[k].values[j]

Returned ==
    /\ outcome = "refused" =>
          \/ \E n \in DOMAIN Order[attaching] : ~Valid(Order[attaching][n])
          \/ attaching = "eventql" /\ ~ValidRoutes
    /\ outcome = "attached" =>
          /\ at = Len(Order[attaching])
          /\ attaching = "eventql" => ValidRoutes /\ RoutesAsListed

AttachInv == AttachTypeOK /\ OptionsRead /\ RoutesRead /\ Returned

LEMMA ListIs ==
    ASSUME AttachTypeOK
    PROVE  /\ Len(list) \in Nat
           /\ \A k \in 1..Len(list) : list[k].values \in Seq(Values)
<1>1. list \in Seq([key : STRING, values : Seq(Values)])
  BY ListsAssumption DEF AttachTypeOK
<1>2. /\ Len(list) \in Nat
      /\ \A k \in 1..Len(list) : list[k] \in [key : STRING, values : Seq(Values)]
  BY <1>1, LenProperties, ElementOfSeq
<1> QED BY <1>2

LEMMA FirstIs ==
    ASSUME NEW S \in SUBSET Nat, S # {}
    PROVE  First(S) \in S /\ \A m \in S : First(S) <= m
BY LeastNumber DEF First

LEMMA GetIs ==
    ASSUME AttachTypeOK, NEW key
    PROVE  /\ Get(key) = None <=> Filled(key) = {}
           /\ Get(key) # None => FirstOf(key) # {} /\ Get(key) \in Values
           /\ \A k \in FirstOf(key) : Get(key) = list[k].values[1]
<1>1. Filled(key) \in SUBSET Nat /\ Filled(key) \subseteq 1..Len(list)
  BY DEF Filled, Of
<1>2. \A k \in Filled(key) : list[k].values[1] \in Values /\ list[k].values[1] # None
  <2>1. ASSUME NEW k \in Filled(key)
        PROVE  list[k].values \in Seq(Values) /\ list[k].values # <<>>
    BY <1>1, ListIs DEF Filled
  <2>2. ASSUME NEW v \in Seq(Values), v # <<>> PROVE v[1] \in Values
    BY <2>2
  <2> QED BY <2>1, <2>2, ValuesAssumption
<1>3. CASE Filled(key) = {}
  BY <1>3 DEF Get, FirstOf
<1>4. CASE Filled(key) # {}
  <2>1. First(Filled(key)) \in FirstOf(key)
    BY <1>1, <1>4, FirstIs DEF FirstOf
  <2>2. \A k \in FirstOf(key) : k = First(Filled(key))
    <3>1. ASSUME NEW k \in FirstOf(key), NEW m \in FirstOf(key) PROVE k = m
      BY <1>1, <3>1 DEF FirstOf
    <3> QED BY <2>1, <3>1
  <2>3. Get(key) = list[First(Filled(key))].values[1] /\ First(Filled(key)) \in Filled(key)
    BY <1>4, <2>1 DEF Get, FirstOf
  <2> QED BY <1>2, <1>4, <2>1, <2>2, <2>3
<1> QED BY <1>3, <1>4

LEMMA OrderIs ==
    ASSUME attaching \in DOMAIN Order
    PROVE  /\ Len(Order[attaching]) \in Nat
           /\ DOMAIN Order[attaching] = 1..Len(Order[attaching])
           /\ \A n \in 1..Len(Order[attaching]) : Order[attaching][n] \in Settings
           /\ \A n, m \in 1..Len(Order[attaching]) :
                 Order[attaching][n] = Order[attaching][m] => n = m
<1>1. CASE attaching = "eventql"
  BY <1>1 DEF Order, Settings, Text, Numeric
<1>2. CASE attaching = "logfile"
  BY <1>2 DEF Order, Settings, Text
<1>3. attaching \in {"eventql", "logfile"}
  BY DEF Order
<1> QED BY <1>1, <1>2, <1>3

(* The list stays as it is, and so does all that is said about it.         *)
LEMMA SameList ==
    ASSUME UNCHANGED list
    PROVE  /\ \A key : Of(key)' = Of(key) /\ Filled(key)' = Filled(key)
           /\ \A key : Valid(key)' = Valid(key)
           /\ \A key, n : Nth(key, n)' = Nth(key, n)
           /\ ValidRoutes' = ValidRoutes
<1>1. \A key : Of(key)' = Of(key) /\ Filled(key)' = Filled(key) /\ FirstOf(key)' = FirstOf(key)
  BY DEF Of, Filled, FirstOf
<1> QED BY <1>1 DEF Valid, Nth, ValidRoutes, Of

LEMMA SetInv ==
    ASSUME AttachInv, outcome = None, at < Len(Order[attaching]), NEW value, Set(value),
           Valid(Option), Says(Option, value),
           Option \in Numeric => value \in 0..(Width(Option) - 1)
    PROVE  AttachInv'
<1>1. /\ AttachTypeOK /\ UNCHANGED <<list, attaching, outcome, route, routes>>
      /\ at' = at + 1 /\ options' = [options EXCEPT ![Option] = value]
      /\ attaching \in DOMAIN Order /\ at \in Nat /\ at + 1 \in 1..Len(Order[attaching])
      /\ Option \in Settings /\ DOMAIN options = Settings
  BY OrderIs DEF AttachInv, AttachTypeOK, Set, Option
<1>2. /\ options'[Option] = value
      /\ \A key \in Settings : key # Option => options'[key] = options[key]
      /\ DOMAIN options' = Settings
  BY <1>1
<1>3. AttachTypeOK'
  <2>1. \A key \in Numeric : options'[key] \in 0..(Width(key) - 1)
    BY <1>1, <1>2 DEF AttachTypeOK, Settings
  <2> QED BY <1>1, <1>2, <2>1 DEF AttachTypeOK, Width
<1>4. Looked' = Looked \union {Option} /\ Option \notin Looked
  <2>1. 1..(at + 1) = (1..at) \union {at + 1} /\ at + 1 \notin 1..at
    BY <1>1
  <2>2. 1..(at + 1) \subseteq 1..Len(Order[attaching])
    BY <1>1, OrderIs
  <2>3. Looked' = {Order[attaching][n] : n \in 1..(at + 1)}
    BY <1>1 DEF Looked
  <2> QED BY <1>1, <2>1, <2>2, <2>3, OrderIs DEF Looked, Option
<1>5. OptionsRead'
  <2>1. \A key \in Settings :
          Says(key, options[key])' = Says(key, options'[key]) /\ Valid(key)' = Valid(key)
    BY <1>1, SameList DEF Says, Filled, FirstOf, Of, Width
  <2>2. ASSUME NEW key \in Settings
        PROVE  IF key \in Looked' THEN Valid(key)' /\ Says(key, options[key])'
               ELSE options'[key] = Default[key]
    BY <1>2, <1>4, <2>1 DEF AttachInv, OptionsRead
  <2> QED BY <2>2 DEF OptionsRead
<1>6. RoutesRead'
  <2>1. route = <<>> /\ routes = <<>>
    BY DEF AttachInv, RoutesRead
  <2> QED BY <1>1, <2>1 DEF RoutesRead
<1>7. Returned'
  <2>1. outcome' # "refused" /\ outcome' # "attached"
    BY <1>1, NoneAssumption
  <2> QED BY <2>1 DEF Returned
<1> QED BY <1>3, <1>5, <1>6, <1>7 DEF AttachInv

LEMMA KeepInv ==
    ASSUME AttachInv, outcome = None, at < Len(Order[attaching]), Set(options[Option]),
           Filled(Option) = {}, Option # "logfile"
    PROVE  AttachInv'
<1>1. Option \in Settings /\ Option \notin Looked
  <2>1. /\ at \in Nat /\ at + 1 \in 1..Len(Order[attaching]) /\ at + 1 \notin 1..at
        /\ 1..at \subseteq 1..Len(Order[attaching])
    BY OrderIs DEF AttachInv, AttachTypeOK
  <2> QED BY <2>1, OrderIs DEF AttachInv, AttachTypeOK, Option, Looked
<1>2. options[Option] = Default[Option]
  BY <1>1 DEF AttachInv, OptionsRead
<1>3. FirstOf(Option) = {}
  BY DEF FirstOf
<1>4. Valid(Option) /\ Says(Option, options[Option])
  BY <1>2, <1>3 DEF Valid, Says
<1>5. Option \in Numeric => options[Option] \in 0..(Width(Option) - 1)
  BY DEF AttachInv, AttachTypeOK
<1> QED BY <1>4, <1>5, SetInv

LEMMA RefuseInv ==
    ASSUME AttachInv, outcome = None, at < Len(Order[attaching]), Refuse, ~Valid(Option)
    PROVE  AttachInv'
<1>1. /\ UNCHANGED <<list, attaching, at, options, route, routes>> /\ outcome' = "refused"
  BY DEF Refuse
<1>2. AttachTypeOK'
  BY <1>1 DEF AttachInv, AttachTypeOK, Width
<1>3. OptionsRead'
  <2>1. \A key : Says(key, options[key])' = Says(key, options[key]) /\ Valid(key)' = Valid(key)
    BY <1>1, SameList DEF Says, Filled, FirstOf, Of, Width
  <2>2. Looked' = Looked
    BY <1>1 DEF Looked
  <2> QED BY <1>1, <2>1, <2>2 DEF AttachInv, OptionsRead
<1>4. RoutesRead'
  <2>1. route = <<>> /\ routes = <<>>
    BY DEF AttachInv, RoutesRead
  <2> QED BY <1>1, <2>1 DEF RoutesRead
<1>5. Returned'
  <2>1. at + 1 \in DOMAIN Order[attaching]
    BY OrderIs DEF AttachInv, AttachTypeOK
  <2>2. \E n \in DOMAIN Order[attaching] : ~Valid(Order[attaching][n])
    BY <2>1 DEF Option
  <2>3. outcome' # "attached"
    BY <1>1
  <2> QED BY <1>1, <2>2, <2>3, SameList DEF Returned
<1> QED BY <1>2, <1>3, <1>4, <1>5 DEF AttachInv

LEMMA ReadTextInv == ASSUME AttachInv, ReadText PROVE AttachInv'
<1>1. /\ AttachTypeOK /\ outcome = None /\ at < Len(Order[attaching]) /\ Option \in Text
      /\ Option \notin Numeric /\ Option # "regex"
  BY DEF AttachInv, ReadText, Reading, Text, Numeric
<1>2. CASE Get(Option) # None /\ Set(Get(Option))
  <2>1. Filled(Option) # {} /\ \A k \in FirstOf(Option) : Get(Option) = list[k].values[1]
    BY <1>1, <1>2, GetIs
  <2>2. Valid(Option) /\ Says(Option, Get(Option))
    BY <1>1, <2>1 DEF Valid, Says
  <2> QED BY <1>1, <1>2, <2>2, SetInv
<1>3. CASE Get(Option) = None /\ Option # "logfile" /\ Set(options[Option])
  BY <1>1, <1>3, GetIs, KeepInv
<1>4. CASE Get(Option) = None /\ Option = "logfile" /\ Refuse
  <2>1. ~Valid(Option)
    BY <1>1, <1>4, GetIs DEF Valid
  <2> QED BY <1>1, <1>4, <2>1, RefuseInv
<1> QED BY <1>2, <1>3, <1>4 DEF ReadText

(* What is cut off a number is a multiple of the width.                    *)
LEMMA NoOtherMultiple ==
    ASSUME NEW w \in Nat \ {0}, NEW t \in Int, w * t >= 0, w * t < w
    PROVE  t = 0
OBVIOUS

LEMMA Division ==
    ASSUME NEW w \in Nat \ {0}, NEW n \in Int
    PROVE  n % w \in 0..(w - 1) /\ n \div w \in Int /\ n = w * (n \div w) + (n % w)
OBVIOUS

LEMMA CutOff ==
    ASSUME NEW w \in Nat \ {0}, NEW n \in Int
    PROVE  ((n % w) - n) % w = 0
<1> DEFINE t == 0 - (n \div w)
           q == (w * t) \div w
           r == (w * t) % w
<1>1. t \in Int /\ w * t \in Int /\ (n % w) - n = w * t
  BY Division
<1>2. r \in 0..(w - 1) /\ q \in Int /\ w * t = w * q + r
  <2> HIDE DEF t
  <2> QED BY <1>1, Division
<1> HIDE DEF t, q, r
<1>3. t - q = 0
  <2>1. w * (t - q) = r
    BY <1>1, <1>2
  <2> QED BY <1>1, <1>2, <2>1, NoOtherMultiple
<1>4. r = 0
  BY <1>1, <1>2, <1>3
<1> QED BY <1>1, <1>4, Zenon DEF r

LEMMA ReadNumberInv == ASSUME AttachInv, ReadNumber PROVE AttachInv'
<1> DEFINE value == Get(Option)
<1>1. /\ AttachTypeOK /\ outcome = None /\ at < Len(Order[attaching]) /\ Option \in Numeric
      /\ Option \notin Text /\ Option # "regex" /\ Option # "logfile"
  BY DEF AttachInv, ReadNumber, Reading, Text, Numeric
<1>2. CASE value = None /\ Set(options[Option])
  BY <1>1, <1>2, GetIs, KeepInv
<1>3. ASSUME value # None
      PROVE  /\ value \in Values /\ Filled(Option) # {} /\ FirstOf(Option) # {}
             /\ \A k \in FirstOf(Option) : value = list[k].values[1]
  BY <1>1, <1>3, GetIs
<1> HIDE DEF value
<1>4. CASE value # None /\ StoulOf[value] = None /\ Refuse
  <2>1. ~Valid(Option)
    BY <1>1, <1>3, <1>4 DEF Valid
  <2> QED BY <1>1, <1>4, <2>1, RefuseInv
<1>5. CASE value # None /\ StoulOf[value] # None /\ Set(StoulOf[value] % Width(Option))
  <2>1. StoulOf[value] \in Int /\ Width(Option) \in Nat \ {0}
    BY <1>3, <1>5, ValuesAssumption, ModulusAssumption DEF Width, Ports
  <2>2. /\ StoulOf[value] % Width(Option) \in 0..(Width(Option) - 1)
        /\ ((StoulOf[value] % Width(Option)) - StoulOf[value]) % Width(Option) = 0
    BY <2>1, CutOff, Division
  <2>3. Valid(Option) /\ Says(Option, StoulOf[value] % Width(Option))
    BY <1>1, <1>3, <1>5, <2>2 DEF Valid, Says
  <2> QED BY <1>1, <1>5, <2>2, <2>3, SetInv
<1> QED BY <1>2, <1>4, <1>5 DEF ReadNumber, value

LEMMA ReadRegexInv == ASSUME AttachInv, ReadRegex PROVE AttachInv'
<1> DEFINE value == Get("regex")
           r == Regex[value]
           usable == r.compiles /\ \E g \in DOMAIN r.groups : r.groups[g] # 0
<1>1. /\ AttachTypeOK /\ outcome = None /\ at < Len(Order[attaching]) /\ Option = "regex"
      /\ "regex" \notin Text /\ "regex" \notin Numeric /\ "regex" # "logfile"
  BY DEF AttachInv, ReadRegex, Reading, Text, Numeric
<1>2. CASE value = None /\ Set(options["regex"])
  BY <1>1, <1>2, GetIs, KeepInv
<1>3. ASSUME value # None
      PROVE  /\ Filled("regex") # {} /\ FirstOf("regex") # {}
             /\ \A k \in FirstOf("regex") : value = list[k].values[1]
  BY <1>1, <1>3, GetIs
<1> HIDE DEF value
<1>4. CASE value # None /\ ~usable /\ Refuse
  <2>1. ~Valid("regex")
    BY <1>1, <1>3, <1>4 DEF Valid
  <2> QED BY <1>1, <1>4, <2>1, RefuseInv
<1>5. CASE value # None /\ usable /\ Set(Fields(r.groups))
  <2>1. /\ DOMAIN Fields(r.groups) = DOMAIN r.groups
        /\ \A g \in DOMAIN r.groups :
              IF r.groups[g] = 0 THEN Fields(r.groups)[g] = None
              ELSE Fields(r.groups)[g].name = r.groups[g]
    BY DEF Fields
  <2>2. Valid("regex") /\ Says("regex", Fields(r.groups))
    BY <1>1, <1>3, <1>5, <2>1 DEF Valid, Says
  <2> QED BY <1>1, <1>5, <2>2, SetInv
<1> QED BY <1>2, <1>4, <1>5 DEF ReadRegex, value

LEMMA GreatestNumber ==
    ASSUME NEW n \in Nat, NEW S \in SUBSET (1..n), S # {}
    PROVE  \E p \in S : \A q \in S : q <= p
<1> DEFINE T == {n - q : q \in S}
<1>1. T \in SUBSET Nat /\ T # {}
  <2>1. ASSUME NEW q \in S PROVE n - q \in Nat
    OBVIOUS
  <2>2. PICK q \in S : TRUE
    OBVIOUS
  <2>3. n - q \in T
    BY <2>2
  <2> QED BY <2>1, <2>3
<1>2. PICK t \in T : \A u \in T : t <= u
  <2> HIDE DEF T
  <2> QED BY <1>1, LeastNumber
<1>3. PICK p \in S : t = n - p
  BY <1>2
<1>4. ASSUME NEW q \in S PROVE q <= p
  <2>1. n - p <= n - q
    BY <1>2, <1>3
  <2> QED BY <2>1
<1> QED BY <1>4

(* The properties of a key, numbered in the order of the list: which of    *)
(* them stands before another, that no two have a number in common, and    *)
(* that none is left out.                                                  *)
Before(key, k) == {m \in Of(key) : m < k}

LEMMA BeforeIsFinite ==
    ASSUME AttachTypeOK, NEW key, NEW k
    PROVE  IsFiniteSet(Before(key, k)) /\ Cardinality(Before(key, k)) \in Nat
<1>1. Before(key, k) \in SUBSET (1..Len(list)) /\ Len(list) \in Int
  BY ListIs DEF Before, Of
<1> QED BY <1>1, PartOfInterval, Zenon

LEMMA RankLess ==
    ASSUME AttachTypeOK, NEW key, NEW k \in Of(key), NEW m \in Of(key), m < k
    PROVE  Cardinality(Before(key, m)) < Cardinality(Before(key, k))
<1>1. /\ Before(key, m) \union {m} \subseteq Before(key, k)
      /\ m \notin Before(key, m)
  BY DEF Before, Of
<1>2. /\ IsFiniteSet(Before(key, m) \union {m})
      /\ Cardinality(Before(key, m) \union {m}) = Cardinality(Before(key, m)) + 1
  BY <1>1, BeforeIsFinite, FS_AddElement
<1>3. Cardinality(Before(key, m) \union {m}) <= Cardinality(Before(key, k))
  BY <1>1, BeforeIsFinite, FS_Subset, Zenon
<1> QED BY <1>2, <1>3, BeforeIsFinite

LEMMA NthIs ==
    ASSUME AttachTypeOK, NEW key, NEW n
    PROVE  /\ Nth(key, n) = {k \in Of(key) : Cardinality(Before(key, k)) = n}
           /\ \A k, m \in Nth(key, n) : k = m
<1>1. Nth(key, n) = {k \in Of(key) : Cardinality(Before(key, k)) = n}
  BY DEF Nth, Before
<1>2. ASSUME NEW k \in Nth(key, n), NEW m \in Nth(key, n) PROVE ~(m < k)
  BY <1>1, RankLess, BeforeIsFinite
<1>3. Nth(key, n) \subseteq Int
  BY <1>1 DEF Of
<1>4. ASSUME NEW k \in Nth(key, n), NEW m \in Nth(key, n) PROVE k = m
  <2>1. ~(m < k) /\ ~(k < m)
    BY <1>2
  <2> QED BY <1>3, <2>1
<1> QED BY <1>1, <1>4

LEMMA RankReached ==
    ASSUME AttachTypeOK, NEW key, NEW k \in Of(key), NEW n \in Nat,
           n <= Cardinality(Before(key, k))
    PROVE  \E m \in Nth(key, n) : m <= k
<1> DEFINE T == {m \in Of(key) : n <= Cardinality(Before(key, m))}
<1>1. T \in SUBSET Nat /\ k \in T
  BY DEF Of
<1>2. PICK m \in T : \A p \in T : m <= p
  <2> HIDE DEF T
  <2> QED BY <1>1, LeastNumber
<1>3. ASSUME n < Cardinality(Before(key, m)) PROVE FALSE
  <2>1. Before(key, m) # {} /\ Before(key, m) \in SUBSET (1..Len(list)) /\ Len(list) \in Nat
    <3>1. Before(key, m) # {}
      BY <1>3, FS_EmptySet
    <3> QED BY <3>1, ListIs DEF Before, Of
  <2>2. PICK p \in Before(key, m) : \A q \in Before(key, m) : q <= p
    BY <2>1, GreatestNumber
  <2>3. /\ Before(key, p) = Before(key, m) \ {p}
        /\ p \in Of(key) /\ p < m
    BY <2>2 DEF Before, Of
  <2>4. Cardinality(Before(key, p)) = Cardinality(Before(key, m)) - 1
    BY <2>2, <2>3, BeforeIsFinite, FS_RemoveElement
  <2>5. p \in T
    BY <1>3, <2>3, <2>4, BeforeIsFinite
  <2> QED BY <1>1, <1>2, <2>3, <2>5
<1>4. Cardinality(Before(key, m)) = n
  BY <1>2, <1>3, BeforeIsFinite
<1>5. m \in Nth(key, n) /\ m <= k
  BY <1>1, <1>2, <1>4, NthIs
<1> QED BY <1>5

LEMMA GetVIs ==
    ASSUME AttachTypeOK, NEW key, NEW n, NEW j \in Nat
    PROVE  /\ \A k \in Nth(key, n) :
                 GetV(key, n, j) = IF j < Len(list[k].values) THEN list[k].values[j + 1]
                                   ELSE None
           /\ GetV(key, n, j) # None => Nth(key, n) # {} /\ GetV(key, n, j) \in Values
<1> DEFINE found == {k \in Nth(key, n) : j + 1 <= Len(list[k].values)}
<1>1. /\ Nth(key, n) \in SUBSET Nat
      /\ \A k \in Nth(key, n) : list[k].values \in Seq(Values)
      /\ \A k, m \in Nth(key, n) : k = m
  BY ListIs, NthIs DEF Of
<1>2. GetV(key, n, j) = IF found = {} THEN None ELSE list[First(found)].values[j + 1]
  BY DEF GetV
<1>3. found # {} => First(found) \in found
  <2>1. found \in SUBSET Nat
    BY <1>1
  <2> HIDE DEF found
  <2> QED BY <2>1, FirstIs
<1>4. ASSUME NEW k \in Nth(key, n)
      PROVE  GetV(key, n, j) = IF j < Len(list[k].values) THEN list[k].values[j + 1] ELSE None
  <2>1. CASE k \in found
    <3>1. First(found) = k /\ found # {}
      BY <1>1, <1>3, <2>1
    <3>2. j < Len(list[k].values)
      BY <1>1, <2>1
    <3> QED BY <1>2, <3>1, <3>2
  <2>2. CASE k \notin found
    <3>1. found = {}
      BY <1>1, <2>2
    <3>2. ~(j < Len(list[k].values))
      BY <1>1, <2>2
    <3> QED BY <1>2, <3>1, <3>2
  <2> QED BY <2>1, <2>2
<1>5. ASSUME GetV(key, n, j) # None PROVE Nth(key, n) # {} /\ GetV(key, n, j) \in Values
  <2>1. PICK k : k = First(found) /\ k \in found
    BY <1>2, <1>3, <1>5
  <2>2. list[k].values[j + 1] \in Values
    BY <1>1, <2>1
  <2>3. GetV(key, n, j) = list[k].values[j + 1]
    BY <1>2, <2>1
  <2> QED BY <2>1, <2>2, <2>3
<1> QED BY <1>4, <1>5

(* Reading a route, the options stay as they are.                          *)
LEMMA OptionsStay ==
    ASSUME AttachInv, UNCHANGED <<list, attaching, at, options>>
    PROVE  /\ OptionsRead' /\ \A key : Valid(key)' = Valid(key)
           /\ ValidRoutes' = ValidRoutes /\ \A n : Nth("route", n)' = Nth("route", n)
<1>1. \A key : Says(key, options[key])' = Says(key, options[key]) /\ Valid(key)' = Valid(key)
  BY SameList DEF Says, Filled, FirstOf, Of, Width
<1>2. Looked' = Looked
  BY DEF Looked
<1> QED BY <1>1, <1>2, SameList DEF AttachInv, OptionsRead

(* The route at hand is the beginning of a property.                       *)
LEMMA RouteAtHand ==
    ASSUME AttachInv, NEW k \in Nth("route", Len(routes))
    PROVE  /\ Len(route) <= Len(list[k].values)
           /\ \A j \in 1..Len(route) : route[j] = list[k].values[j]
           /\ list[k].values \in Seq(Values)
<1>1. route \in Seq(Values) /\ list[k].values \in Seq(Values)
  BY ListIs DEF AttachInv, AttachTypeOK, Nth, Of
<1>2. CASE route = <<>>
  <2>1. Len(route) = 0 /\ Len(list[k].values) \in Nat
    BY <1>1, <1>2
  <2> QED BY <1>1, <2>1
<1>3. CASE route # <<>>
  <2>1. PICK m \in Nth("route", Len(routes)) :
             /\ Len(route) <= Len(list[m].values)
             /\ \A j \in 1..Len(route) : route[j] = list[m].values[j]
    BY <1>3 DEF AttachInv, RoutesRead
  <2>2. m = k
    BY NthIs DEF AttachInv
  <2> QED BY <1>1, <2>1, <2>2
<1> QED BY <1>2, <1>3

LEMMA ReadArgumentInv == ASSUME AttachInv, ReadArgument PROVE AttachInv'
<1> DEFINE n == Len(route)
           K == Nth("route", Len(routes))
<1>1. /\ AttachTypeOK /\ attaching = "eventql" /\ outcome = None /\ at = Len(Order.eventql)
      /\ NextArgument # None /\ route' = Append(route, NextArgument)
      /\ UNCHANGED <<list, attaching, at, outcome, options, routes>>
      /\ route \in Seq(Values) /\ n \in Nat
  BY DEF AttachInv, AttachTypeOK, ReadArgument, ReadingRoute
<1>2. /\ K # {} /\ NextArgument \in Values
      /\ \A k \in K : NextArgument = IF n < Len(list[k].values) THEN list[k].values[n + 1]
                                      ELSE None
  BY <1>1, GetVIs DEF NextArgument
<1>3. PICK k \in K : TRUE
  BY <1>2
<1>4. /\ n < Len(list[k].values) /\ NextArgument = list[k].values[n + 1]
      /\ \A j \in 1..n : route[j] = list[k].values[j]
      /\ list[k].values \in Seq(Values)
  BY <1>1, <1>2, <1>3, RouteAtHand
<1>5. /\ Len(route') = n + 1 /\ route' \in Seq(Values)
      /\ \A j \in 1..n : route'[j] = route[j]
      /\ route'[n + 1] = NextArgument
  BY <1>1, <1>2, AppendProperties
<1>6. Len(route') <= Len(list[k].values)
      /\ \A j \in 1..Len(route') : route'[j] = list[k].values[j]
  BY <1>1, <1>4, <1>5
<1>7. AttachTypeOK'
  BY <1>1, <1>5 DEF AttachTypeOK, Width
<1>8. RoutesRead'
  <2>1. \A m \in DOMAIN routes' :
           Len(routes'[m]) = 2 /\ \E p \in Nth("route", m - 1)' : routes'[m] = list'[p].values
    BY <1>1, OptionsStay DEF AttachInv, RoutesRead
  <2>2. k \in Nth("route", Len(routes))'
    BY <1>1, SameList
  <2> QED BY <1>1, <1>6, <2>1, <2>2 DEF RoutesRead
<1>9. Returned'
  BY <1>1, NoneAssumption DEF Returned
<1> QED BY <1>1, <1>7, <1>8, <1>9, OptionsStay DEF AttachInv

LEMMA ReadRouteInv == ASSUME AttachInv, ReadRoute PROVE AttachInv'
<1> DEFINE n == Len(route)
           K == Nth("route", Len(routes))
<1>1. /\ AttachTypeOK /\ attaching = "eventql" /\ outcome = None /\ at = Len(Order.eventql)
      /\ NextArgument = None /\ UNCHANGED <<list, attaching, at, options>>
      /\ route \in Seq(Values) /\ n \in Nat
      /\ routes \in Seq(Seq(Values)) /\ Len(routes) \in Nat /\ DOMAIN routes = 1..Len(routes)
  BY DEF AttachInv, AttachTypeOK, ReadRoute, ReadingRoute
<1>2. ASSUME NEW k \in K PROVE list[k].values = route
  <2>1. NextArgument = IF n < Len(list[k].values) THEN list[k].values[n + 1] ELSE None
    BY <1>1, GetVIs DEF NextArgument
  <2>2. /\ n <= Len(list[k].values) /\ list[k].values \in Seq(Values)
        /\ \A j \in 1..n : route[j] = list[k].values[j]
    BY RouteAtHand
  <2>3. ~(n < Len(list[k].values))
    <3>1. ASSUME NEW v \in Seq(Values), n < Len(v) PROVE v[n + 1] # None
      BY <1>1, <3>1, ValuesAssumption
    <3> QED BY <1>1, <2>1, <2>2, <3>1
  <2>4. Len(list[k].values) = n
    BY <1>1, <2>2, <2>3
  <2> HIDE DEF n
  <2> QED BY <1>1, <2>2, <2>4, SeqEqual DEF n
<1>3. \A m \in 1..Len(routes) :
         Len(routes[m]) = 2 /\ \E k \in Nth("route", m - 1) : routes[m] = list[k].values
  BY <1>1 DEF AttachInv, RoutesRead
(* A property in front of the route at hand is a route that was read.      *)
<1>4. ASSUME NEW k \in Of("route"), Cardinality(Before("route", k)) < Len(routes)
      PROVE  Len(list[k].values) = 2
  <2> DEFINE m == Cardinality(Before("route", k)) + 1
  <2>1. m \in 1..Len(routes) /\ m - 1 = Cardinality(Before("route", k))
    BY <1>1, <1>4, BeforeIsFinite
  <2>2. k \in Nth("route", m - 1)
    BY <1>1, <2>1, NthIs
  <2>3. PICK p \in Nth("route", m - 1) : routes[m] = list[p].values
    BY <1>3, <2>1
  <2>4. p = k
    BY <1>1, <2>2, <2>3, NthIs
  <2> QED BY <1>3, <2>1, <2>3, <2>4
<1>5. CASE route = <<>> /\ outcome' = "attached" /\ UNCHANGED <<route, routes>>
  <2>1. ASSUME NEW k \in Of("route"),
               \A m \in Of("route") : m <= k => list[m].values # <<>>
        PROVE  Len(list[k].values) = 2
    <3>1. CASE Cardinality(Before("route", k)) < Len(routes)
      BY <1>4, <3>1
    <3>2. CASE Len(routes) <= Cardinality(Before("route", k))
      <4>1. PICK m \in K : m <= k
        BY <1>1, <3>2, RankReached
      <4>2. m \in Of("route") /\ list[m].values = <<>>
        BY <1>2, <1>5, <4>1 DEF Nth
      <4> QED BY <2>1, <4>1, <4>2
    <3> QED BY <1>1, <3>1, <3>2, BeforeIsFinite
  <2>2. ValidRoutes
    BY <2>1 DEF ValidRoutes
  <2>3. RoutesAsListed
    BY <1>1, <1>2, <1>3, <1>5 DEF RoutesAsListed
  <2>4. AttachTypeOK'
    BY <1>1, <1>5 DEF AttachTypeOK, Width
  <2>5. RoutesAsListed' /\ RoutesRead'
    BY <1>1, <1>3, <1>5, <2>3, OptionsStay DEF RoutesAsListed, RoutesRead
  <2>6. Returned'
    <3>1. outcome' # "refused" /\ at' = Len(Order[attaching'])
      BY <1>1, <1>5
    <3> QED BY <1>1, <2>2, <2>5, <3>1, OptionsStay DEF Returned
  <2> QED BY <1>1, <2>4, <2>5, <2>6, OptionsStay DEF AttachInv
<1>6. CASE n \notin {0, 2} /\ outcome' = "refused" /\ UNCHANGED <<route, routes>>
  <2>1. route # <<>>
    BY <1>6
  <2>2. PICK k \in K : TRUE
    BY <2>1 DEF AttachInv, RoutesRead
  <2>3. /\ k \in Of("route") /\ Cardinality(Before("route", k)) = Len(routes)
        /\ list[k].values = route
    BY <1>1, <1>2, <2>2, NthIs
  <2>4. ASSUME NEW m \in Of("route"), m <= k PROVE list[m].values # <<>>
    <3>1. CASE m = k
      BY <2>1, <2>3, <3>1
    <3>2. CASE m < k
      <4>1. Len(list[m].values) = 2
        BY <1>1, <1>4, <2>3, <3>2, RankLess
      <4>2. Len(<<>>) # 2
        OBVIOUS
      <4> QED BY <4>1, <4>2, Zenon
    <3>3. m \in Int /\ k \in Int
      BY <2>3 DEF Of
    <3> QED BY <2>4, <3>1, <3>2, <3>3
  <2>5. ~ValidRoutes
    BY <1>6, <2>3, <2>4 DEF ValidRoutes
  <2>6. AttachTypeOK'
    BY <1>1, <1>6 DEF AttachTypeOK, Width
  <2>7. RoutesRead'
    <3>1. /\ Nth("route", Len(routes))' = K
          /\ \A m : Nth("route", m - 1)' = Nth("route", m - 1)
      BY <1>1, <1>6, OptionsStay
    <3>2. \E p \in K : /\ Len(route) <= Len(list[p].values)
                       /\ \A j \in 1..Len(route) : route[j] = list[p].values[j]
      BY <2>2, RouteAtHand
    <3>3. \A m \in DOMAIN routes' :
             Len(routes'[m]) = 2 /\ \E p \in Nth("route", m - 1)' : routes'[m] = list'[p].values
      BY <1>1, <1>3, <1>6, <3>1
    <3>4. \E p \in Nth("route", Len(routes))' :
             /\ Len(route') <= Len(list'[p].values)
             /\ \A j \in 1..Len(route') : route'[j] = list'[p].values[j]
      BY <1>1, <1>6, <3>1, <3>2
    <3> QED BY <1>1, <3>3, <3>4 DEF RoutesRead
  <2>8. Returned'
    BY <1>1, <1>6, <2>5, OptionsStay DEF Returned
  <2> QED BY <1>1, <2>6, <2>7, <2>8, OptionsStay DEF AttachInv
<1>7. CASE n = 2 /\ routes' = Append(routes, route) /\ route' = <<>> /\ UNCHANGED outcome
  <2>1. /\ Len(routes') = Len(routes) + 1 /\ routes' \in Seq(Seq(Values))
        /\ \A m \in 1..Len(routes) : routes'[m] = routes[m]
        /\ routes'[Len(routes) + 1] = route
        /\ DOMAIN routes' = 1..(Len(routes) + 1)
    BY <1>1, <1>7, AppendProperties
  <2>2. AttachTypeOK'
    <3>1. route' \in Seq(Values)
      BY <1>7
    <3> QED BY <1>1, <1>7, <2>1, <3>1 DEF AttachTypeOK, Width
  <2>3. PICK k \in K : route = list[k].values
    <3>1. Len(route) = 2 /\ Len(<<>>) # 2
      BY <1>7
    <3>2. route # <<>>
      BY <3>1, Zenon
    <3> QED BY <1>2, <3>2 DEF AttachInv, RoutesRead
  <2>4. ASSUME NEW m \in 1..(Len(routes) + 1)
        PROVE  Len(routes'[m]) = 2 /\ \E p \in Nth("route", m - 1) : routes'[m] = list[p].values
    <3>1. CASE m \in 1..Len(routes)
      BY <1>3, <2>1, <3>1
    <3>2. CASE m = Len(routes) + 1
      <4>1. m - 1 = Len(routes)
        BY <1>1, <3>2
      <4> QED BY <1>7, <2>1, <2>3, <3>2, <4>1
    <3> QED BY <1>1, <3>1, <3>2
  <2>5. RoutesRead'
    <3>1. \A m \in DOMAIN routes' :
             Len(routes'[m]) = 2 /\ \E p \in Nth("route", m - 1)' : routes'[m] = list'[p].values
      <4>1. list' = list /\ \A m : Nth("route", m - 1)' = Nth("route", m - 1)
        BY <1>1, OptionsStay
      <4>2. ASSUME NEW m \in DOMAIN routes'
            PROVE  /\ Len(routes'[m]) = 2
                   /\ \E p \in Nth("route", m - 1)' : routes'[m] = list'[p].values
        <5>1. m \in 1..(Len(routes) + 1)
          BY <2>1
        <5>2. Len(routes'[m]) = 2 /\ \E p \in Nth("route", m - 1) : routes'[m] = list[p].values
          BY <2>4, <5>1
        <5> QED BY <4>1, <5>2
      <4> QED BY <4>2
    <3>2. attaching' = "eventql" /\ at' = Len(Order.eventql) /\ route' = <<>>
      BY <1>1, <1>7
    <3> QED BY <3>1, <3>2 DEF RoutesRead
  <2>6. Returned'
    BY <1>1, <1>7, NoneAssumption DEF Returned
  <2> QED BY <1>1, <2>2, <2>5, <2>6, OptionsStay DEF AttachInv
<1> QED BY <1>5, <1>6, <1>7 DEF ReadRoute

LEMMA LogfileAttachedInv == ASSUME AttachInv, LogfileAttached PROVE AttachInv'
<1>1. /\ attaching = "logfile" /\ at = Len(Order[attaching]) /\ outcome' = "attached"
      /\ UNCHANGED <<list, attaching, at, options, route, routes>>
  BY DEF LogfileAttached
<1>2. route = <<>> /\ routes = <<>>
  BY <1>1 DEF AttachInv, RoutesRead
<1>3. AttachTypeOK'
  BY <1>1 DEF AttachInv, AttachTypeOK, Width
<1>4. RoutesRead'
  BY <1>1, <1>2 DEF RoutesRead
<1>5. Returned'
  <2>1. outcome' # "refused" /\ attaching' # "eventql" /\ at' = Len(Order[attaching'])
    BY <1>1
  <2> QED BY <2>1 DEF Returned
<1> QED BY <1>1, <1>3, <1>4, <1>5, OptionsStay DEF AttachInv

LEMMA AttachStutter == ASSUME AttachInv, UNCHANGED attach PROVE AttachInv'
<1>1. UNCHANGED <<list, attaching, at, outcome, options, route, routes>>
  BY DEF attach
<1>2. AttachTypeOK'
  BY <1>1 DEF AttachInv, AttachTypeOK, Width
<1>3. RoutesRead' /\ (RoutesAsListed' <=> RoutesAsListed)
  <2>1. \A n : Nth("route", n)' = Nth("route", n)
    BY <1>1, OptionsStay
  <2> QED BY <1>1, <2>1 DEF AttachInv, RoutesRead, RoutesAsListed
<1>4. Returned'
  BY <1>1, <1>3, OptionsStay DEF AttachInv, Returned
<1> QED BY <1>1, <1>2, <1>3, <1>4, OptionsStay DEF AttachInv

LEMMA AttachInvInit == AttachInit => AttachInv
<1> SUFFICES ASSUME AttachInit PROVE AttachInv
  OBVIOUS
<1>1. /\ list \in Lists /\ attaching \in DOMAIN Order /\ at = 0 /\ outcome = None
      /\ options = Default /\ route = <<>> /\ routes = <<>>
  BY DEF AttachInit, Order
<1>2. AttachTypeOK
  BY <1>1, DefaultAssumption, OrderIs DEF AttachTypeOK, Width
<1>3. OptionsRead
  BY <1>1 DEF OptionsRead, Looked
<1>4. RoutesRead
  BY <1>1 DEF RoutesRead
<1>5. Returned
  BY <1>1, NoneAssumption DEF Returned
<1> QED BY <1>2, <1>3, <1>4, <1>5 DEF AttachInv

LEMMA AttachInvHolds == AttachSpec => []AttachInv
<1>1. AttachInv /\ [AttachNext]_attach => AttachInv'
  BY ReadTextInv, ReadNumberInv, ReadRegexInv, ReadArgumentInv, ReadRouteInv,
     LogfileAttachedInv, AttachStutter
  DEF AttachNext
<1> QED BY AttachInvInit, <1>1, PTL DEF AttachSpec

(* The variables of pluginAttach have their types, for every list: a port  *)
(* fits into 16 bits, whatever std::stoul returns.                         *)
THEOREM AttachTypeCorrect == AttachSpec => []AttachTypeOK
<1>1. AttachInv => AttachTypeOK
  BY DEF AttachInv
<1> QED BY AttachInvHolds, <1>1, PTL

(* A plugin is attached with what its properties say, and refused only if  *)
(* they cannot be read, for every list: get and getv find the same         *)
(* property as whoever reads it from top to bottom (config.cc:120-178,     *)
(* eventql_plugin.cc:357-458).                                             *)
THEOREM AttachesAsListed == AttachSpec => []AttachedAsListed
<1>1. AttachInv => AttachedAsListed
  <2> SUFFICES ASSUME AttachInv PROVE AttachedAsListed
    OBVIOUS
  <2> DEFINE keys == {Order[attaching][n] : n \in DOMAIN Order[attaching]}
             valid == /\ \A key \in keys : Valid(key)
                      /\ attaching = "eventql" => ValidRoutes
  <2>1. attaching \in DOMAIN Order /\ keys \subseteq Settings
    BY OrderIs DEF AttachInv, AttachTypeOK
  <2>2. outcome = "refused" => ~valid
    BY DEF AttachInv, Returned
  <2>3. ASSUME outcome = "attached"
        PROVE  /\ valid
               /\ \A key \in Settings : IF key \in keys THEN Says(key, options[key])
                                        ELSE options[key] = Default[key]
               /\ IF attaching = "eventql" THEN RoutesAsListed ELSE routes = <<>>
    <3>1. at = Len(Order[attaching]) /\ (attaching = "eventql" => ValidRoutes /\ RoutesAsListed)
      BY <2>3 DEF AttachInv, Returned
    <3>2. Looked = keys
      BY <2>1, <3>1, OrderIs DEF Looked
    <3>3. attaching # "eventql" => routes = <<>>
      BY DEF AttachInv, RoutesRead
    <3> HIDE DEF keys
    <3>4. \A key \in Settings : IF key \in keys THEN Valid(key) /\ Says(key, options[key])
                               ELSE options[key] = Default[key]
      BY <3>2 DEF AttachInv, OptionsRead
    <3> QED BY <2>1, <3>1, <3>3, <3>4
  <2> QED BY <2>2, <2>3 DEF AttachedAsListed
<1> QED BY AttachInvHolds, <1>1, PTL

-----------------------------------------------------------------------------
(* A step that looks at the next option, of which there are so many, that  *)
(* is done with a route of the list, or that reads an argument it has.     *)
OptionLooked ==
    /\ at' = at + 1 /\ at' <= Len(Order[attaching])
    /\ UNCHANGED <<route, routes>>
RouteDone ==
    /\ Len(routes') = Len(routes) + 1 /\ Len(routes') <= Cardinality(Of("route"))
    /\ UNCHANGED at
ArgumentRead ==
    /\ Len(route') = Len(route) + 1
    /\ \E k \in Nth("route", Len(routes)) : Len(route') <= Len(list[k].values)
    /\ UNCHANGED <<at, routes>>

LEMMA RouteIsOneMore ==
    ASSUME AttachTypeOK, NEW n \in Nat, NEW k \in Nth("route", n)
    PROVE  n + 1 <= Cardinality(Of("route"))
<1>1. /\ k \in Of("route") /\ Cardinality(Before("route", k)) = n
      /\ k \notin Before("route", k) /\ Before("route", k) \union {k} \subseteq Of("route")
  <2>1. k \in Of("route") /\ Cardinality(Before("route", k)) = n
    BY NthIs
  <2> QED BY <2>1 DEF Before, Of
<1>2. IsFiniteSet(Of("route"))
  <2>1. Of("route") \in SUBSET (1..Len(list)) /\ Len(list) \in Int
    BY ListIs DEF Of
  <2> QED BY <2>1, PartOfInterval, Zenon
<1>3. Cardinality(Before("route", k) \union {k}) = Cardinality(Before("route", k)) + 1
  BY <1>1, BeforeIsFinite, FS_AddElement
<1>4. Cardinality(Before("route", k) \union {k}) <= Cardinality(Of("route"))
  BY <1>1, <1>2, FS_Subset, Zenon
<1> QED BY <1>1, <1>3, <1>4

LEMMA AttachStepGetsOn ==
    ASSUME AttachInv, AttachInv', AttachNext
    PROVE  outcome = None /\ (outcome' # None \/ OptionLooked \/ RouteDone \/ ArgumentRead)
<1>1. /\ AttachTypeOK /\ Len(Order[attaching]) \in Nat /\ at \in 0..Len(Order[attaching])
      /\ Len(routes) \in Nat
  BY OrderIs DEF AttachInv, AttachTypeOK
<1>2. ASSUME NEW value, Set(value), outcome = None, at < Len(Order[attaching])
      PROVE  OptionLooked
  BY <1>1, <1>2 DEF Set, OptionLooked
<1>3. ASSUME Refuse PROVE outcome' # None
  BY <1>3, NoneAssumption DEF Refuse
<1>4. CASE ReadText
  BY <1>2, <1>3, <1>4 DEF ReadText, Reading
<1>5. CASE ReadNumber
  BY <1>2, <1>3, <1>5 DEF ReadNumber, Reading
<1>6. CASE ReadRegex
  BY <1>2, <1>3, <1>6 DEF ReadRegex, Reading
<1>7. CASE ReadArgument
  <2>1. /\ outcome = None /\ UNCHANGED <<list, at, routes>>
        /\ NextArgument # None /\ route' = Append(route, NextArgument)
        /\ route \in Seq(Values) /\ Len(route) \in Nat
    BY <1>1, <1>7 DEF ReadArgument, ReadingRoute, AttachTypeOK
  <2>2. /\ Nth("route", Len(routes)) # {} /\ NextArgument \in Values
        /\ \A k \in Nth("route", Len(routes)) : Len(route) < Len(list[k].values)
    BY <1>1, <2>1, GetVIs DEF NextArgument
  <2>3. Len(route') = Len(route) + 1
    BY <2>1, <2>2, AppendProperties
  <2>4. PICK k \in Nth("route", Len(routes)) : Len(route) < Len(list[k].values)
    BY <2>2
  <2>5. Len(list[k].values) \in Nat
    <3>1. list[k].values \in Seq(Values)
      BY <1>1, ListIs DEF Nth, Of
    <3> QED BY <3>1
  <2>6. Len(route') <= Len(list[k].values)
    BY <2>1, <2>3, <2>4, <2>5
  <2> QED BY <2>1, <2>3, <2>6 DEF ArgumentRead
<1>8. CASE ReadRoute
  <2>1. outcome = None /\ UNCHANGED at
    BY <1>8 DEF ReadRoute, ReadingRoute
  <2>2. CASE outcome' \in {"attached", "refused"}
    BY <2>1, <2>2, NoneAssumption
  <2>3. CASE Len(route) = 2 /\ routes' = Append(routes, route)
    <3>1. Len(routes') = Len(routes) + 1
      BY <1>1, <2>3, AppendProperties DEF AttachTypeOK
    <3>2. route # <<>>
      <4>1. Len(route) = 2 /\ Len(<<>>) # 2
        BY <2>3
      <4> QED BY <4>1, Zenon
    <3>3. PICK k \in Nth("route", Len(routes)) : TRUE
      BY <3>2 DEF AttachInv, RoutesRead
    <3>4. Len(routes) + 1 <= Cardinality(Of("route"))
      BY <1>1, <3>3, RouteIsOneMore
    <3> QED BY <2>1, <3>1, <3>4 DEF RouteDone
  <2> QED BY <1>8, <2>2, <2>3 DEF ReadRoute
<1>9. CASE LogfileAttached
  BY <1>9, NoneAssumption DEF LogfileAttached
<1> QED BY <1>4, <1>5, <1>6, <1>7, <1>8, <1>9 DEF AttachNext

(* Every step of pluginAttach gets on, whatever the list: an option is     *)
(* looked at once, no more routes are read than there are, none has more   *)
(* arguments than its property has values, and after its return there is   *)
(* no step (eventql_plugin.cc:357-458, logfile.cc:389-413).                *)
THEOREM AttachGetsOn ==
    AttachSpec =>
        [][outcome = None
           /\ (outcome' # None \/ OptionLooked \/ RouteDone \/ ArgumentRead)]_attach
<1>1. AttachInv /\ AttachInv' /\ [AttachNext]_attach =>
        [outcome = None
         /\ (outcome' # None \/ OptionLooked \/ RouteDone \/ ArgumentRead)]_attach
  BY AttachStepGetsOn
<1> QED BY AttachInvHolds, <1>1, PTL DEF AttachSpec

===============================================================================
