-------------------------------- MODULE Config --------------------------------
(***************************************************************************)
(* The configuration lexer and parser (config.cc), on a text: ConfigLexer  *)
(* hands out one token at a time, ConfigParser asks for the next one and   *)
(* fills a ProcessConfig.  loadConfig does not call them yet.              *)
(*                                                                         *)
(* A text is a sequence of pieces.  A piece is one character or a run of   *)
(* letters or digits that is never looked into: a keyword, another word or *)
(* a number.  "LF" and "CR" are one character each; the double quote also  *)
(* stands for the single one, which opens and closes a string as well.     *)
(***************************************************************************)
EXTENDS Integers, Sequences, FiniteSets

CONSTANTS
    Texts           \* the texts to be parsed

Keyword == {"event", "source", "output", "plugin"}
Word == Keyword \union {"interval", "w"}
Number == {"number"}
Newline == {"LF", "CR"}
Delimiter == {"quote", "slash"}
Piece == Word \union Number \union Newline \union Delimiter
              \union {"space", "hash", "star", "backslash", "percent"}

ASSUME TextsAssumption == Texts \subseteq Seq(Piece)

VARIABLES
    text,       \* input_
    token,      \* currentToken_ with stringValue_, and where the lexer is
    pc,         \* where the parser is, or the caller that wants tokens only
    plugins,    \* load_plugins
    path,       \* the path pluginDecl has read
    event,      \* the EventConfig eventDecl fills in
    source,     \* the EventSourceConfig it fills in
    target,     \* the TargetConfig outputDecl fills in
    events,     \* event_bindings
    targets,    \* target_bindings
    lexed       \* ghost: all tokens so far

lexer == <<token, lexed>>
result == <<plugins, events, targets>>
decls == <<path, event, source, target>>
vars == <<text, lexer, pc, result, decls>>

(* The character under the lexer: before the first nextChar it is a NUL,   *)
(* which is neither space nor printable and skipped like a space.          *)
Size == Len(text)
At(i) == IF i = 0 THEN "space" ELSE IF i <= Size THEN text[i] ELSE "EOF"

(* The first position from i on that is in S, or the end of the text.      *)
FirstAfter(i, S) == CHOOSE k \in i..(Size + 1) :
    (k > Size \/ k \in S) /\ \A j \in i..(k - 1) : j \notin S

LineEnds == {k \in 1..Size : At(k) \in Newline}
CommentEnds == {k \in 1..Size : At(k) = "star" /\ At(k + 1) = "slash"}
WordEnds == {k \in 1..Size : At(k) \notin Word \union Number}
Closing(i) == {k \in 1..Size : At(k) = At(i) /\ At(k - 1) # "backslash"}

(* A loop that goes from each position to the next, until it stays.        *)
Repeat(next) ==
    LET last[i \in DOMAIN next] == IF next[i] = i THEN i ELSE last[next[i]]
    IN  last

(* A comment left between its star and its slash.                          *)
AfterBlankToStar(i) ==
    LET k == FirstAfter(i + 1, CommentEnds)
    IN  CASE At(i) = "space" -> i + 1
          [] At(i) = "hash" -> FirstAfter(i, LineEnds)
          [] At(i) = "slash" /\ At(i + 1) = "star" -> IF k > Size THEN k ELSE k + 1
          [] OTHER -> i

(* Behind the blank or the comment at i, if there is one.                  *)
AfterBlank(i) ==
    LET k == FirstAfter(i + 1, CommentEnds)
    IN  CASE At(i) = "space" -> i + 1
          [] At(i) = "hash" -> FirstAfter(i, LineEnds)
          [] At(i) = "slash" /\ At(i + 1) = "star" -> IF k > Size THEN k ELSE k + 2
          [] OTHER -> i

(* consumeSpace: where the next token starts, or the end of the text.      *)
SkipSpace == Repeat([i \in 0..(Size + 1) |-> AfterBlank(i)])

(* Behind the end of a line at i.  A carriage return that ends the text is *)
(* peeked past, which leaves the stream at its end.                        *)
AfterNewline(i) ==
    CASE At(i) = "LF" -> i + 1
      [] At(i) = "CR" /\ At(i + 1) = "LF" -> i + 2
      [] At(i) = "CR" /\ i = Size -> i + 1
      [] OTHER -> i

(* consumeEndOfLine.                                                       *)
SkipNewlines == Repeat([i \in 0..(Size + 1) |-> AfterNewline(i)])

(* A token is the part of the text from one position up to another.        *)
Lexeme(kind, from, to) == [kind |-> kind, from |-> from, to |-> to]

(* parseName and parseValue.  A keyword must be the whole run.             *)
ParseWord(i) ==
    LET k == FirstAfter(i, WordEnds)
        kind == IF At(i) \in Number THEN "Value"
                ELSE IF At(i) \in Keyword /\ k = i + 1 THEN At(i) ELSE "Name"
    IN  Lexeme(kind, i, k)

(* A string that ends with the text taken for one that is closed.          *)
ParseStringUnclosed(i) ==
    LET k == FirstAfter(i + 1, Closing(i))
    IN  Lexeme("Value", i, k + 1)

(* parseString, also for a regular expression: up to the delimiter, unless *)
(* a backslash comes before it.                                            *)
ParseString(i) ==
    LET k == FirstAfter(i + 1, Closing(i))
    IN  IF k > Size THEN Lexeme("Unknown", i, k) ELSE Lexeme("Value", i, k + 1)

(* nextToken, behind the blanks.  It does not move past a character that   *)
(* starts no token.                                                        *)
TokenAt == [i \in 1..(Size + 1) |->
    CASE i > Size -> Lexeme("Eof", i, i)
      [] At(i) = "LF" \/ (At(i) = "CR" /\ At(i + 1) = "LF") ->
            Lexeme("End", i, SkipNewlines[i])
      [] At(i) \in Word \union Number -> ParseWord(i)
      [] At(i) \in Delimiter -> ParseString(i)
      [] OTHER -> Lexeme("Unknown", i, SkipNewlines[i])]

(* nextToken, from where the lexer is.                                     *)
Lex(pos) == TokenAt[SkipSpace[pos]]

StringOf(t) ==
    IF At(t.from) \in Delimiter THEN SubSeq(text, t.from + 1, t.to - 2)
    ELSE SubSeq(text, t.from, t.to - 1)
StringValue == StringOf(token)

NoEvent == [name |-> <<>>, interval |-> FALSE, sources |-> <<>>]
NoSource == [name |-> <<>>, value |-> <<>>, properties |-> 0]
NoTarget == [value |-> <<>>, name |-> <<>>]

(* The constructor of the lexer reads the first token.                     *)
Init ==
    /\ text \in Texts
    /\ token = Lex(0)
    /\ lexed = <<token>>
    /\ pc \in {"goal", "tokens"}
    /\ plugins = <<>>
    /\ events = <<>>
    /\ targets = <<>>
    /\ path = <<>>
    /\ event = NoEvent
    /\ source = NoSource
    /\ target = NoTarget

NextToken ==
    /\ token' = Lex(token.to)
    /\ lexed' = Append(lexed, token')

(* consumeName, consumeValue, consumePath and consumeEndOfLine.            *)
Consume(kinds, label) ==
    /\ token.kind \in kinds
    /\ NextToken
    /\ pc' = label

Failure ==
    /\ pc' = "error"
    /\ UNCHANGED <<text, lexer, result, decls>>

(* A caller of the lexer other than the parser, which reads one token      *)
(* after the other.  The program has none: this stands for its tests, and  *)
(* it is what gets to the end of every text.                               *)
ReadToken ==
    /\ pc = "tokens"
    /\ IF token.kind \in {"Eof", "Unknown"} THEN pc' = "end" /\ UNCHANGED lexer
       ELSE NextToken /\ UNCHANGED pc
    /\ UNCHANGED <<text, result, decls>>

-----------------------------------------------------------------------------
(* goal: plugins first, then events and outputs.  The cases of the switch  *)
(* fall through: an event is always followed by outputDecl, and that by an *)
(* error, so that the loop never goes round.                               *)

PluginKeyword ==
    /\ pc = "goal"
    /\ Consume({"plugin"}, "pluginPath")
    /\ UNCHANGED <<text, result, decls>>

PluginPath ==
    /\ pc = "pluginPath"
    /\ Consume({"Name", "Value"}, "pluginEnd")
    /\ path' = StringValue
    /\ UNCHANGED <<text, result, event, source, target>>

PluginEnd ==
    /\ pc = "pluginEnd"
    /\ Consume({"End"}, "goal")
    /\ plugins' = Append(plugins, path)
    /\ UNCHANGED <<text, events, targets, decls>>

EventKeyword ==
    /\ pc = "goal"
    /\ Consume({"event"}, "eventName")
    /\ event' = NoEvent
    /\ UNCHANGED <<text, result, path, source, target>>

EventName ==
    /\ pc = "eventName"
    /\ Consume({"Name"}, "eventProperties")
    /\ event' = [event EXCEPT !.name = StringValue]
    /\ UNCHANGED <<text, result, path, source, target>>

(* A property list that looks at the name of a property for ever.          *)
EventPropertyStays ==
    /\ pc = "eventProperties"
    /\ token.kind = "Name"
    /\ event' = [event EXCEPT !.interval = @ \/ StringValue = <<"interval">>]
    /\ UNCHANGED <<text, lexer, pc, result, path, source, target>>

(* propertyList, and what applyEventProperties makes of it.  The token     *)
(* that is the name of a property is consumed as its value.                *)
EventProperty ==
    /\ pc = "eventProperties"
    /\ Consume({"Name"}, "eventProperties")
    /\ event' = [event EXCEPT !.interval = @ \/ StringValue = <<"interval">>]
    /\ UNCHANGED <<text, result, path, source, target>>

EventEnd ==
    /\ pc = "eventProperties"
    /\ Consume({"End"}, "sources")
    /\ UNCHANGED <<text, result, decls>>

SourceKeyword ==
    /\ pc = "sources"
    /\ Consume({"source"}, "sourceName")
    /\ source' = NoSource
    /\ UNCHANGED <<text, result, path, event, target>>

SourceName ==
    /\ pc = "sourceName"
    /\ Consume({"Name"}, "sourceValue")
    /\ source' = [source EXCEPT !.name = StringValue]
    /\ UNCHANGED <<text, result, path, event, target>>

SourceValue ==
    /\ pc = "sourceValue"
    /\ Consume({"Name", "Value"}, "sourceProperties")
    /\ source' = [source EXCEPT !.value = StringValue]
    /\ UNCHANGED <<text, result, path, event, target>>

SourceProperty ==
    /\ pc = "sourceProperties"
    /\ Consume({"Name"}, "sourceProperties")
    /\ source' = [source EXCEPT !.properties = @ + 1]
    /\ UNCHANGED <<text, result, path, event, target>>

(* A source that takes the place of the one before.                        *)
SourceEndReplaces ==
    /\ pc = "sourceProperties"
    /\ token.kind # "Name"
    /\ event' = [event EXCEPT !.sources = <<source>>]
    /\ pc' = "sources"
    /\ UNCHANGED <<text, lexer, result, path, source, target>>

(* The end of the line is left for the caller of eventDecl.                *)
SourceEnd ==
    /\ pc = "sourceProperties"
    /\ token.kind # "Name"
    /\ event' = [event EXCEPT !.sources = Append(@, source)]
    /\ pc' = "sources"
    /\ UNCHANGED <<text, lexer, result, path, source, target>>

(* eventDecl has returned.  outputDecl skips the token at hand, whatever   *)
(* it is.                                                                  *)
EventDone ==
    /\ pc = "sources"
    /\ token.kind # "source"
    /\ events' = Append(events, event)
    /\ target' = NoTarget
    /\ NextToken
    /\ pc' = "outputName"
    /\ UNCHANGED <<text, plugins, targets, path, event, source>>

OutputKeyword ==
    /\ pc = "goal"
    /\ Consume({"output"}, "outputName")
    /\ target' = NoTarget
    /\ UNCHANGED <<text, result, path, event, source>>

(* consumeToken, which is to consume the keyword "plugin", does nothing.   *)
OutputName ==
    /\ pc = "outputName"
    /\ Consume({"Name"}, "outputPath")
    /\ target' = [target EXCEPT !.value = StringValue]
    /\ UNCHANGED <<text, result, path, event, source>>

OutputPath ==
    /\ pc = "outputPath"
    /\ Consume({"Name", "Value"}, "outputEnd")
    /\ target' = [target EXCEPT !.name = StringValue]
    /\ UNCHANGED <<text, result, path, event, source>>

(* outputDecl returns into the default case, which is an error.            *)
OutputEnd ==
    /\ pc = "outputEnd"
    /\ Consume({"End"}, "error")
    /\ targets' = Append(targets, target)
    /\ UNCHANGED <<text, plugins, events, decls>>

(* The token at hand is none of those the parser goes on with.             *)
Expected ==
    [goal |-> {"plugin", "event", "output"},
     pluginPath |-> {"Name", "Value"}, pluginEnd |-> {"End"},
     eventName |-> {"Name"}, eventProperties |-> {"Name", "End"},
     sourceName |-> {"Name"}, sourceValue |-> {"Name", "Value"},
     outputName |-> {"Name"}, outputPath |-> {"Name", "Value"},
     outputEnd |-> {"End"}]

UnexpectedToken ==
    /\ pc \in DOMAIN Expected
    /\ token.kind \notin Expected[pc]
    /\ pc' = "error"
    /\ UNCHANGED <<text, lexer, result, decls>>

PluginDecl == PluginKeyword \/ PluginPath \/ PluginEnd
EventDecl ==
    \/ EventKeyword \/ EventName \/ EventProperty \/ EventEnd
    \/ SourceKeyword \/ SourceName \/ SourceValue \/ SourceProperty \/ SourceEnd
    \/ EventDone
OutputDecl == OutputKeyword \/ OutputName \/ OutputPath \/ OutputEnd

Next == ReadToken \/ PluginDecl \/ EventDecl \/ OutputDecl \/ UnexpectedToken

Spec == Init /\ [][Next]_vars

(* The parser and the caller that reads tokens are loops of one thread.    *)
FairSpec == Spec /\ WF_vars(Next)

-----------------------------------------------------------------------------
(* Every variable has its type.                                            *)
Kind == Keyword \union {"Eof", "End", "Name", "Value", "Unknown"}
Source == [name : Seq(Piece), value : Seq(Piece), properties : Nat]
Event == [name : Seq(Piece), interval : BOOLEAN, sources : Seq(Source)]
Target == [value : Seq(Piece), name : Seq(Piece)]

TypeOK ==
    /\ text \in Seq(Piece)
    /\ token.kind \in Kind
    /\ token.from \in 0..(Size + 1) /\ token.to \in token.from..(Size + 1)
    /\ pc \in {"tokens", "end", "error", "sources", "sourceProperties"}
              \union DOMAIN Expected
    /\ plugins \in Seq(Seq(Piece)) /\ path \in Seq(Piece)
    /\ event \in Event /\ source \in Source /\ target \in Target
    /\ events \in Seq(Event) /\ targets \in Seq(Target)

(* A comment, from i up to j: to the end of the line, or to the first star *)
(* and slash behind its beginning, or as far as the text goes.             *)
Comment(i, j) ==
    \/ /\ At(i) = "hash"
       /\ At(j) \in Newline \union {"EOF"}
       /\ \A k \in i..(j - 1) : k \notin LineEnds
    \/ /\ At(i) = "slash" /\ At(i + 1) = "star"
       /\ \A k \in (i + 1)..(j - 3) : k \notin CommentEnds
       /\ At(j) = "EOF" \/ (j > i + 2 /\ j - 2 \in CommentEnds)

(* What may stand between two tokens: blanks and comments, one behind the  *)
(* other, that begin at the positions in S.                                *)
Ignorable(from, to) ==
    \E S \in SUBSET (from..to) :
        /\ {from, to} \subseteq S
        /\ \A i \in S \ {to} : \E j \in S :
              i < j /\ ((At(i) = "space" /\ j = i + 1) \/ Comment(i, j))

(* What config-syntax.md allows as a token of a kind, and the lexer:       *)
(* numbers, and a delimiter inside a string behind a backslash.  A word is *)
(* whole if it does not go on behind the token.  No token is empty.        *)
Grammar(kind, run, whole) ==
    /\ kind \notin {"Eof", "Unknown"} => run # <<>>
    /\ kind = "End" => \A k \in 1..Len(run) : run[k] \in Newline
    /\ kind \in Keyword => run = <<kind>> /\ whole
    /\ kind = "Name" =>
          run[1] \in Word /\ whole /\ \A k \in 1..Len(run) : run[k] \in Word \union Number
    /\ kind = "Value" =>
          \/ run[1] \in Number /\ whole
          \/ /\ run[1] \in Delimiter /\ Len(run) > 1 /\ run[Len(run)] = run[1]
             /\ \A k \in 2..(Len(run) - 1) : run[k] = run[1] => run[k - 1] = "backslash"
    /\ kind \in {"Eof", "Unknown"} => run = <<>> \/ run[1] \in Delimiter \union {"CR"}

WellFormed(t) ==
    /\ t.kind = "Eof" <=> t.from > Size
    /\ Grammar(t.kind, SubSeq(text, t.from, t.to - 1), At(t.to) \notin Word \union Number)

(* The tokens are the text: each is what the grammar calls by that name,   *)
(* as long as it can be, the last one at the end of the text and no other, *)
(* and before and between them there are only blanks and comments, so that *)
(* no character is lost or read twice.                                     *)
TokensAreText ==
    \A n \in 1..Len(lexed) :
        /\ WellFormed(lexed[n])
        /\ Ignorable(IF n = 1 THEN 0 ELSE lexed[n - 1].to, lexed[n].from)

(* The declaration of a plugin: a keyword, a path and the end of the line. *)
PluginAt(n) ==
    /\ lexed[n].kind = "plugin"
    /\ lexed[n + 1].kind \in {"Name", "Value"}
    /\ lexed[n + 2].kind = "End"

NameOf(t) == SubSeq(text, t.from, t.to - 1)

(* The end of the first line from the n-th token on.                       *)
LineEnd(n, end) ==
    /\ end \in n..Len(lexed) /\ lexed[end].kind = "End"
    /\ \A m \in n..(end - 1) : lexed[m].kind # "End"

(* The tokens that declarations of sources are made of if they follow each *)
(* other behind the token at start, on one line; and where these begin.    *)
PartOfSource(start, n) ==
    \/ lexed[n].kind = "source"
    \/ lexed[n].kind = "Name" /\ n > start + 1
    \/ lexed[n].kind = "Value" /\ n > start + 2 /\ lexed[n - 2].kind = "source"
SourcesBehind(start) ==
    {n \in (start + 1)..Len(lexed) :
        lexed[n].kind = "source" /\ \A m \in (start + 1)..n : PartOfSource(start, m)}

(* The sources are those that are declared at the positions in S.          *)
DeclaredAt(S, sources) ==
    /\ Len(sources) = Cardinality(S)
    /\ \A n \in S :
          LET declared == sources[Cardinality({m \in S : m <= n})]
          IN  /\ declared.name = NameOf(lexed[n + 1])
              /\ declared.value = StringOf(lexed[n + 2])

(* What the parser keeps is what was declared.  It keeps the paths of the  *)
(* plugins whose declarations are complete, and none for a declaration it  *)
(* fails in; and it keeps an event under its name, with exactly the        *)
(* sources that are declared on the one line behind it, one directly       *)
(* behind the other, in that order.  These are not all the sources that    *)
(* belong to the event: config-syntax.md:10 has each of them on a line of  *)
(* its own, and of those the code keeps the first one and no other.        *)
KeptAsDeclared ==
    LET first == 3 * Len(plugins) + 1
    IN  /\ \A n \in 1..Len(plugins) :
              PluginAt(3 * n - 2) /\ plugins[n] = StringOf(lexed[3 * n - 1])
        /\ pc = "error" /\ Len(lexed) > first + 1 => ~PluginAt(first)
        /\ \A e \in 1..Len(events) :
              /\ events[e].name = NameOf(lexed[first + 1])
              /\ \E end \in first..Len(lexed) :
                    /\ LineEnd(first, end)
                    /\ DeclaredAt(SourcesBehind(end), events[e].sources)

(* Whatever the text, the parser returns, and so far it always returns an  *)
(* error; a caller that reads tokens until the end or an unknown one gets  *)
(* there.                                                                  *)
ParseReturns == <>(pc \in {"error", "end"})
===============================================================================
