------------------------------ MODULE LineStream ------------------------------
(***************************************************************************)
(* What a log file source promises about a file that is only appended to:  *)
(* its complete lines are handled one after the other, each once.          *)
(* LogfileSource implements this module as long as nothing crashes.        *)
(***************************************************************************)
EXTENDS Naturals, Sequences

CONSTANTS
    Byte,       \* the bytes of a file
    Newline     \* the one that ends a line

VARIABLES
    written,    \* the content of the file
    position    \* how much of it has been handled

streamVars == <<written, position>>

Init ==
    /\ written = <<>>
    /\ position = 0

Write ==
    /\ \E b \in Byte : written' = Append(written, b)
    /\ UNCHANGED position

HandleLine ==
    /\ position' \in (position + 1)..Len(written)
    /\ written[position'] = Newline
    /\ \A i \in (position + 1)..(position' - 1) : written[i] # Newline
    /\ UNCHANGED written

Next == Write \/ HandleLine

Spec == Init /\ [][Next]_streamVars
==============================================================================
