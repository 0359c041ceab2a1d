----------------------------- MODULE BoundedFifo -----------------------------
(***************************************************************************)
(* What the queue between the service thread and the upload thread of the  *)
(* EventQL plugin promises: every accepted event is handed out once, in    *)
(* the order of acceptance, and at most Capacity accepted events are       *)
(* outstanding.  EventQLTarget implements this module.                     *)
(***************************************************************************)
EXTENDS Naturals, Sequences

CONSTANTS
    Item,       \* what the queue carries
    Capacity    \* how many accepted items may be outstanding

VARIABLES
    accepted,   \* every item ever accepted, in order
    taken       \* every item ever handed out, in order

fifoVars == <<accepted, taken>>

Init ==
    /\ accepted = <<>>
    /\ taken = <<>>

Accept ==
    /\ Len(accepted) - Len(taken) < Capacity
    /\ \E item \in Item : accepted' = Append(accepted, item)
    /\ UNCHANGED taken

Take ==
    /\ Len(taken) < Len(accepted)
    /\ taken' = Append(taken, accepted[Len(taken) + 1])
    /\ UNCHANGED accepted

Next == Accept \/ Take

Spec == Init /\ [][Next]_fifoVars
==============================================================================
