------------------------------ MODULE MCDaemon -------------------------------
(* Model values for Daemon, and beside the processes, which are single-    *)
(* threaded there, the threads of one of them, module Threads: a behaviour *)
(* is one of the one or of the other.                                      *)
EXTENDS Daemon, Threads, TLC

CONSTANTS p1, p2, p3

VARIABLE inside     \* whether this is a behaviour of Threads

(* A daemon as in README.md:146 with EventQL targets and one in the        *)
(* foreground without, both with a pidfile, and a third process: in the    *)
(* background without targets, in the foreground with targets and without  *)
(* a pidfile, or without any event, so that its run returns at once.       *)
Background == [daemonize |-> TRUE, pidfile |-> TRUE, events |-> TRUE, targets |-> TRUE]

MCOptions ==
    (p1 :> {Background})
 @@ (p2 :> {[Background EXCEPT !.daemonize = FALSE, !.targets = FALSE]})
 @@ (p3 :> {[Background EXCEPT !.targets = FALSE],
            [Background EXCEPT !.daemonize = FALSE, !.pidfile = FALSE],
            [Background EXCEPT !.events = FALSE]})

MCInit ==
    /\ inside \in BOOLEAN
    /\ Init
    /\ ThreadsInit
    /\ inside => options = [p \in Procs |-> CHOOSE o \in Options[p] : TRUE]
    /\ ~inside => setting = [background |-> FALSE, merged |-> TRUE, events |-> TRUE]

MCNext ==
    /\ IF inside THEN ThreadsNext /\ UNCHANGED vars ELSE Next /\ UNCHANGED threadVars
    /\ UNCHANGED inside

MCSpec == MCInit /\ [][MCNext]_<<inside, vars, threadVars>> /\ Fairness
==============================================================================
