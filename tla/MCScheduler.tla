----------------------------- MODULE MCScheduler -----------------------------
(* Small instances of Scheduler and Backpressure: a fast event and slower  *)
(* ones, so that ticks coincide and differ; two targets with short queues. *)
EXTENDS Backpressure, TLC

CONSTANTS e1, e2, e3, t1, t2

MCEvents == {e1, e2, e3}
MCInterval == (e1 :> 1) @@ (e2 :> 2) @@ (e3 :> 2)

MCPlatforms == {"linux", "darwin"}

MCTargets == {t1, t2}
MCCapacity == (t1 :> 1) @@ (t2 :> 1)

(* Nothing, or an event for both targets that matches two routes of the    *)
(* first one, which is more than its queue holds.                          *)
MCDeliveries == {<<>>, <<t1, t1, t2>>}

MCTwoEvents == {e1, e2}
MCTwoIntervals == (e1 :> 1) @@ (e2 :> 2)
==============================================================================
