--------------------------- MODULE MCEventQLTarget ---------------------------
(* Small instances of EventQLTarget.                                       *)
EXTENDS EventQLTarget

(* Two events, of which one is routed twice, and the other to an invalid   *)
(* target after a valid one; the last route comes after the invalid one.   *)
MCEventNames == {"alive", "access"}

MCRoutes == <<[match |-> "alive", target |-> "db/a"],
              [match |-> "access", target |-> "db/b"],
              [match |-> "access", target |-> "bad"],
              [match |-> "alive", target |-> "db/c"],
              [match |-> "access", target |-> "db/d"]>>
==============================================================================
