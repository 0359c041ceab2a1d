--------------------------- MODULE MCLogfileSource ---------------------------
(* Small instances of LogfileSource: what may happen to the log and to the *)
(* daemon, and how often.                                                  *)
EXTENDS LogfileSource

(* A log that is only appended to; two crashes, a stop, a failed checkpoint. *)
Crashes == [bytes |-> 3, created |-> 1, truncates |-> 0, errors |-> 1,
            stops |-> 1, crashes |-> 2, others |-> 0]

(* A log that is rotated, or truncated, and a stop.                        *)
Rotation == [bytes |-> 2, created |-> 2, truncates |-> 0, errors |-> 0,
             stops |-> 1, crashes |-> 0, others |-> 0]

Truncation == [bytes |-> 3, created |-> 1, truncates |-> 1, errors |-> 0,
               stops |-> 1, crashes |-> 0, others |-> 0]

(* A log that is only appended to, and two graceful stops.                 *)
Graceful == [bytes |-> 4, created |-> 1, truncates |-> 0, errors |-> 0,
             stops |-> 2, crashes |-> 0, others |-> 0]

(* A log that is rotated once while the daemon runs.                       *)
OneRotation == [bytes |-> 4, created |-> 2, truncates |-> 0, errors |-> 0,
                stops |-> 0, crashes |-> 0, others |-> 0]

(* A log that another source reads too, a stop and a crash.                *)
Shared == [bytes |-> 3, created |-> 1, truncates |-> 0, errors |-> 0,
           stops |-> 1, crashes |-> 1, others |-> 2]

MCBudgets == {Crashes, Shared, Rotation, Truncation, Graceful}
MCOneRotation == {OneRotation}
==============================================================================
