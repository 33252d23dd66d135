--------------------------- MODULE MCTaskScheduler ---------------------------
(* Small instances of TaskScheduler. *)
EXTENDS TaskScheduler

CONSTANTS a, b, c, ag1, ag2

\* a and b share an agent.
SharedAgent == [t \in TaskId |-> IF t = c THEN ag2 ELSE ag1]

\* b goes before a.
SomePriority == [t \in TaskId |-> IF t = b THEN 3 ELSE 2]
=============================================================================
