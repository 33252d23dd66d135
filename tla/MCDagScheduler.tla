--------------------------- MODULE MCDagScheduler ---------------------------
(* Small instances of DagScheduler. *)
EXTENDS DagScheduler

CONSTANTS a, b, c, d

\* a, then b and c.
Fork == [n \in Node |-> IF n \in {b, c} THEN {a} ELSE {}]

\* a and b are independent; c needs both, d only a.
Join == [n \in Node |-> CASE n = c -> {a, b} [] n = d -> {a} [] OTHER -> {}]

\* a, then b and c; d is independent of them.
ForkBeside == [n \in Node |-> IF n \in {b, c} THEN {a} ELSE {}]

NoBranch == [n \in Node |-> {}]

NoRetry == [n \in Node |-> 0]

\* Only a and d may be retried, once each.
RetryAD == [n \in Node |-> IF n \in {a, d} THEN 1 ELSE 0]

\* a, whose conditional edges select b or c.
BranchAtA == [n \in Node |-> IF n = a THEN {b, c} ELSE {}]
=============================================================================
