---------------------------- MODULE MCDagPipeline ----------------------------
(* Small instances of DagPipeline. *)
EXTENDS DagPipeline

CONSTANTS a, b, ag

\* Independent nodes, or b after a.
Independent == [n \in Node |-> {}]
Chain == [n \in Node |-> IF n = b THEN {a} ELSE {}]

\* The nodes are assigned to one agent, or each to an agent of its own.
SameAgent == [n \in Node |-> ag]
OwnAgent == [n \in Node |-> n]

NoBranch == [n \in Node |-> {}]
NoRetry == [n \in Node |-> 0]

\* Only a may be retried.
RetryA == [n \in Node |-> IF n = a THEN 1 ELSE 0]
=============================================================================
