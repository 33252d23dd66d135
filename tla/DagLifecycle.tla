---------------------------- MODULE DagLifecycle ----------------------------
(***************************************************************************)
(* What a DAG promises to whoever submitted it, without tasks, messages,   *)
(* watchers or budgets: a node starts only when everything it depends on   *)
(* is Completed, a terminal node keeps its status, and the end of the DAG  *)
(* is announced once, when every node is terminal.  A start that could not *)
(* be carried out may be taken back, for another attempt.                  *)
(***************************************************************************)
EXTENDS TaskGraph

VARIABLES
    status,     \* the status of each node
    announced   \* how often the end of the DAG was announced

Init == status = [n \in Node |-> "Pending"] /\ announced = 0

Start(S) ==
    /\ S # {} /\ S \subseteq ReadyTasks(status)
    /\ status' = WithStatus(status, S, "Running")
    /\ UNCHANGED announced

\* A node completes, and the nodes it makes ready start with it.
Complete(n) ==
    /\ status[n] \in {"Pending", "Running"}
    /\ LET st == WithStatus(status, {n}, "Completed")
       IN  \E S \in SUBSET ReadyTasks(st) : status' = WithStatus(st, S, "Running")
    /\ UNCHANGED announced

Fail(n) ==
    /\ status[n] = "Running"
    /\ status' = WithStatus(status, {n}, "Failed")
    /\ UNCHANGED announced

TakeBack(n) ==
    /\ status[n] = "Running"
    /\ status' = WithStatus(status, {n}, "Pending")
    /\ UNCHANGED announced

\* Pending nodes that can never start are given up.
Skip(S) ==
    /\ S # {} /\ S \subseteq InStatus(status, "Pending")
    /\ \A n \in S : \E d \in DependsOn[n] : d \in S \/ status[d] \in {"Failed", "Skipped"}
    /\ status' = WithStatus(status, S, "Skipped")
    /\ UNCHANGED announced

Announce ==
    /\ IsComplete(status) /\ announced = 0
    /\ announced' = 1
    /\ UNCHANGED status

Next ==
    \/ \E S \in SUBSET Node : Start(S) \/ Skip(S)
    \/ \E n \in Node : Complete(n) \/ Fail(n) \/ TakeBack(n)
    \/ Announce

Spec == Init /\ [][Next]_<<status, announced>>
=============================================================================
