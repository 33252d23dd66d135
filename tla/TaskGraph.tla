------------------------------ MODULE TaskGraph ------------------------------
(***************************************************************************)
(* The task graph of crates/ergatai-dag/src/dag_topology.rs, as far as     *)
(* scheduling depends on it: the nodes, their dependencies and the status  *)
(* of each node.  A graph is the function  st \in [Node -> TaskStatus];    *)
(* everything the scheduler asks of a graph is an operator on that         *)
(* function.  Names, prompts, outputs and result files are abstracted.     *)
(***************************************************************************)
EXTENDS Naturals, FiniteSets

CONSTANTS
    Node,       \* the nodes of one graph (TaskGraph.nodes)
    DependsOn   \* [Node -> SUBSET Node], TaskNode.depends_on

ASSUME GraphAssumption == DependsOn \in [Node -> SUBSET Node]

TaskStatus == {"Pending", "Running", "Completed", "Failed", "Skipped"}

Terminal == {"Completed", "Failed", "Skipped"}

InStatus(st, v) == {n \in Node : st[n] = v}

\* update_status, applied to every node of S.
WithStatus(st, S, v) == [n \in Node |-> IF n \in S THEN v ELSE st[n]]

\* The nodes that name a node of S in depends_on.
Dependents(S) == {n \in Node : DependsOn[n] \cap S # {}}

\* Mutated form of ReadyTasks: one completed dependency is enough.
ReadyTasksEarly(st) ==
    {n \in InStatus(st, "Pending") :
        DependsOn[n] = {} \/ \E d \in DependsOn[n] : st[d] = "Completed"}

\* Mutated form of ReadyTasks: a node that runs is ready again.
ReadyTasksAgain(st) ==
    {n \in InStatus(st, "Pending") \cup InStatus(st, "Running") :
        \A d \in DependsOn[n] : st[d] = "Completed"}

\* TaskGraph::ready_tasks.
ReadyTasks(st) ==
    {n \in InStatus(st, "Pending") : \A d \in DependsOn[n] : st[d] = "Completed"}

\* Mutated form of IsComplete: a node that runs does not count.
NothingPending(st) == InStatus(st, "Pending") = {}

\* TaskGraph::is_complete.
IsComplete(st) == \A n \in Node : st[n] \in Terminal

(***************************************************************************)
(* The nodes skip_downstream and skip_downstream_nodes collect: the search *)
(* starts at the seeds and goes from a node to its Pending dependents, so  *)
(* the result is the least set of Pending nodes closed under that step.    *)
(***************************************************************************)
PendingBelow(st, seeds) ==
    {n \in Node :
        \A S \in SUBSET Node :
            Dependents(seeds \cup S) \cap InStatus(st, "Pending") \subseteq S
                => n \in S}

SkipBelow(st, seeds) == WithStatus(st, PendingBelow(st, seeds), "Skipped")

\* Mutated form of SelectBranch: the rejected dependents themselves are left.
SelectBranchSparing(st, n, target) == SkipBelow(st, Dependents({n}) \ {target})

(***************************************************************************)
(* What a conditional edge does when its node completes: every direct      *)
(* dependent other than the selected target is Skipped, whatever its       *)
(* status, and so is every Pending node below one of them.                 *)
(***************************************************************************)
SelectBranch(st, n, target) ==
    LET rejected == Dependents({n}) \ {target}
    IN  SkipBelow(WithStatus(st, rejected, "Skipped"), rejected)
=============================================================================
