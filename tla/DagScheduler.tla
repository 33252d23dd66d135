---------------------------- MODULE DagScheduler ----------------------------
(***************************************************************************)
(* The DAG scheduler of crates/ergatai-collab/src/dag_scheduler.           *)
(*                                                                         *)
(* One DagScheduler value is shared by several tokio tasks: the JetStream  *)
(* event listener, the caller of submit_graph, one idle watcher per        *)
(* submitted node, the stall watcher, the DAG timeout watcher and the      *)
(* caller of cancel_remaining_nodes.  They interleave at every await.  One *)
(* action is one hold of the graph mutex, or one operation on an atomic,   *)
(* or one publication; a task keeps its local variables in task[t].        *)
(*                                                                         *)
(* NATS, the task scheduler and the agents are the environment: a          *)
(* published node is an outstanding execution, and an execution ends in a  *)
(* node_complete or a node_failed message, delivered at least once.        *)
(***************************************************************************)
EXTENDS TaskGraph

CONSTANTS
    MaxRetries,      \* [Node -> Nat], TaskNode.max_retries
    Targets,         \* [Node -> SUBSET Node], what conditional_edges may select
    Conditional,     \* the nodes that carry a condition expression
    MaxAgentCalls,   \* TaskGraph.max_agent_calls
    HasDagTimeout,   \* TaskGraph.timeout is set
    HasStallTimeout, \* TaskGraph.stall_timeout_secs is set
    Cancellable,     \* cancel_remaining_nodes may be called (once)
    Watcher,         \* bound: idle watchers that may run on_node_failed at once
    MaxFaults,       \* bound: submissions and saves that fail
    MaxRedeliveries  \* bound: messages delivered again after their handler

Listener == "listener"
Submitter == "submitter"
DagTimer == "dag_timer"
StallTimer == "stall_timer"
Canceller == "canceller"

Task == {Listener, Submitter, DagTimer, StallTimer, Canceller} \cup Watcher

ASSUME SchedulerAssumption ==
    /\ MaxRetries \in [Node -> Nat]
    /\ Targets \in [Node -> SUBSET Node]
    /\ Conditional \subseteq Node
    /\ MaxAgentCalls \in Nat /\ MaxFaults \in Nat /\ MaxRedeliveries \in Nat
    /\ {HasDagTimeout, HasStallTimeout, Cancellable} \subseteq BOOLEAN
    /\ Watcher \cap {Listener, Submitter, DagTimer, StallTimer, Canceller} = {}

VARIABLES
    status,         \* graph.nodes[n].status
    retries,        \* graph.nodes[n].retry_count
    result,         \* the nodes with a result_path
    agentCalls,     \* agent_call_count
    finalized,      \* the finalized gate
    published,      \* DagComplete messages published
    deadlinePassed, \* the clock is past deadline
    stale,          \* the clock is past last_progress + stall_timeout_secs
    armed,          \* the nodes with a handle in timeout_watchers
    stray,          \* idle watchers whose handle was replaced in the map
    dispatched,     \* task_submit messages published for a node
    outstanding,    \* executions of a node that have not ended
    completions,    \* node_complete messages in the stream
    failures,       \* node_failed messages in the stream
    task,           \* the local state of each tokio task
    faults, redeliveries

graphVars == <<status, retries, result>>
watchVars == <<armed, stray>>
busVars == <<dispatched, outstanding, completions, failures>>
gateVars == <<finalized, published>>
clockVars == <<deadlinePassed, stale>>
boundVars == <<faults, redeliveries>>
vars == <<graphVars, watchVars, busVars, gateVars, clockVars, boundVars,
          agentCalls, task>>

-----------------------------------------------------------------------------
(* The local state of a task. *)

Pc == {"off", "idle", "claim", "complete", "next", "peek", "consume", "publish", "running",
       "suberr", "scan", "mark", "save", "gate", "check", "ungate",
       "fail", "failing", "confirm", "backoff", "victims", "ack", "nak"}

Op == {"none", "submit", "completed", "failed", "cancel"}

Frame == [pc : Pc, op : Op,
          event : Node \cup {"none"},          \* the node of the message
          late : BOOLEAN,                      \* what on_node_completed read of the deadline
          node : Node \cup {"none"},           \* the node being submitted or failed
          todo : SUBSET Node,                  \* claimed nodes still to submit
          skip : SUBSET Node,                  \* what skip_downstream collected
          victims : SUBSET (Node \X TaskStatus),
          err : {"none", "transient", "permanent"},
          after : {"return", "suberr"}]        \* where finalize_if_terminal returns

Resting(pc) == [pc |-> pc, op |-> "none", event |-> "none", late |-> FALSE, node |-> "none",
                todo |-> {}, skip |-> {}, victims |-> {}, err |-> "none", after |-> "return"]

Step(t, frame) == task' = [task EXCEPT ![t] = frame]
Goto(t, pc) == Step(t, [task[t] EXCEPT !.pc = pc])

At(t, pc) == task[t].pc = pc

\* The handler t runs returns: the listener acknowledges the message or not, a
\* DAG-level watcher goes on with its next node, the other tasks end.
Returned(t, frame) ==
    IF t = Listener THEN [frame EXCEPT !.pc = IF frame.err = "none" THEN "ack" ELSE "nak"]
    ELSE IF t \in {DagTimer, StallTimer} THEN [frame EXCEPT !.pc = "victims", !.err = "none"]
    ELSE Resting(IF t \in Watcher THEN "idle" ELSE "off")

Return(t, frame) == Step(t, Returned(t, frame))

\* Enter finalize_if_terminal, to go on at pc.
Finalize(t, frame, pc) == Step(t, [frame EXCEPT !.pc = "gate", !.after = pc])

Init ==
    /\ status = [n \in Node |-> "Pending"]
    /\ retries = [n \in Node |-> 0]
    /\ result = {}
    /\ agentCalls = 0
    /\ finalized = FALSE /\ published = 0
    /\ deadlinePassed = FALSE /\ stale = FALSE
    /\ armed = {} /\ stray = [n \in Node |-> 0]
    /\ dispatched = [n \in Node |-> 0]
    /\ outstanding = [n \in Node |-> 0]
    /\ completions = [n \in Node |-> 0]
    /\ failures = [n \in Node |-> 0]
    /\ task = [t \in Task |->
                 Resting(IF t \in {DagTimer, StallTimer} \/ (t = Canceller /\ ~Cancellable)
                         THEN "off" ELSE "idle")]
    /\ faults = 0 /\ redeliveries = 0

-----------------------------------------------------------------------------
(* The guards on shared state. *)

BudgetExhausted == agentCalls >= MaxAgentCalls

\* Mutated form of CompletionIsLate: only a second completion is late.
CompletionIsRepeated(n) == status[n] = "Completed"

\* on_node_completed ignores a message for such a node.
CompletionIsLate(n) == status[n] \in Terminal

\* What on_node_completed claims in the graph it leaves: nothing when the
\* deadline had passed as it began.
ClaimedBy(t, st) == IF task[t].late THEN {} ELSE ReadyTasks(st)

\* on_node_failed handles the failure of such a node, and of no other.
FailureIsClaimed(n) == status[n] = "Running"

MayRetry(n) == retries[n] < MaxRetries[n]

-----------------------------------------------------------------------------
(* submit_graph.                                                             *)

\* It checks the deadline and arms the DAG-level watchers.
SubmitGraph(t) ==
    /\ t = Submitter /\ At(t, "idle")
    /\ IF deadlinePassed
       THEN Step(t, Resting("off"))
       ELSE task' = [u \in Task |->
              IF u = t THEN [task[t] EXCEPT !.pc = "claim", !.op = "submit"]
              ELSE IF (u = DagTimer /\ HasDagTimeout) \/ (u = StallTimer /\ HasStallTimeout)
              THEN Resting("idle") ELSE task[u]]
    /\ UNCHANGED <<graphVars, watchVars, busVars, gateVars, clockVars, agentCalls, boundVars>>

\* It has waited for the consumer of the task scheduler and claims the ready
\* nodes.  One whose condition does not hold is Skipped with what depends on it.
ClaimReady(t) ==
    /\ t = Submitter /\ At(t, "claim")
    /\ \E unmet \in SUBSET (ReadyTasks(status) \cap Conditional) :
         LET claimed == ReadyTasks(status) \ unmet
         IN  /\ status' = WithStatus(SkipBelow(WithStatus(status, unmet, "Skipped"), unmet),
                                     claimed, "Running")
             /\ Step(t, [task[t] EXCEPT !.pc = "next", !.todo = claimed])
    /\ stale' = FALSE
    /\ UNCHANGED <<retries, result, watchVars, busVars, gateVars, deadlinePassed,
                   agentCalls, boundVars>>

-----------------------------------------------------------------------------
(* on_node_completed.                                                        *)

\* The deadline is read once, before the graph is locked.
OnNodeCompleted(t, n) ==
    /\ t = Listener /\ At(t, "idle")
    /\ completions[n] > 0
    /\ Step(t, [task[t] EXCEPT !.pc = "complete", !.op = "completed", !.event = n,
                               !.late = deadlinePassed])
    /\ UNCHANGED <<graphVars, watchVars, busVars, gateVars, clockVars, agentCalls, boundVars>>

(***************************************************************************)
(* The lock hold.  A terminal node ignores the message; any other one      *)
(* becomes Completed, even one that waits for its retry, and the ready     *)
(* nodes are claimed in the same lock hold.                                *)
(***************************************************************************)
CompleteNode(t) ==
    LET n == task[t].event
    IN  /\ t = Listener /\ At(t, "complete")
        /\ armed' = armed \ {n}
        /\ stale' = FALSE
        /\ IF CompletionIsLate(n)
           THEN Goto(t, "ack") /\ UNCHANGED <<status, result>>
           ELSE \E st \in IF Targets[n] = {}
                          THEN {WithStatus(status, {n}, "Completed")}
                          ELSE {SelectBranch(WithStatus(status, {n}, "Completed"), n, target) :
                                   target \in Targets[n]} :
                  /\ status' = WithStatus(st, ClaimedBy(t, st), "Running")
                  /\ result' = result \cup {n}
                  /\ Step(t, [task[t] EXCEPT !.pc = "next", !.todo = ClaimedBy(t, st)])
        /\ UNCHANGED <<retries, stray, busVars, gateVars, deadlinePassed, agentCalls, boundVars>>

-----------------------------------------------------------------------------
(* The submission of claimed nodes, one at a time, and of a retried node. *)

\* The submission loop is over.
SubmittedAll(t) ==
    /\ At(t, "next") /\ task[t].todo = {}
    /\ Goto(t, "save")
    /\ UNCHANGED <<graphVars, watchVars, busVars, gateVars, clockVars, agentCalls, boundVars>>

\* Mutated form of Peek: the deadline was looked at when the node was claimed.
PeekBudgetOnly(t, n) ==
    /\ \/ At(t, "next") /\ n \in task[t].todo
       \/ At(t, "peek") /\ n = task[t].node
    /\ LET frame == IF At(t, "next")
                    THEN [task[t] EXCEPT !.node = n, !.todo = @ \ {n}]
                    ELSE task[t]
       IN  IF BudgetExhausted
           THEN Finalize(t, [frame EXCEPT !.err = "permanent"], "suberr")
           ELSE Step(t, [frame EXCEPT !.pc = "consume"])
    /\ UNCHANGED <<graphVars, watchVars, busVars, gateVars, clockVars, agentCalls, boundVars>>

\* generate_and_submit refuses before it reserves anything: the deadline has
\* passed, or check_budget, which only reads, finds the budget exhausted.
Peek(t, n) ==
    /\ \/ At(t, "next") /\ n \in task[t].todo
       \/ At(t, "peek") /\ n = task[t].node
    /\ LET frame == IF At(t, "next")
                    THEN [task[t] EXCEPT !.node = n, !.todo = @ \ {n}]
                    ELSE task[t]
       IN  IF deadlinePassed \/ BudgetExhausted
           THEN Finalize(t, [frame EXCEPT !.err = "permanent"], "suberr")
           ELSE Step(t, [frame EXCEPT !.pc = "consume"])
    /\ UNCHANGED <<graphVars, watchVars, busVars, gateVars, clockVars, agentCalls, boundVars>>

\* Mutated form of TryConsumeBudget: the peek is trusted.
TryConsumeBudgetUnchecked(t) ==
    /\ At(t, "consume")
    /\ agentCalls' = agentCalls + 1
    /\ Goto(t, "publish")
    /\ UNCHANGED <<graphVars, watchVars, busVars, gateVars, clockVars, boundVars>>

\* try_consume_budget, the compare-and-exchange that reserves an agent call.
TryConsumeBudget(t) ==
    /\ At(t, "consume")
    /\ IF BudgetExhausted
       THEN /\ Finalize(t, [task[t] EXCEPT !.err = "permanent"], "suberr")
            /\ UNCHANGED agentCalls
       ELSE /\ agentCalls' = agentCalls + 1
            /\ Goto(t, "publish")
    /\ UNCHANGED <<graphVars, watchVars, busVars, gateVars, clockVars, boundVars>>

\* validate_agent_profile fails before the reservation, the plan file or the
\* publication fails after it: a transient error either way.
SubmissionFault(t) ==
    /\ At(t, "consume") \/ At(t, "publish")
    /\ faults < MaxFaults
    /\ faults' = faults + 1
    /\ Step(t, [task[t] EXCEPT !.pc = "suberr", !.err = "transient"])
    /\ UNCHANGED <<graphVars, watchVars, busVars, gateVars, clockVars, agentCalls, redeliveries>>

\* publish_task_submit, then spawn_timeout_watcher; a handle already in the map
\* is replaced without being aborted, and its watcher runs on.
PublishTaskSubmit(t) ==
    LET n == task[t].node
    IN  /\ At(t, "publish")
        /\ dispatched' = [dispatched EXCEPT ![n] = @ + 1]
        /\ outstanding' = [outstanding EXCEPT ![n] = @ + 1]
        /\ armed' = armed \cup {n}
        /\ stray' = [stray EXCEPT ![n] = IF n \in armed THEN @ + 1 ELSE @]
        /\ Goto(t, IF task[t].op = "failed" THEN "running" ELSE "next")
        /\ UNCHANGED <<graphVars, completions, failures, gateVars, clockVars, agentCalls, boundVars>>

\* Mutated form of SubmissionError: a permanent error does not reach what
\* depends on the node.
SubmissionErrorStopsHere(t) ==
    LET n == task[t].node
        giveUp == task[t].op = "failed" \/ task[t].err = "permanent"
    IN  /\ At(t, "suberr")
        /\ status' = WithStatus(status, {n}, IF giveUp THEN "Failed" ELSE "Pending")
        /\ Step(t, [task[t] EXCEPT !.pc = "next", !.err = "none"])
        /\ UNCHANGED <<retries, result, watchVars, busVars, gateVars, clockVars, agentCalls, boundVars>>

\* Mutated form of SubmissionError: a transient error skips what depends on the
\* node although the node goes back to Pending.
SubmissionErrorSkipsAlways(t) ==
    LET n == task[t].node
        giveUp == task[t].op = "failed" \/ task[t].err = "permanent"
    IN  /\ At(t, "suberr")
        /\ status' = WithStatus(status, {n}, IF giveUp THEN "Failed" ELSE "Pending")
        /\ Step(t, [task[t] EXCEPT !.pc = "scan", !.err = "none"])
        /\ UNCHANGED <<retries, result, watchVars, busVars, gateVars, clockVars, agentCalls, boundVars>>

(***************************************************************************)
(* A submission that failed.  handle_submission_error puts the node back   *)
(* to Pending after a transient error and fails it after a permanent one;  *)
(* on_node_failed fails a node whose retry was refused, whatever the error.*)
(***************************************************************************)
SubmissionError(t) ==
    LET n == task[t].node
        giveUp == task[t].op = "failed" \/ task[t].err = "permanent"
    IN  /\ At(t, "suberr")
        /\ status' = WithStatus(status, {n}, IF giveUp THEN "Failed" ELSE "Pending")
        /\ Step(t, [task[t] EXCEPT !.pc = IF giveUp THEN "scan" ELSE "next", !.err = "none"])
        /\ UNCHANGED <<retries, result, watchVars, busVars, gateVars, clockVars, agentCalls, boundVars>>

-----------------------------------------------------------------------------
(* skip_downstream: collect under one lock hold, skip under the next. *)

CollectDownstream(t) ==
    /\ At(t, "scan")
    /\ Step(t, [task[t] EXCEPT !.pc = "mark",
                               !.skip = PendingBelow(status, {task[t].node})])
    /\ UNCHANGED <<graphVars, watchVars, busVars, gateVars, clockVars, agentCalls, boundVars>>

SkipCollected(t) ==
    LET frame == [task[t] EXCEPT !.skip = {}]
    IN  /\ At(t, "mark")
        /\ status' = WithStatus(status, task[t].skip \cap InStatus(status, "Pending"), "Skipped")
        /\ Step(t, [frame EXCEPT !.pc = IF task[t].op = "failed" THEN "save" ELSE "next"])
        /\ UNCHANGED <<retries, result, watchVars, busVars, gateVars, clockVars, agentCalls, boundVars>>

-----------------------------------------------------------------------------
(* on_node_failed. *)

\* The entry: past the deadline the node is not touched, an error is returned.
OnNodeFailed(t, n) ==
    /\ \/ t = Listener /\ At(t, "idle") /\ failures[n] > 0
       \/ At(t, "fail") /\ n = task[t].node
    /\ LET frame == [task[t] EXCEPT !.op = "failed", !.node = n,
                                   !.event = IF t = Listener THEN n ELSE @]
       IN  IF deadlinePassed
           THEN Finalize(t, [frame EXCEPT !.err = "permanent"], "return")
           ELSE Step(t, [frame EXCEPT !.pc = "failing"])
    /\ UNCHANGED <<graphVars, watchVars, busVars, gateVars, clockVars, agentCalls, boundVars>>

(***************************************************************************)
(* The lock hold.  A node that is not Running is not touched.  A Running   *)
(* one goes back to Pending and waits for the end of its backoff, or, its  *)
(* retries exhausted, becomes Failed.                                      *)
(***************************************************************************)
ClaimFailure(t) ==
    LET n == task[t].node
    IN  /\ At(t, "failing")
        /\ armed' = armed \ {n}
        /\ stale' = FALSE
        /\ IF ~FailureIsClaimed(n)
           THEN Return(t, task[t]) /\ UNCHANGED <<status, retries>>
           ELSE IF MayRetry(n)
           THEN /\ retries' = [retries EXCEPT ![n] = @ + 1]
                /\ status' = WithStatus(status, {n}, "Pending")
                /\ Goto(t, "backoff")
           ELSE /\ status' = WithStatus(status, {n}, "Failed")
                /\ Goto(t, "confirm")
                /\ UNCHANGED retries
        /\ UNCHANGED <<result, stray, busVars, gateVars, deadlinePassed, agentCalls, boundVars>>

\* The status is set to Failed a second time, under a lock hold of its own.
ConfirmFailed(t) ==
    /\ At(t, "confirm")
    /\ status' = WithStatus(status, {task[t].node}, "Failed")
    /\ Goto(t, "scan")
    /\ UNCHANGED <<retries, result, watchVars, busVars, gateVars, clockVars, agentCalls, boundVars>>

\* The backoff is over; the node is submitted again unless it left Pending.
RetryAfterBackoff(t) ==
    /\ At(t, "backoff")
    /\ IF status[task[t].node] = "Pending" THEN Goto(t, "peek") ELSE Return(t, task[t])
    /\ UNCHANGED <<graphVars, watchVars, busVars, gateVars, clockVars, agentCalls, boundVars>>

\* The retry was submitted: the node is marked Running, whatever it is by now.
MarkRetryRunning(t) ==
    /\ At(t, "running")
    /\ status' = WithStatus(status, {task[t].node}, "Running")
    /\ Return(t, task[t])
    /\ UNCHANGED <<retries, result, watchVars, busVars, gateVars, clockVars, agentCalls, boundVars>>

-----------------------------------------------------------------------------
(* save_graph_unlocked.  Every handler saves the graph before it finalizes;  *)
(* submit_graph saves it and returns.  An error is returned at once.         *)

SaveGraph(t) ==
    /\ At(t, "save")
    /\ IF task[t].op = "submit" THEN Return(t, task[t])
                                ELSE Finalize(t, task[t], "return")
    /\ UNCHANGED <<graphVars, watchVars, busVars, gateVars, clockVars, agentCalls, boundVars>>

SaveFault(t) ==
    /\ At(t, "save")
    /\ faults < MaxFaults
    /\ faults' = faults + 1
    /\ Return(t, [task[t] EXCEPT !.err = "transient"])
    /\ UNCHANGED <<graphVars, watchVars, busVars, gateVars, clockVars, agentCalls, redeliveries>>

-----------------------------------------------------------------------------
(* finalize_if_terminal: swap the gate, inspect the graph, then publish the  *)
(* end of the DAG or release the gate.                                       *)

Finalized(t) == IF task[t].after = "suberr" THEN [task[t] EXCEPT !.pc = "suberr"]
                                             ELSE Returned(t, task[t])

\* Mutated form of SwapFinalized: the gate is read here and only set by the
\* task that publishes.
LoadFinalized(t) ==
    /\ At(t, "gate")
    /\ IF finalized THEN Step(t, Finalized(t)) ELSE Goto(t, "check")
    /\ UNCHANGED <<graphVars, watchVars, busVars, gateVars, clockVars, agentCalls, boundVars>>

SwapFinalized(t) ==
    /\ At(t, "gate")
    /\ finalized' = TRUE
    /\ IF finalized THEN Step(t, Finalized(t)) ELSE Goto(t, "check")
    /\ UNCHANGED <<graphVars, watchVars, busVars, published, clockVars, agentCalls, boundVars>>

\* The graph is complete: DagComplete is published and the DAG-level watchers,
\* t itself among them, are aborted.
PublishDagComplete(t) ==
    /\ At(t, "check") /\ IsComplete(status)
    /\ published' = published + 1
    /\ task' = [u \in Task |-> IF u \in {DagTimer, StallTimer} THEN Resting("off")
                               ELSE IF u = t THEN Finalized(t) ELSE task[u]]
    /\ UNCHANGED <<graphVars, watchVars, busVars, finalized, clockVars, agentCalls, boundVars>>

NotTerminal(t) ==
    /\ At(t, "check") /\ ~IsComplete(status)
    /\ Goto(t, "ungate")
    /\ UNCHANGED <<graphVars, watchVars, busVars, gateVars, clockVars, agentCalls, boundVars>>

\* Mutated form of ReleaseGate: the gate stays closed.
KeepGate(t) ==
    /\ At(t, "ungate")
    /\ Step(t, Finalized(t))
    /\ UNCHANGED <<graphVars, watchVars, busVars, gateVars, clockVars, agentCalls, boundVars>>

ReleaseGate(t) ==
    /\ At(t, "ungate")
    /\ finalized' = FALSE
    /\ Step(t, Finalized(t))
    /\ UNCHANGED <<graphVars, watchVars, busVars, published, clockVars, agentCalls, boundVars>>

-----------------------------------------------------------------------------
(* The watchers.  Each polls once a second and ends when it reads finalized. *)

\* A watcher finds the agent of its node idle for too long.  It takes the handle
\* of the node out of the map, its own or its successor's, which then runs on
\* unregistered, and calls on_node_failed.
IdleTimeout(t, n) ==
    /\ t \in Watcher /\ At(t, "idle")
    /\ ~finalized
    /\ \/ n \in armed /\ armed' = armed \ {n} /\ UNCHANGED stray
       \/ /\ stray[n] > 0 /\ armed' = armed \ {n}
          /\ stray' = [stray EXCEPT ![n] = IF n \in armed THEN @ ELSE @ - 1]
    /\ Step(t, [Resting("fail") EXCEPT !.op = "failed", !.node = n])
    /\ UNCHANGED <<graphVars, busVars, gateVars, clockVars, agentCalls, boundVars>>

\* A watcher polls while finalized reads TRUE, and ends.  Its handle stays in
\* the map, which no longer stands for a running watcher.
WatcherExits(n) ==
    /\ finalized
    /\ \/ n \in armed /\ armed' = armed \ {n} /\ UNCHANGED stray
       \/ stray[n] > 0 /\ stray' = [stray EXCEPT ![n] = @ - 1] /\ UNCHANGED armed
    /\ UNCHANGED <<graphVars, busVars, gateVars, clockVars, agentCalls, boundVars, task>>

TimerExits(t) ==
    /\ t \in {DagTimer, StallTimer} /\ At(t, "idle")
    /\ finalized
    /\ Step(t, Resting("off"))
    /\ UNCHANGED <<graphVars, watchVars, busVars, gateVars, clockVars, agentCalls, boundVars>>

\* The nodes in one of the statuses of S, each with its status.
Snapshot(S) == {<<n, status[n]>> : n \in {m \in Node : status[m] \in S}}

\* The DAG timeout elapses: fail_all_remaining_nodes begins.
DagTimeout(t) ==
    /\ t = DagTimer /\ At(t, "idle")
    /\ deadlinePassed /\ ~finalized
    /\ Step(t, [task[t] EXCEPT !.pc = "victims", !.victims = Snapshot({"Pending", "Running"})])
    /\ UNCHANGED <<graphVars, watchVars, busVars, gateVars, clockVars, agentCalls, boundVars>>

\* The stall watcher polls.  With no node Running or Pending it finalizes; with
\* no progress for stall_timeout_secs it fails the Running nodes or, when there
\* are none, the Pending ones, and in each case it polls no more.
StallPoll(t) ==
    /\ t = StallTimer /\ At(t, "idle")
    /\ ~finalized
    /\ IF IsComplete(status)
       THEN Finalize(t, task[t], "return")
       ELSE /\ stale
            /\ Step(t, [task[t] EXCEPT !.pc = "victims",
                          !.victims = Snapshot(IF InStatus(status, "Running") # {}
                                               THEN {"Running"} ELSE {"Pending"})])
    /\ UNCHANGED <<graphVars, watchVars, busVars, gateVars, clockVars, agentCalls, boundVars>>

\* cancel_timeout_watcher and, for a node seen Running, cancel_running_task,
\* which stops the executions that the task scheduler has already launched.
CancelExecution(v) ==
    /\ armed' = armed \ {v[1]}
    /\ IF v[2] = "Running"
       THEN \E left \in 0..outstanding[v[1]] :
              outstanding' = [outstanding EXCEPT ![v[1]] = left]
       ELSE UNCHANGED outstanding

\* One node of the snapshot: on_node_failed, after a cancellation when the
\* caller is fail_all_remaining_nodes.
FailNextVictim(t, v) ==
    /\ At(t, "victims") /\ v \in task[t].victims
    /\ t \in {DagTimer, StallTimer}
    /\ IF t = DagTimer THEN CancelExecution(v) ELSE UNCHANGED <<armed, outstanding>>
    /\ Step(t, [task[t] EXCEPT !.pc = "fail", !.node = v[1], !.victims = @ \ {v}])
    /\ UNCHANGED <<graphVars, stray, dispatched, completions, failures, gateVars, clockVars,
                   agentCalls, boundVars>>

\* The snapshot is handled.  fail_all_remaining_nodes skips the Pending nodes.
VictimsFailed(t) ==
    /\ At(t, "victims") /\ task[t].victims = {}
    /\ t \in {DagTimer, StallTimer}
    /\ status' = IF t = DagTimer
                 THEN WithStatus(status, InStatus(status, "Pending"), "Skipped")
                 ELSE status
    /\ Step(t, Resting("off"))
    /\ UNCHANGED <<retries, result, watchVars, busVars, gateVars, clockVars, agentCalls, boundVars>>

-----------------------------------------------------------------------------
(* cancel_remaining_nodes. *)

Cancel(t) ==
    /\ t = Canceller /\ At(t, "idle")
    /\ Step(t, [task[t] EXCEPT !.pc = "victims", !.op = "cancel",
                               !.victims = Snapshot({"Pending", "Running"})])
    /\ UNCHANGED <<graphVars, watchVars, busVars, gateVars, clockVars, agentCalls, boundVars>>

CancelNextVictim(t, v) ==
    /\ t = Canceller /\ At(t, "victims") /\ v \in task[t].victims
    /\ CancelExecution(v)
    /\ Step(t, [task[t] EXCEPT !.victims = @ \ {v}])
    /\ UNCHANGED <<graphVars, stray, dispatched, completions, failures, gateVars, clockVars,
                   agentCalls, boundVars>>

\* Mutated form of CancelStatuses: the status the snapshot found is trusted and
\* a node that was claimed since is left Running.
CancelPendingOnly(t) ==
    /\ t = Canceller /\ At(t, "victims") /\ task[t].victims = {}
    /\ status' = WithStatus(status, InStatus(status, "Pending"), "Skipped")
    /\ Goto(t, "save")
    /\ UNCHANGED <<retries, result, watchVars, busVars, gateVars, clockVars, agentCalls, boundVars>>

CancelStatuses(t) ==
    /\ t = Canceller /\ At(t, "victims") /\ task[t].victims = {}
    /\ status' = WithStatus(WithStatus(status, InStatus(status, "Running"), "Failed"),
                            InStatus(status, "Pending"), "Skipped")
    /\ Goto(t, "save")
    /\ UNCHANGED <<retries, result, watchVars, busVars, gateVars, clockVars, agentCalls, boundVars>>

-----------------------------------------------------------------------------
(* handle_dag_event acknowledges what its handler did. *)

Consume(n) ==
    IF task[Listener].op = "completed"
    THEN completions' = [completions EXCEPT ![n] = @ - 1] /\ UNCHANGED failures
    ELSE failures' = [failures EXCEPT ![n] = @ - 1] /\ UNCHANGED completions

Acknowledge(t) ==
    /\ t = Listener /\ At(t, "ack")
    /\ Consume(task[t].event)
    /\ Step(t, Resting("idle"))
    /\ UNCHANGED <<graphVars, watchVars, dispatched, outstanding, gateVars, clockVars,
                   agentCalls, boundVars>>

\* The message comes again: it was not acknowledged, or not within ack_wait.
Redelivery(t) ==
    /\ t = Listener /\ (At(t, "ack") \/ At(t, "nak"))
    /\ redeliveries < MaxRedeliveries
    /\ redeliveries' = redeliveries + 1
    /\ Step(t, Resting("idle"))
    /\ UNCHANGED <<graphVars, watchVars, busVars, gateVars, clockVars, agentCalls, faults>>

\* A message that is never acknowledged is dropped after max_deliver attempts.
DeliveriesExhausted(t) ==
    /\ t = Listener /\ At(t, "nak")
    /\ Consume(task[t].event)
    /\ Step(t, Resting("idle"))
    /\ UNCHANGED <<graphVars, watchVars, dispatched, outstanding, gateVars, clockVars,
                   agentCalls, boundVars>>

-----------------------------------------------------------------------------
(* The environment. *)

ExecutionCompletes(n) ==
    /\ outstanding[n] > 0
    /\ outstanding' = [outstanding EXCEPT ![n] = @ - 1]
    /\ completions' = [completions EXCEPT ![n] = @ + 1]
    /\ UNCHANGED <<graphVars, watchVars, dispatched, failures, gateVars, clockVars,
                   agentCalls, boundVars, task>>

ExecutionFails(n) ==
    /\ outstanding[n] > 0
    /\ outstanding' = [outstanding EXCEPT ![n] = @ - 1]
    /\ failures' = [failures EXCEPT ![n] = @ + 1]
    /\ UNCHANGED <<graphVars, watchVars, dispatched, completions, gateVars, clockVars,
                   agentCalls, boundVars, task>>

DeadlinePasses ==
    /\ HasDagTimeout /\ ~deadlinePassed
    /\ deadlinePassed' = TRUE
    /\ UNCHANGED <<graphVars, watchVars, busVars, gateVars, stale, agentCalls, boundVars, task>>

ProgressGoesStale ==
    /\ HasStallTimeout /\ ~stale
    /\ stale' = TRUE
    /\ UNCHANGED <<graphVars, watchVars, busVars, gateVars, deadlinePassed, agentCalls, boundVars, task>>

-----------------------------------------------------------------------------
\* The steps of a handler that call nothing of the task scheduler.
LocalStep(t) ==
    \/ ClaimReady(t) \/ SubmittedAll(t)
    \/ \E n \in Node : Peek(t, n) \/ OnNodeFailed(t, n)
    \/ TryConsumeBudget(t) \/ SubmissionFault(t)
    \/ CollectDownstream(t) \/ SkipCollected(t)
    \/ ConfirmFailed(t) \/ RetryAfterBackoff(t) \/ MarkRetryRunning(t)
    \/ SaveGraph(t) \/ SaveFault(t)
    \/ SwapFinalized(t) \/ PublishDagComplete(t) \/ NotTerminal(t) \/ ReleaseGate(t)
    \/ VictimsFailed(t) \/ CancelStatuses(t)
    \/ Acknowledge(t) \/ Redelivery(t) \/ DeliveriesExhausted(t)

\* The steps a task takes on its own once its handler has begun.
HandlerStep(t) ==
    \/ LocalStep(t)
    \/ CompleteNode(t) \/ ClaimFailure(t)
    \/ PublishTaskSubmit(t) \/ SubmissionError(t)
    \/ \E v \in Node \X TaskStatus : FailNextVictim(t, v) \/ CancelNextVictim(t, v)

\* The steps that begin a handler, or end a task that waits.
HandlerStart(t) ==
    \/ SubmitGraph(t)
    \/ \E n \in Node : OnNodeCompleted(t, n) \/ IdleTimeout(t, n)
    \/ DagTimeout(t) \/ StallPoll(t) \/ TimerExits(t) \/ Cancel(t)

Environment ==
    \/ \E n \in Node : ExecutionCompletes(n) \/ ExecutionFails(n) \/ WatcherExits(n)
    \/ DeadlinePasses \/ ProgressGoesStale

Next == Environment \/ \E t \in Task : HandlerStart(t) \/ HandlerStep(t)

Spec == Init /\ [][Next]_vars

(***************************************************************************)
(* What the runtime guarantees: a spawned tokio task is scheduled again    *)
(* and again, the JetStream consumer delivers what is in the stream, and   *)
(* an execution ends.  Nothing obliges a watcher to fire.                  *)
(***************************************************************************)
Fairness ==
    /\ \A t \in Task : WF_vars(HandlerStep(t))
    /\ WF_vars(SubmitGraph(Submitter))
    /\ WF_vars(\E n \in Node : OnNodeCompleted(Listener, n) \/ OnNodeFailed(Listener, n))
    /\ \A n \in Node : WF_vars(ExecutionCompletes(n) \/ ExecutionFails(n))

FairSpec == Spec /\ Fairness

-----------------------------------------------------------------------------
(* Correctness. *)

TypeOK ==
    /\ status \in [Node -> TaskStatus]
    /\ retries \in [Node -> Nat] /\ \A n \in Node : retries[n] <= MaxRetries[n]
    /\ result \subseteq Node
    /\ agentCalls \in Nat /\ published \in Nat
    /\ finalized \in BOOLEAN /\ deadlinePassed \in BOOLEAN /\ stale \in BOOLEAN
    /\ armed \subseteq Node /\ stray \in [Node -> Nat]
    /\ dispatched \in [Node -> Nat] /\ outstanding \in [Node -> Nat]
    /\ completions \in [Node -> Nat] /\ failures \in [Node -> Nat]
    /\ task \in [Task -> Frame]
    /\ faults \in 0..MaxFaults /\ redeliveries \in 0..MaxRedeliveries

\* The agent-call budget of a DAG is never exceeded, although any number of
\* tasks may stand between check_budget, which only reads, and the reservation.
BudgetRespected == agentCalls <= MaxAgentCalls

\* A node is only ever sent to an agent once each of its dependencies has
\* delivered a result, whatever late, repeated or reordered message arrived.
DispatchedInOrder == \A n \in Node : dispatched[n] > 0 => DependsOn[n] \subseteq result

\* However many tasks reach finalize_if_terminal, the end of the DAG is
\* published at most once.
DagCompleteOnce == published <= 1

\* A node is executed once, and once more for each retry it was granted:
\* on_node_failed re-checks the status after its backoff for this reason.
NoDoubleExecution == \A n \in Node : dispatched[n] <= 1 + retries[n]

\* No task is inside a handler.
HandlersAtRest == \A t \in Task : task[t].pc \in {"off", "idle"}

\* The failure of a node reaches everything below it: with no handler under
\* way, no Pending node depends on a Failed or a Skipped one.
FailureReachesDependents ==
    HandlersAtRest
        => \A n \in InStatus(status, "Pending") : \A d \in DependsOn[n] :
              status[d] \notin {"Failed", "Skipped"}

\* Of the nodes that conditional edges choose between at most one is ever
\* claimed, even when the choice is made again by the completion of a retry.
OneBranchRuns ==
    \A n \in Node : Targets[n] # {} =>
        Cardinality({m \in Dependents({n}) : \/ dispatched[m] > 0
                                             \/ status[m] \notin {"Pending", "Skipped"}}) <= 1

\* Once the end of the DAG is published no node is sent to an agent any more.
NoDispatchAfterComplete == [][published = 1 => dispatched' = dispatched]_vars

\* A node that reached a terminal status keeps it, whichever of the watchers,
\* the listener and the canceller brought it there.
TerminalIsFinal ==
    [][\A n \in Node : status[n] \in Terminal => status'[n] = status[n]]_vars

\* The tasks that passed the checks of generate_and_submit.
Submitting == {t \in Task : task[t].pc \in {"consume", "publish"}}

\* The deadline is read when a handler begins, and a node may be claimed or
\* granted its retry on a reading that is out of date.  It is not submitted for
\* all that: once the deadline has passed no further task gets to submit.
NothingSubmittedLate == [][deadlinePassed => Submitting' \subseteq Submitting]_vars

\* After cancel_remaining_nodes, once the handlers it raced with have returned,
\* every node is terminal: none was left Pending or revived.
CancelSettles ==
    (Cancellable /\ At(Canceller, "off") /\ HandlersAtRest) => IsComplete(status)

\* The scheduler keeps what a DAG promises: terminal statuses are final, nodes
\* start in order, skips have a cause and the end is announced once.
Lifecycle == INSTANCE DagLifecycle WITH announced <- published
ImplementsLifecycle == Lifecycle!Spec

\* A submitted DAG comes to its end, which is announced.
EventuallyFinalized == <>(published = 1)
=============================================================================
