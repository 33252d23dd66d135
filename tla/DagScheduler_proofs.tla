------------------------ MODULE DagScheduler_proofs ------------------------
(***************************************************************************)
(* Proofs about DagScheduler, for every graph, every number of idle        *)
(* watchers and every bound: type correctness, the agent-call budget, the  *)
(* single announcement of the end, and dispatch in dependency order.       *)
(***************************************************************************)
EXTENDS DagScheduler, TLAPS

-----------------------------------------------------------------------------
(* Frames and statuses. *)

\* Resting yields a frame.
LEMMA RestingType == ASSUME NEW pc \in Pc PROVE Resting(pc) \in Frame
BY DEF Resting, Frame, Op

\* A frame stays a frame when its program counter moves.
LEMMA PcType == ASSUME NEW f \in Frame, NEW pc \in Pc PROVE [f EXCEPT !.pc = pc] \in Frame
BY DEF Frame

\* What a handler returns with is a frame.
LEMMA ReturnedType == ASSUME NEW t \in Task, NEW f \in Frame PROVE Returned(t, f) \in Frame
<1>1. /\ [f EXCEPT !.pc = "ack"] \in Frame
      /\ [f EXCEPT !.pc = "nak"] \in Frame
      /\ [f EXCEPT !.pc = "victims", !.err = "none"] \in Frame
  BY ZenonT(60) DEF Frame, Pc
<1>2. Resting("idle") \in Frame /\ Resting("off") \in Frame
  BY RestingType DEF Pc
<1>3. QED
  BY <1>1, <1>2 DEF Returned

\* finalize_if_terminal comes back with a frame.
LEMMA FinalizedType ==
  ASSUME task \in [Task -> Frame], NEW t \in Task
  PROVE  Finalized(t) \in Frame
<1>1. task[t] \in Frame
  OBVIOUS
<1>2. [task[t] EXCEPT !.pc = "suberr"] \in Frame
  BY <1>1, PcType DEF Pc
<1>3. QED
  BY <1>1, <1>2, ReturnedType DEF Finalized

\* update_status keeps a graph a graph.
LEMMA WithStatusType ==
  ASSUME NEW st \in [Node -> TaskStatus], NEW S, NEW v \in TaskStatus
  PROVE  WithStatus(st, S, v) \in [Node -> TaskStatus]
BY DEF WithStatus

\* So does skipping what lies below a set of nodes.
LEMMA SkipBelowType ==
  ASSUME NEW st \in [Node -> TaskStatus], NEW S
  PROVE  SkipBelow(st, S) \in [Node -> TaskStatus]
BY WithStatusType DEF SkipBelow, TaskStatus

\* So does the choice of a branch.
LEMMA SelectBranchType ==
  ASSUME NEW st \in [Node -> TaskStatus], NEW n, NEW target
  PROVE  SelectBranch(st, n, target) \in [Node -> TaskStatus]
BY WithStatusType, SkipBelowType DEF SelectBranch, TaskStatus

-----------------------------------------------------------------------------
(***************************************************************************)
(* Type correctness.  Acknowledge takes the message of the event it        *)
(* handled out of the stream, so the counters stay in Nat only because the *)
(* listener's message is in the stream as long as its handler runs.        *)
(***************************************************************************)
MessageInStream(f) ==
    \/ f.op = "completed" /\ f.event \in Node /\ completions[f.event] > 0
    \/ f.op = "failed" /\ f.event \in Node /\ failures[f.event] > 0

ListenerFrame(f) ==
    /\ f.pc \notin {"off", "fail", "victims"}
    /\ f.pc = "idle" \/ MessageInStream(f)

\* A task that is about to submit a node knows which.
Named(f) == f.pc \in {"failing", "backoff", "peek", "consume", "publish"} => f.node \in Node

TasksOK ==
    /\ task \in [Task -> Frame]
    /\ ListenerFrame(task[Listener])
    /\ \A u \in Task : Named(task[u])

TypeInv == TypeOK /\ TasksOK

\* What a step of t that only moves its own frame has to show.
LEMMA FrameStep ==
  ASSUME TypeInv, NEW t \in Task, NEW f \in Frame, Step(t, f), Named(f),
         t = Listener => ListenerFrame(f),
         UNCHANGED <<completions, failures>>
  PROVE  TasksOK'
BY DEF TypeInv, TasksOK, Step, ListenerFrame, MessageInStream, Named, Task

\* The type invariant follows when the task frames do and nothing else moved.
LEMMA OnlyTask ==
  ASSUME TypeInv, TasksOK',
         UNCHANGED <<graphVars, watchVars, busVars, gateVars, clockVars, agentCalls, boundVars>>
  PROVE  TypeInv'
BY DEF TypeInv, TypeOK, TasksOK, graphVars, watchVars, busVars, gateVars, clockVars, boundVars

\* A handler under way that keeps its message keeps the tasks well formed.
LEMMA HandlerGoes ==
  ASSUME TypeInv, NEW t \in Task, ~At(t, "idle"), NEW f \in Frame, Step(t, f), Named(f),
         f.op = task[t].op, f.event = task[t].event,
         f.pc \notin {"off", "fail", "victims"} \/ t # Listener,
         UNCHANGED <<completions, failures>>
  PROVE  TasksOK'
<1>1. t = Listener => ListenerFrame(f)
  BY DEF TypeInv, TasksOK, ListenerFrame, MessageInStream, At
<1>2. QED
  BY <1>1, FrameStep

\* So does one that returns.
LEMMA HandlerReturns ==
  ASSUME TypeInv, NEW t \in Task, ~At(t, "idle"), NEW f \in Frame, Step(t, Returned(t, f)),
         f.op = task[t].op, f.event = task[t].event,
         UNCHANGED <<completions, failures>>
  PROVE  TasksOK'
<1>1. Returned(t, f) \in Frame
  BY ReturnedType
<1>2. t = Listener => ListenerFrame(Returned(t, f))
  BY DEF TypeInv, TasksOK, ListenerFrame, MessageInStream, At, Returned, Frame
<1>3. Named(Returned(t, f))
  BY DEF Named, Returned, Resting, Frame
<1>4. QED
  BY <1>1, <1>2, <1>3, FrameStep

\* So does one that enters finalize_if_terminal.
LEMMA HandlerFinalizes ==
  ASSUME TypeInv, NEW t \in Task, ~At(t, "idle"), NEW f \in Frame,
         NEW after \in {"return", "suberr"}, Finalize(t, f, after),
         f.op = task[t].op, f.event = task[t].event,
         UNCHANGED <<completions, failures>>
  PROVE  TasksOK'
<1> DEFINE g == [f EXCEPT !.pc = "gate", !.after = after]
<1>1. g \in Frame /\ g.op = f.op /\ g.event = f.event /\ g.pc = "gate"
  BY DEF Frame, Pc
<1>2. Step(t, g)
  BY DEF Finalize
<1>3. QED
  BY <1>1, <1>2, HandlerGoes DEF Named

\* Every initial state satisfies the type invariant.
LEMMA InitType == Init => TypeInv
<1>1. ASSUME Init PROVE TypeOK
  <2>1. task \in [Task -> Frame]
    BY <1>1, RestingType DEF Init, Pc
  <2>2. retries \in [Node -> Nat] /\ \A n \in Node : retries[n] <= MaxRetries[n]
    BY <1>1, SchedulerAssumption DEF Init
  <2>3. faults \in 0..MaxFaults /\ redeliveries \in 0..MaxRedeliveries
    BY <1>1, SchedulerAssumption DEF Init
  <2>4. QED
    BY <1>1, <2>1, <2>2, <2>3 DEF Init, TypeOK, TaskStatus
<1>2. ASSUME Init PROVE task[Listener] = Resting("idle")
  BY <1>2 DEF Init, Task, Listener, DagTimer, StallTimer, Canceller
<1>3. ASSUME Init PROVE \A u \in Task : task[u].pc \in {"off", "idle"}
  BY <1>3 DEF Init, Resting
<1>4. QED
  BY <1>1, <1>2, <1>3 DEF TypeInv, TypeOK, TasksOK, ListenerFrame, Named, Resting

-----------------------------------------------------------------------------
(* One lemma for each part of a handler. *)

\* submit_graph keeps the type invariant as it begins.
LEMMA SubmitGraphType ==
  ASSUME TypeInv, NEW t \in Task, SubmitGraph(t)
  PROVE  TypeInv'
<1> DEFINE f == [task[t] EXCEPT !.pc = "claim", !.op = "submit"]
<1> task[t] \in Frame
  BY DEF TypeInv, TypeOK
<1>1. t = Submitter
  BY DEF SubmitGraph
<1>2. /\ task' \in [Task -> Frame] /\ task'[Listener] = task[Listener]
      /\ \A u \in Task : Named(task'[u])
  <2>1. CASE deadlinePassed
    <3>1. Resting("off") \in Frame /\ Resting("off").pc = "off"
      BY RestingType DEF Pc, Resting
    <3>2. Step(t, Resting("off"))
      BY <2>1 DEF SubmitGraph
    <3>3. QED
      BY <1>1, <3>1, <3>2
         DEF TypeInv, TasksOK, Named, Step, Submitter, Listener, Task
  <2>2. CASE ~deadlinePassed
    <3>1. task' = [u \in Task |->
              IF u = t THEN f
              ELSE IF (u = DagTimer /\ HasDagTimeout) \/ (u = StallTimer /\ HasStallTimeout)
              THEN Resting("idle") ELSE task[u]]
      BY <2>2 DEF SubmitGraph
    <3>2. f \in Frame /\ f.pc = "claim"
      BY ZenonT(60) DEF Frame, Pc, Op
    <3>3. Resting("idle") \in Frame /\ Resting("idle").pc = "idle"
      BY RestingType DEF Pc, Resting
    <3> HIDE DEF f
    <3>4. QED
      BY <1>1, <3>1, <3>2, <3>3
         DEF TypeInv, TypeOK, TasksOK, Named, Task, Submitter, Listener, DagTimer, StallTimer
  <2>3. QED
    BY <2>1, <2>2
<1>3. TasksOK'
  BY <1>2 DEF SubmitGraph, TypeInv, TasksOK, ListenerFrame, MessageInStream, busVars
<1>4. QED
  BY <1>3, OnlyTask DEF SubmitGraph

\* submit_graph keeps it when it claims the ready nodes.
LEMMA ClaimReadyType ==
  ASSUME TypeInv, NEW t \in Task, ClaimReady(t)
  PROVE  TypeInv'
<1> task[t] \in Frame
  BY DEF TypeInv, TypeOK
<1>1. PICK U, S \in SUBSET Node :
         /\ status' = WithStatus(SkipBelow(WithStatus(status, U, "Skipped"), U), S, "Running")
         /\ Step(t, [task[t] EXCEPT !.pc = "next", !.todo = S])
  BY DEF ClaimReady, ReadyTasks, InStatus
<1> DEFINE f == [task[t] EXCEPT !.pc = "next", !.todo = S]
<1>2. f \in Frame /\ f.op = task[t].op /\ f.event = task[t].event /\ f.pc = "next"
  BY <1>1 DEF Frame, Pc
<1>3. TasksOK'
  BY <1>1, <1>2, HandlerGoes DEF Named, ClaimReady, At, busVars
<1>4. status' \in [Node -> TaskStatus]
  <2>1. status \in [Node -> TaskStatus] /\ {"Skipped", "Running"} \subseteq TaskStatus
    BY DEF TypeInv, TypeOK, TaskStatus
  <2>2. SkipBelow(WithStatus(status, U, "Skipped"), U) \in [Node -> TaskStatus]
    BY <2>1, WithStatusType, SkipBelowType
  <2>3. QED
    BY <1>1, <2>1, <2>2, WithStatusType
<1>5. QED
  BY <1>3, <1>4
     DEF ClaimReady, TypeInv, TypeOK, TasksOK, watchVars, busVars, gateVars, boundVars

\* on_node_completed keeps it as it begins: its message is in the stream.
LEMMA OnNodeCompletedType ==
  ASSUME TypeInv, NEW t \in Task, NEW n \in Node, OnNodeCompleted(t, n)
  PROVE  TypeInv'
<1> DEFINE f == [task[t] EXCEPT !.pc = "complete", !.op = "completed", !.event = n,
                                !.late = deadlinePassed]
<1> task[t] \in Frame /\ deadlinePassed \in BOOLEAN
  BY DEF TypeInv, TypeOK
<1>1. f \in Frame /\ f.pc = "complete" /\ f.op = "completed" /\ f.event = n
  BY ZenonT(60) DEF Frame, Pc, Op
<1>2. Step(t, f) /\ completions[n] > 0 /\ UNCHANGED <<completions, failures>>
  BY DEF OnNodeCompleted, busVars
<1> HIDE DEF f
<1>3. TasksOK'
  BY <1>1, <1>2, FrameStep DEF Named, ListenerFrame, MessageInStream
<1>4. QED
  BY <1>3, OnlyTask DEF OnNodeCompleted

\* It keeps it in its lock hold.
LEMMA CompleteNodeType ==
  ASSUME TypeInv, NEW t \in Task, CompleteNode(t)
  PROVE  TypeInv'
<1> DEFINE n == task[t].event
<1> task[t] \in Frame
  BY DEF TypeInv, TypeOK
<1>1. n \in Node
  BY DEF CompleteNode, At, TypeInv, TasksOK, ListenerFrame, MessageInStream
<1> HIDE DEF n
<1>2. TasksOK'
  <2>1. CASE CompletionIsLate(n)
    <3> DEFINE f == [task[t] EXCEPT !.pc = "ack"]
    <3>1. f \in Frame /\ f.op = task[t].op /\ f.event = task[t].event /\ f.pc = "ack"
      BY DEF Frame, Pc
    <3>2. Step(t, f) /\ ~At(t, "idle") /\ UNCHANGED <<completions, failures>>
      BY <2>1 DEF CompleteNode, Goto, At, busVars, n
    <3> HIDE DEF f
    <3>3. QED
      BY <3>1, <3>2, HandlerGoes DEF Named
  <2>2. CASE ~CompletionIsLate(n)
    <3>1. PICK S \in SUBSET Node : Step(t, [task[t] EXCEPT !.pc = "next", !.todo = S])
      BY <2>2 DEF CompleteNode, ClaimedBy, ReadyTasks, InStatus, n
    <3> DEFINE f == [task[t] EXCEPT !.pc = "next", !.todo = S]
    <3>2. f \in Frame /\ f.op = task[t].op /\ f.event = task[t].event /\ f.pc = "next"
      BY <3>1 DEF Frame, Pc
    <3>3. ~At(t, "idle") /\ UNCHANGED <<completions, failures>>
      BY DEF CompleteNode, At, busVars
    <3> HIDE DEF f
    <3>4. QED
      BY <3>1, <3>2, <3>3, HandlerGoes DEF Named, f
  <2>3. QED
    BY <2>1, <2>2
<1>3. status' \in [Node -> TaskStatus] /\ result' \subseteq Node
  <2>1. status \in [Node -> TaskStatus] /\ {"Completed", "Running"} \subseteq TaskStatus
    BY DEF TypeInv, TypeOK, TaskStatus
  <2>2. WithStatus(status, {n}, "Completed") \in [Node -> TaskStatus]
    BY <2>1, WithStatusType
  <2>3. \A target : SelectBranch(WithStatus(status, {n}, "Completed"), n, target)
                      \in [Node -> TaskStatus]
    BY <2>2, SelectBranchType
  <2>4. CASE CompletionIsLate(n)
    BY <2>1, <2>4 DEF CompleteNode, TypeInv, TypeOK, n
  <2>5. CASE ~CompletionIsLate(n)
    <3>1. result' = result \cup {n}
      BY <2>5 DEF CompleteNode, n
    <3>2. PICK st \in [Node -> TaskStatus] : status' = WithStatus(st, ClaimedBy(t, st), "Running")
      BY <2>2, <2>3, <2>5 DEF CompleteNode, n
    <3>3. QED
      BY <1>1, <2>1, <3>1, <3>2, WithStatusType DEF TypeInv, TypeOK
  <2>6. QED
    BY <2>4, <2>5
<1>4. QED
  BY <1>2, <1>3
     DEF CompleteNode, TypeInv, TypeOK, TasksOK, busVars, gateVars, boundVars

\* The steps that move nothing but their own frame.
LEMMA SubmittedAllType ==
  ASSUME TypeInv, NEW t \in Task, SubmittedAll(t)
  PROVE  TypeInv'
<1> DEFINE f == [task[t] EXCEPT !.pc = "save"]
<1> task[t] \in Frame
  BY DEF TypeInv, TypeOK
<1>1. f \in Frame /\ f.op = task[t].op /\ f.event = task[t].event /\ f.pc = "save"
  BY DEF Frame, Pc
<1>2. TasksOK'
  BY <1>1, HandlerGoes DEF Named, SubmittedAll, Goto, At, busVars
<1>3. QED
  BY <1>2, OnlyTask DEF SubmittedAll

\* check_deadline and check_budget keep it.
LEMMA PeekType ==
  ASSUME TypeInv, NEW t \in Task, NEW n \in Node, Peek(t, n)
  PROVE  TypeInv'
<1> DEFINE f == IF At(t, "next") THEN [task[t] EXCEPT !.node = n, !.todo = @ \ {n}] ELSE task[t]
           g == [f EXCEPT !.err = "permanent"]
           h == [f EXCEPT !.pc = "consume"]
<1> task[t] \in Frame
  BY DEF TypeInv, TypeOK
<1>1. f \in Frame /\ f.op = task[t].op /\ f.event = task[t].event /\ f.node = n
  BY DEF Frame, Peek, At
<1>2. (Finalize(t, g, "suberr") \/ Step(t, h)) /\ ~At(t, "idle")
  BY DEF Peek, At
<1> HIDE DEF f
<1>3. g \in Frame /\ g.op = f.op /\ g.event = f.event
  BY <1>1 DEF Frame
<1>4. h \in Frame /\ h.op = f.op /\ h.event = f.event /\ h.pc = "consume" /\ Named(h)
  BY <1>1 DEF Frame, Pc, Named
<1> HIDE DEF g, h
<1>5. TasksOK'
  BY <1>1, <1>2, <1>3, <1>4, HandlerGoes, HandlerFinalizes DEF Peek, busVars
<1>6. QED
  BY <1>5, OnlyTask DEF Peek

\* try_consume_budget keeps it.
LEMMA TryConsumeBudgetType ==
  ASSUME TypeInv, NEW t \in Task, TryConsumeBudget(t)
  PROVE  TypeInv'
<1> DEFINE g == [task[t] EXCEPT !.err = "permanent"]
           h == [task[t] EXCEPT !.pc = "publish"]
<1> task[t] \in Frame
  BY DEF TypeInv, TypeOK
<1>1. g \in Frame /\ g.op = task[t].op /\ g.event = task[t].event
  BY DEF Frame
<1>2. h \in Frame /\ h.op = task[t].op /\ h.event = task[t].event /\ h.pc = "publish" /\ Named(h)
  BY DEF Frame, Pc, Named, TypeInv, TasksOK, TryConsumeBudget, At
<1>3. (Finalize(t, g, "suberr") \/ Step(t, h)) /\ ~At(t, "idle")
  BY DEF TryConsumeBudget, Goto, At
<1> HIDE DEF g, h
<1>4. TasksOK'
  BY <1>1, <1>2, <1>3, HandlerGoes, HandlerFinalizes DEF Named, TryConsumeBudget, busVars
<1>5. agentCalls' \in Nat
  BY DEF TryConsumeBudget, TypeInv, TypeOK
<1>6. QED
  BY <1>4, <1>5
     DEF TryConsumeBudget, TypeInv, TypeOK, TasksOK, graphVars, watchVars, busVars, gateVars,
         clockVars, boundVars

\* A submission that fails keeps it.
LEMMA SubmissionFaultType ==
  ASSUME TypeInv, NEW t \in Task, SubmissionFault(t)
  PROVE  TypeInv'
<1> DEFINE f == [task[t] EXCEPT !.pc = "suberr", !.err = "transient"]
<1> task[t] \in Frame
  BY DEF TypeInv, TypeOK
<1>1. f \in Frame /\ f.op = task[t].op /\ f.event = task[t].event /\ f.pc = "suberr"
  BY DEF Frame, Pc
<1>2. TasksOK'
  BY <1>1, HandlerGoes DEF Named, SubmissionFault, At, busVars
<1>3. faults' \in 0..MaxFaults
  BY SchedulerAssumption DEF SubmissionFault, TypeInv, TypeOK
<1>4. QED
  BY <1>2, <1>3
     DEF SubmissionFault, TypeInv, TypeOK, TasksOK, graphVars, watchVars, busVars, gateVars, clockVars

\* publish_task_submit keeps it.
LEMMA PublishTaskSubmitType ==
  ASSUME TypeInv, NEW t \in Task, PublishTaskSubmit(t)
  PROVE  TypeInv'
<1> DEFINE f == [task[t] EXCEPT !.pc = IF task[t].op = "failed" THEN "running" ELSE "next"]
<1> task[t] \in Frame
  BY DEF TypeInv, TypeOK
<1>1. f \in Frame /\ f.op = task[t].op /\ f.event = task[t].event /\ f.pc \in {"running", "next"}
  BY DEF Frame, Pc
<1>2. TasksOK'
  BY <1>1, HandlerGoes DEF Named, PublishTaskSubmit, Goto, At
<1> task[t].node \in Node
  BY DEF TypeInv, TasksOK, Named, PublishTaskSubmit, At
<1>3. dispatched' \in [Node -> Nat] /\ outstanding' \in [Node -> Nat] /\ stray' \in [Node -> Nat]
  BY DEF PublishTaskSubmit, TypeInv, TypeOK
<1>4. armed' \subseteq Node
  BY DEF PublishTaskSubmit, TypeInv, TypeOK
<1>5. QED
  BY <1>2, <1>3, <1>4
     DEF PublishTaskSubmit, TypeInv, TypeOK, TasksOK, graphVars, gateVars, clockVars, boundVars

\* handle_submission_error keeps it.
LEMMA SubmissionErrorType ==
  ASSUME TypeInv, NEW t \in Task, SubmissionError(t)
  PROVE  TypeInv'
<1> DEFINE f == [task[t] EXCEPT !.pc = "scan", !.err = "none"]
           g == [task[t] EXCEPT !.pc = "next", !.err = "none"]
<1> task[t] \in Frame
  BY DEF TypeInv, TypeOK
<1>1. f \in Frame /\ f.op = task[t].op /\ f.event = task[t].event /\ f.pc = "scan"
  BY DEF Frame, Pc
<1>2. g \in Frame /\ g.op = task[t].op /\ g.event = task[t].event /\ g.pc = "next"
  BY DEF Frame, Pc
<1>3. (Step(t, f) \/ Step(t, g)) /\ ~At(t, "idle")
  BY DEF SubmissionError, At
<1> HIDE DEF f, g
<1>4. TasksOK'
  BY <1>1, <1>2, <1>3, HandlerGoes DEF Named, SubmissionError, busVars
<1>5. status' \in [Node -> TaskStatus]
  BY DEF SubmissionError, WithStatus, TypeInv, TypeOK, TaskStatus
<1>6. QED
  BY <1>4, <1>5
     DEF SubmissionError, TypeInv, TypeOK, TasksOK, watchVars, busVars, gateVars, clockVars, boundVars

\* The first lock hold of skip_downstream keeps it.
LEMMA CollectDownstreamType ==
  ASSUME TypeInv, NEW t \in Task, CollectDownstream(t)
  PROVE  TypeInv'
<1> DEFINE S == PendingBelow(status, {task[t].node})
           f == [task[t] EXCEPT !.pc = "mark", !.skip = S]
<1> task[t] \in Frame
  BY DEF TypeInv, TypeOK
<1>1. S \in SUBSET Node
  BY DEF PendingBelow
<1>2. Step(t, f) /\ ~At(t, "idle")
  BY DEF CollectDownstream, At
<1> HIDE DEF S
<1>3. f \in Frame /\ f.op = task[t].op /\ f.event = task[t].event /\ f.pc = "mark"
  BY <1>1 DEF Frame, Pc
<1> HIDE DEF f
<1>4. TasksOK'
  BY <1>2, <1>3, HandlerGoes DEF Named, CollectDownstream, busVars
<1>5. QED
  BY <1>4, OnlyTask DEF CollectDownstream

\* The second lock hold of skip_downstream keeps it.
LEMMA SkipCollectedType ==
  ASSUME TypeInv, NEW t \in Task, SkipCollected(t)
  PROVE  TypeInv'
<1> DEFINE f == [task[t] EXCEPT !.skip = {}]
           g == [f EXCEPT !.pc = IF task[t].op = "failed" THEN "save" ELSE "next"]
<1> task[t] \in Frame
  BY DEF TypeInv, TypeOK
<1>1. f \in Frame /\ f.op = task[t].op /\ f.event = task[t].event
  BY DEF Frame
<1>2. Step(t, g) /\ ~At(t, "idle")
  BY DEF SkipCollected, At
<1> HIDE DEF f
<1>3. g \in Frame /\ g.op = f.op /\ g.event = f.event /\ g.pc \in {"save", "next"}
  BY <1>1 DEF Frame, Pc
<1> HIDE DEF g
<1>4. TasksOK'
  BY <1>1, <1>2, <1>3, HandlerGoes DEF Named, SkipCollected, busVars
<1>5. status' \in [Node -> TaskStatus]
  BY DEF SkipCollected, WithStatus, TypeInv, TypeOK, TaskStatus
<1>6. QED
  BY <1>4, <1>5
     DEF SkipCollected, TypeInv, TypeOK, TasksOK, watchVars, busVars, gateVars, clockVars, boundVars

\* The defensive write of on_node_failed keeps it.
LEMMA ConfirmFailedType ==
  ASSUME TypeInv, NEW t \in Task, ConfirmFailed(t)
  PROVE  TypeInv'
<1> DEFINE f == [task[t] EXCEPT !.pc = "scan"]
<1> task[t] \in Frame
  BY DEF TypeInv, TypeOK
<1>1. f \in Frame /\ f.op = task[t].op /\ f.event = task[t].event /\ f.pc = "scan"
  BY DEF Frame, Pc
<1>2. TasksOK'
  BY <1>1, HandlerGoes DEF Named, ConfirmFailed, Goto, At, busVars
<1>3. status' \in [Node -> TaskStatus]
  BY DEF ConfirmFailed, WithStatus, TypeInv, TypeOK, TaskStatus
<1>4. QED
  BY <1>2, <1>3
     DEF ConfirmFailed, TypeInv, TypeOK, TasksOK, watchVars, busVars, gateVars, clockVars, boundVars

\* The check after the backoff keeps it.
LEMMA RetryAfterBackoffType ==
  ASSUME TypeInv, NEW t \in Task, RetryAfterBackoff(t)
  PROVE  TypeInv'
<1> DEFINE f == [task[t] EXCEPT !.pc = "peek"]
<1> task[t] \in Frame
  BY DEF TypeInv, TypeOK
<1>1. f \in Frame /\ f.op = task[t].op /\ f.event = task[t].event /\ f.pc = "peek" /\ Named(f)
  BY DEF Frame, Pc, Named, TypeInv, TasksOK, RetryAfterBackoff, At
<1>2. TasksOK'
  BY <1>1, HandlerGoes, HandlerReturns DEF RetryAfterBackoff, Goto, Return, At, busVars
<1>3. QED
  BY <1>2, OnlyTask DEF RetryAfterBackoff

\* The write after a submitted retry keeps it.
LEMMA MarkRetryRunningType ==
  ASSUME TypeInv, NEW t \in Task, MarkRetryRunning(t)
  PROVE  TypeInv'
<1> task[t] \in Frame
  BY DEF TypeInv, TypeOK
<1>1. TasksOK'
  BY HandlerReturns DEF MarkRetryRunning, Return, At, busVars
<1>2. status' \in [Node -> TaskStatus]
  BY DEF MarkRetryRunning, WithStatus, TypeInv, TypeOK, TaskStatus
<1>3. QED
  BY <1>1, <1>2
     DEF MarkRetryRunning, TypeInv, TypeOK, TasksOK, watchVars, busVars, gateVars, clockVars, boundVars

\* save_graph_unlocked keeps it, whether it succeeds or fails.
LEMMA SaveType ==
  ASSUME TypeInv, NEW t \in Task, SaveGraph(t) \/ SaveFault(t)
  PROVE  TypeInv'
<1> DEFINE f == [task[t] EXCEPT !.err = "transient"]
<1> task[t] \in Frame
  BY DEF TypeInv, TypeOK
<1>1. f \in Frame /\ f.op = task[t].op /\ f.event = task[t].event
  BY DEF Frame
<1>2. CASE SaveGraph(t)
  <2>1. TasksOK'
    BY <1>2, HandlerReturns, HandlerFinalizes DEF SaveGraph, Return, At, busVars
  <2>2. QED
    BY <1>2, <2>1, OnlyTask DEF SaveGraph
<1>3. CASE SaveFault(t)
  <2>1. TasksOK'
    BY <1>1, <1>3, HandlerReturns DEF SaveFault, Return, At, busVars
  <2>2. faults' \in 0..MaxFaults
    BY <1>3, SchedulerAssumption DEF SaveFault, TypeInv, TypeOK
  <2>3. QED
    BY <1>3, <2>1, <2>2
       DEF SaveFault, TypeInv, TypeOK, TasksOK, graphVars, watchVars, busVars, gateVars, clockVars
<1>4. QED
  BY <1>2, <1>3

\* Where finalize_if_terminal comes back to is a frame its task may be in.
LEMMA FinalizedFrame ==
  ASSUME TypeInv, NEW t \in Task, ~At(t, "idle")
  PROVE  /\ Finalized(t) \in Frame
         /\ Finalized(t).pc \in {"suberr", "ack", "nak", "victims", "idle", "off"}
         /\ t = Listener => ListenerFrame(Finalized(t))
<1> DEFINE f == [task[t] EXCEPT !.pc = "suberr"]
<1> task[t] \in Frame /\ task \in [Task -> Frame]
  BY DEF TypeInv, TypeOK
<1>1. f \in Frame /\ f.op = task[t].op /\ f.event = task[t].event /\ f.pc = "suberr"
  BY DEF Frame, Pc
<1>2. t = Listener => MessageInStream(task[t])
  BY DEF TypeInv, TasksOK, ListenerFrame, At
<1>3. t = Listener => ListenerFrame(f) /\ ListenerFrame(Returned(t, task[t]))
  BY <1>1, <1>2 DEF ListenerFrame, MessageInStream, Returned, Frame
<1>4. Returned(t, task[t]).pc \in {"ack", "nak", "victims", "idle", "off"}
  BY DEF Returned, Resting, Frame
<1>5. QED
  BY <1>1, <1>3, <1>4, FinalizedType DEF Finalized

\* The gate of finalize_if_terminal keeps it.
LEMMA GateType ==
  ASSUME TypeInv, NEW t \in Task, SwapFinalized(t) \/ NotTerminal(t) \/ ReleaseGate(t)
  PROVE  TypeInv'
<1> DEFINE f == [task[t] EXCEPT !.pc = "check"]
           g == [task[t] EXCEPT !.pc = "ungate"]
<1> task[t] \in Frame
  BY DEF TypeInv, TypeOK
<1>1. f \in Frame /\ f.op = task[t].op /\ f.event = task[t].event /\ f.pc = "check"
  BY DEF Frame, Pc
<1>2. g \in Frame /\ g.op = task[t].op /\ g.event = task[t].event /\ g.pc = "ungate"
  BY DEF Frame, Pc
<1>3. ~At(t, "idle") /\ UNCHANGED <<completions, failures>>
  BY DEF SwapFinalized, NotTerminal, ReleaseGate, At, busVars
<1>4. Step(t, f) \/ Step(t, g) \/ Step(t, Finalized(t))
  BY DEF SwapFinalized, NotTerminal, ReleaseGate, Goto
<1> HIDE DEF f, g
<1>5. ASSUME Step(t, Finalized(t)) PROVE TasksOK'
  BY <1>3, <1>5, FinalizedFrame, FrameStep DEF Named
<1>6. TasksOK'
  BY <1>1, <1>2, <1>3, <1>4, <1>5, HandlerGoes DEF Named
<1>7. finalized' \in BOOLEAN
  BY DEF SwapFinalized, NotTerminal, ReleaseGate, gateVars, TypeInv, TypeOK
<1>8. UNCHANGED <<graphVars, watchVars, busVars, published, clockVars, agentCalls, boundVars>>
  BY DEF SwapFinalized, NotTerminal, ReleaseGate, gateVars
<1>9. QED
  BY <1>6, <1>7, <1>8
     DEF TypeInv, TypeOK, TasksOK, graphVars, watchVars, busVars, clockVars, boundVars

\* The publication of the end of the DAG keeps it.
LEMMA PublishDagCompleteType ==
  ASSUME TypeInv, NEW t \in Task, PublishDagComplete(t)
  PROVE  TypeInv'
<1>1. Resting("off") \in Frame /\ Resting("off").pc = "off"
  BY RestingType DEF Resting, Pc
<1>2. /\ Finalized(t) \in Frame /\ Named(Finalized(t))
      /\ t = Listener => ListenerFrame(Finalized(t))
  BY FinalizedFrame DEF PublishDagComplete, At, Named
<1>3. /\ \A u \in Task : task'[u] \in {Resting("off"), Finalized(t), task[u]}
      /\ task' = [u \in Task |-> task'[u]]
      /\ task'[Listener] = IF t = Listener THEN Finalized(t) ELSE task[Listener]
  BY DEF PublishDagComplete, Task, Listener, DagTimer, StallTimer
<1>4. task' \in [Task -> Frame] /\ \A u \in Task : Named(task'[u])
  BY <1>1, <1>2, <1>3 DEF TypeInv, TasksOK, Named
<1>5. ListenerFrame(task'[Listener])
  BY <1>2, <1>3 DEF TypeInv, TasksOK
<1>6. TasksOK'
  BY <1>4, <1>5 DEF TasksOK, ListenerFrame, MessageInStream, PublishDagComplete, busVars
<1>7. published' \in Nat
  BY DEF PublishDagComplete, TypeInv, TypeOK
<1>8. QED
  BY <1>6, <1>7
     DEF PublishDagComplete, TypeInv, TypeOK, TasksOK, graphVars, watchVars, busVars, clockVars,
         boundVars

\* on_node_failed keeps it as it begins.
LEMMA OnNodeFailedType ==
  ASSUME TypeInv, NEW t \in Task, NEW n \in Node, OnNodeFailed(t, n)
  PROVE  TypeInv'
<1> DEFINE e == IF t = Listener THEN n ELSE task[t].event
           f == [task[t] EXCEPT !.op = "failed", !.node = n, !.event = e]
           g == [f EXCEPT !.pc = "failing"]
           p == [f EXCEPT !.err = "permanent"]
           q == [p EXCEPT !.pc = "gate", !.after = "return"]
<1> task[t] \in Frame
  BY DEF TypeInv, TypeOK
<1>1. e \in Node \cup {"none"} /\ (t = Listener => e = n)
  BY DEF Frame
<1>2. t = Listener => failures[n] > 0
  BY DEF OnNodeFailed, TypeInv, TasksOK, ListenerFrame, At
<1>3. Step(t, g) \/ Step(t, q)
  BY DEF OnNodeFailed, Finalize
<1> HIDE DEF e
<1>4. f \in Frame /\ f.op = "failed" /\ f.node = n /\ f.event = e
  BY <1>1 DEF Frame, Op
<1> HIDE DEF f
<1>5. g \in Frame /\ g.op = "failed" /\ g.node = n /\ g.event = e /\ g.pc = "failing"
  BY <1>4 DEF Frame, Pc
<1>6. p \in Frame /\ p.op = "failed" /\ p.event = e
  BY <1>4 DEF Frame
<1> HIDE DEF g, p
<1>7. q \in Frame /\ q.op = "failed" /\ q.event = e /\ q.pc = "gate"
  <2>1. q \in Frame
    BY <1>6, ZenonT(60) DEF Frame, Pc
  <2>2. q.op = "failed" /\ q.event = e /\ q.pc = "gate"
    BY <1>6 DEF Frame
  <2>3. QED
    BY <2>1, <2>2
<1> HIDE DEF q
<1>8. t = Listener => ListenerFrame(g) /\ ListenerFrame(q)
  BY <1>1, <1>2, <1>5, <1>7 DEF ListenerFrame, MessageInStream
<1>9. TasksOK'
  BY <1>3, <1>5, <1>7, <1>8, FrameStep DEF Named, OnNodeFailed, busVars
<1>10. QED
  BY <1>9, OnlyTask DEF OnNodeFailed

\* It keeps it in its lock hold.
LEMMA ClaimFailureType ==
  ASSUME TypeInv, NEW t \in Task, ClaimFailure(t)
  PROVE  TypeInv'
<1> DEFINE b == [task[t] EXCEPT !.pc = "backoff"]
           c == [task[t] EXCEPT !.pc = "confirm"]
<1> task[t] \in Frame
  BY DEF TypeInv, TypeOK
<1>1. task[t].node \in Node /\ ~At(t, "idle")
  BY DEF ClaimFailure, At, TypeInv, TasksOK, Named
<1>2. Return(t, task[t]) \/ Step(t, b) \/ Step(t, c)
  BY DEF ClaimFailure, Goto
<1>3. /\ b \in Frame /\ b.op = task[t].op /\ b.event = task[t].event /\ b.pc = "backoff"
      /\ c \in Frame /\ c.op = task[t].op /\ c.event = task[t].event /\ c.pc = "confirm"
      /\ b.node = task[t].node
  BY DEF Frame, Pc
<1>4. UNCHANGED <<completions, failures>>
  BY DEF ClaimFailure, busVars
<1> HIDE DEF b, c
<1>5. TasksOK'
  BY <1>1, <1>2, <1>3, <1>4, HandlerGoes, HandlerReturns DEF Named, Return
<1>6. status' \in [Node -> TaskStatus]
  BY DEF ClaimFailure, WithStatus, TypeInv, TypeOK, TaskStatus
<1>7. retries' \in [Node -> Nat] /\ \A m \in Node : retries'[m] <= MaxRetries[m]
  BY <1>1, SchedulerAssumption DEF ClaimFailure, MayRetry, TypeInv, TypeOK
<1>8. armed' \subseteq Node /\ stale' \in BOOLEAN
  BY DEF ClaimFailure, TypeInv, TypeOK
<1>9. QED
  BY <1>5, <1>6, <1>7, <1>8
     DEF ClaimFailure, TypeInv, TypeOK, TasksOK, busVars, gateVars, boundVars

\* The snapshot of the watchers and of cancel_remaining_nodes.
LEMMA SnapshotType ==
  ASSUME TypeInv, NEW S \in SUBSET TaskStatus
  PROVE  Snapshot(S) \in SUBSET (Node \X TaskStatus)
BY DEF Snapshot, TypeInv, TypeOK

\* An idle watcher that fires keeps it.
LEMMA IdleTimeoutType ==
  ASSUME TypeInv, NEW t \in Task, NEW n \in Node, IdleTimeout(t, n)
  PROVE  TypeInv'
<1> DEFINE f == [Resting("fail") EXCEPT !.op = "failed", !.node = n]
<1>1. f \in Frame /\ f.pc = "fail"
  BY DEF Resting, Frame, Pc, Op
<1>2. Step(t, f) /\ t # Listener
  BY SchedulerAssumption DEF IdleTimeout
<1> HIDE DEF f
<1>3. TasksOK'
  BY <1>1, <1>2, FrameStep DEF Named, IdleTimeout, busVars
<1>4. armed' \subseteq Node /\ stray' \in [Node -> Nat]
  BY DEF IdleTimeout, TypeInv, TypeOK
<1>5. QED
  BY <1>3, <1>4
     DEF IdleTimeout, TypeInv, TypeOK, TasksOK, graphVars, busVars, gateVars, clockVars, boundVars

\* The DAG-level watchers keep it when they fire or end.
LEMMA TimerType ==
  ASSUME TypeInv, NEW t \in Task,
         TimerExits(t) \/ DagTimeout(t) \/ StallPoll(t) \/ Cancel(t)
  PROVE  TypeInv'
<1> task[t] \in Frame
  BY DEF TypeInv, TypeOK
<1>1. t # Listener
  BY DEF TimerExits, DagTimeout, StallPoll, Cancel, Listener, DagTimer, StallTimer, Canceller
<1>2. Resting("off") \in Frame /\ Named(Resting("off"))
  BY RestingType DEF Named, Resting, Pc
<1>3. ASSUME NEW V \in SUBSET (Node \X TaskStatus)
      PROVE  /\ [task[t] EXCEPT !.pc = "victims", !.victims = V] \in Frame
             /\ [task[t] EXCEPT !.pc = "victims", !.victims = V].pc = "victims"
  BY DEF Frame, Pc
<1>4. ASSUME NEW V \in SUBSET (Node \X TaskStatus)
      PROVE  /\ [task[t] EXCEPT !.pc = "victims", !.op = "cancel", !.victims = V] \in Frame
             /\ [task[t] EXCEPT !.pc = "victims", !.op = "cancel", !.victims = V].pc = "victims"
  BY ZenonT(60) DEF Frame, Pc, Op
<1>5. /\ [task[t] EXCEPT !.pc = "gate", !.after = "return"] \in Frame
      /\ [task[t] EXCEPT !.pc = "gate", !.after = "return"].pc = "gate"
  BY DEF Frame, Pc
<1>6. /\ Snapshot({"Pending", "Running"}) \in SUBSET (Node \X TaskStatus)
      /\ Snapshot(IF InStatus(status, "Running") # {} THEN {"Running"} ELSE {"Pending"})
            \in SUBSET (Node \X TaskStatus)
  BY SnapshotType DEF TaskStatus
<1>7. PICK f \in Frame : Step(t, f) /\ Named(f)
  <2>1. CASE TimerExits(t)
    BY <1>2, <2>1 DEF TimerExits
  <2>2. CASE DagTimeout(t)
    BY <1>3, <1>6, <2>2 DEF DagTimeout, Named
  <2>3. CASE StallPoll(t)
    BY <1>3, <1>5, <1>6, <2>3 DEF StallPoll, Finalize, Named
  <2>4. CASE Cancel(t)
    BY <1>4, <1>6, <2>4 DEF Cancel, Named
  <2>5. QED
    BY <2>1, <2>2, <2>3, <2>4
<1>8. UNCHANGED <<graphVars, watchVars, busVars, gateVars, clockVars, agentCalls, boundVars>>
  BY DEF TimerExits, DagTimeout, StallPoll, Cancel
<1>9. TasksOK'
  BY <1>1, <1>7, <1>8, FrameStep DEF busVars
<1>10. QED
  BY <1>8, <1>9, OnlyTask

\* fail_all_remaining_nodes, the stall watcher and cancel_remaining_nodes keep it at each node.
LEMMA VictimType ==
  ASSUME TypeInv, NEW t \in Task, NEW v \in Node \X TaskStatus,
         FailNextVictim(t, v) \/ CancelNextVictim(t, v)
  PROVE  TypeInv'
<1> DEFINE V == task[t].victims \ {v}
           f == [task[t] EXCEPT !.pc = "fail", !.node = v[1], !.victims = V]
           g == [task[t] EXCEPT !.victims = V]
<1> task[t] \in Frame
  BY DEF TypeInv, TypeOK
<1>1. t # Listener /\ task[t].pc = "victims"
  BY DEF FailNextVictim, CancelNextVictim, Listener, DagTimer, StallTimer, Canceller, At
<1>2. V \in SUBSET (Node \X TaskStatus) /\ v[1] \in Node
  BY DEF Frame
<1>3. Step(t, f) \/ Step(t, g)
  BY DEF FailNextVictim, CancelNextVictim
<1> HIDE DEF V
<1>4. f \in Frame /\ f.pc = "fail"
  BY <1>2 DEF Frame, Pc
<1>5. g \in Frame /\ g.pc = "victims"
  BY <1>1, <1>2 DEF Frame
<1> HIDE DEF f, g
<1>6. TasksOK'
  BY <1>1, <1>3, <1>4, <1>5, FrameStep DEF Named, FailNextVictim, CancelNextVictim
<1>7. armed' \subseteq Node /\ outstanding' \in [Node -> Nat]
  BY DEF FailNextVictim, CancelNextVictim, CancelExecution, TypeInv, TypeOK
<1>8. UNCHANGED <<graphVars, stray, dispatched, completions, failures, gateVars, clockVars,
                  agentCalls, boundVars>>
  BY DEF FailNextVictim, CancelNextVictim
<1>9. QED
  BY <1>6, <1>7, <1>8 DEF TypeInv, TypeOK, TasksOK, graphVars, gateVars, clockVars, boundVars

\* So do they at the end of their snapshot.
LEMMA VictimsDoneType ==
  ASSUME TypeInv, NEW t \in Task, VictimsFailed(t) \/ CancelStatuses(t)
  PROVE  TypeInv'
<1> DEFINE f == [task[t] EXCEPT !.pc = "save"]
<1> task[t] \in Frame
  BY DEF TypeInv, TypeOK
<1>1. t # Listener
  BY DEF VictimsFailed, CancelStatuses, Listener, DagTimer, StallTimer, Canceller
<1>2. Resting("off") \in Frame /\ Named(Resting("off"))
  BY RestingType DEF Named, Resting, Pc
<1>3. f \in Frame /\ f.pc = "save"
  BY DEF Frame, Pc
<1>4. Step(t, Resting("off")) \/ Step(t, f)
  BY DEF VictimsFailed, CancelStatuses, Goto
<1> HIDE DEF f
<1>5. TasksOK'
  BY <1>1, <1>2, <1>3, <1>4, FrameStep DEF Named, VictimsFailed, CancelStatuses, busVars
<1>6. status' \in [Node -> TaskStatus]
  BY DEF VictimsFailed, CancelStatuses, WithStatus, TypeInv, TypeOK, TaskStatus
<1>7. UNCHANGED <<retries, result, watchVars, busVars, gateVars, clockVars, agentCalls, boundVars>>
  BY DEF VictimsFailed, CancelStatuses
<1>8. QED
  BY <1>5, <1>6, <1>7
     DEF TypeInv, TypeOK, TasksOK, watchVars, busVars, gateVars, clockVars, boundVars

\* The listener keeps it when it answers a message.
LEMMA AcknowledgeType ==
  ASSUME TypeInv, NEW t \in Task, Acknowledge(t) \/ Redelivery(t) \/ DeliveriesExhausted(t)
  PROVE  TypeInv'
<1> DEFINE f == Resting("idle")
<1>1. f \in Frame /\ f.pc = "idle"
  BY RestingType DEF Resting, Pc
<1>2. Step(t, f) /\ t = Listener /\ ~At(t, "idle")
  BY DEF Acknowledge, Redelivery, DeliveriesExhausted, At
<1> HIDE DEF f
<1>3. TasksOK'
  BY <1>1, <1>2 DEF TypeInv, TasksOK, Step, ListenerFrame, MessageInStream, Named
<1>4. completions' \in [Node -> Nat] /\ failures' \in [Node -> Nat]
  <2>1. MessageInStream(task[Listener])
    BY <1>2 DEF TypeInv, TasksOK, ListenerFrame, At
  <2>2. CASE Redelivery(t)
    BY <2>2 DEF Redelivery, busVars, TypeInv, TypeOK
  <2>3. CASE Acknowledge(t) \/ DeliveriesExhausted(t)
    BY <2>1, <2>3
       DEF Acknowledge, DeliveriesExhausted, Consume, MessageInStream, TypeInv, TypeOK
  <2>4. QED
    BY <2>2, <2>3
<1>5. redeliveries' \in 0..MaxRedeliveries
  BY SchedulerAssumption
     DEF Acknowledge, Redelivery, DeliveriesExhausted, boundVars, TypeInv, TypeOK
<1>6. UNCHANGED <<graphVars, watchVars, dispatched, outstanding, gateVars, clockVars,
                  agentCalls, faults>>
  BY DEF Acknowledge, Redelivery, DeliveriesExhausted, busVars, boundVars
<1>7. QED
  BY <1>3, <1>4, <1>5, <1>6
     DEF TypeInv, TypeOK, TasksOK, graphVars, watchVars, gateVars, clockVars

\* Executions, the clock and ending watchers keep it.
LEMMA EnvironmentType ==
  ASSUME TypeInv, Environment
  PROVE  TypeInv'
<1>1. ASSUME NEW n \in Node, ExecutionCompletes(n) \/ ExecutionFails(n)
      PROVE  TypeInv'
  <2>1. /\ outstanding' \in [Node -> Nat]
        /\ completions' \in [Node -> Nat]
        /\ failures' \in [Node -> Nat]
    BY <1>1 DEF ExecutionCompletes, ExecutionFails, TypeInv, TypeOK
  <2>2. \A m \in Node : completions'[m] >= completions[m] /\ failures'[m] >= failures[m]
    BY <1>1 DEF ExecutionCompletes, ExecutionFails, TypeInv, TypeOK
  <2>3. task' = task
    BY <1>1 DEF ExecutionCompletes, ExecutionFails
  <2>4. ASSUME MessageInStream(task[Listener]) PROVE MessageInStream(task[Listener])'
    <3>1. CASE task[Listener].op = "completed" /\ completions[task[Listener].event] > 0
                  /\ task[Listener].event \in Node
      BY <2>1, <2>2, <2>3, <3>1 DEF MessageInStream, TypeInv, TypeOK
    <3>2. CASE task[Listener].op = "failed" /\ failures[task[Listener].event] > 0
                  /\ task[Listener].event \in Node
      BY <2>1, <2>2, <2>3, <3>2 DEF MessageInStream, TypeInv, TypeOK
    <3>3. QED
      BY <2>4, <3>1, <3>2 DEF MessageInStream
  <2>5. TasksOK'
    BY <2>3, <2>4 DEF TypeInv, TasksOK, ListenerFrame, Named
  <2>6. QED
    BY <1>1, <2>1, <2>5
       DEF ExecutionCompletes, ExecutionFails, TypeInv, TypeOK, TasksOK, graphVars, watchVars,
           gateVars, clockVars, boundVars
<1>2. ASSUME \/ \E n \in Node : WatcherExits(n)
             \/ DeadlinePasses
             \/ ProgressGoesStale
      PROVE  TypeInv'
  <2>1. UNCHANGED <<graphVars, busVars, gateVars, agentCalls, boundVars, task>>
    BY <1>2 DEF WatcherExits, DeadlinePasses, ProgressGoesStale, clockVars
  <2>2. armed' \subseteq Node /\ stray' \in [Node -> Nat]
    BY <1>2 DEF WatcherExits, DeadlinePasses, ProgressGoesStale, watchVars, TypeInv, TypeOK
  <2>3. deadlinePassed' \in BOOLEAN /\ stale' \in BOOLEAN
    BY <1>2 DEF WatcherExits, DeadlinePasses, ProgressGoesStale, clockVars, TypeInv, TypeOK
  <2>4. TasksOK'
    BY <2>1 DEF TypeInv, TasksOK, ListenerFrame, MessageInStream, Named, busVars
  <2>5. QED
    BY <2>1, <2>2, <2>3, <2>4
       DEF TypeInv, TypeOK, TasksOK, graphVars, busVars, gateVars, boundVars
<1>3. QED
  BY <1>1, <1>2 DEF Environment

\* A step that changes nothing keeps it.
LEMMA StutterType ==
  ASSUME TypeInv, UNCHANGED vars
  PROVE  TypeInv'
<1>1. UNCHANGED <<graphVars, watchVars, busVars, gateVars, clockVars, agentCalls, boundVars, task>>
  BY DEF vars
<1>2. TasksOK'
  BY <1>1 DEF TypeInv, TasksOK, ListenerFrame, MessageInStream, Named, busVars
<1>3. QED
  BY <1>1, <1>2, OnlyTask

\* Every step keeps the type invariant.
LEMMA NextType == ASSUME TypeInv, [Next]_vars PROVE TypeInv'
<1>1. ASSUME NEW t \in Task, HandlerStart(t) PROVE TypeInv'
  BY <1>1, SubmitGraphType, OnNodeCompletedType, IdleTimeoutType, TimerType
     DEF HandlerStart
<1>2. ASSUME NEW t \in Task, LocalStep(t) PROVE TypeInv'
  BY <1>2, ClaimReadyType, SubmittedAllType, PeekType, OnNodeFailedType, TryConsumeBudgetType, SubmissionFaultType,
     CollectDownstreamType, SkipCollectedType, ConfirmFailedType, RetryAfterBackoffType,
     MarkRetryRunningType, SaveType, GateType, PublishDagCompleteType, VictimsDoneType,
     AcknowledgeType
     DEF LocalStep
<1>3. ASSUME NEW t \in Task, HandlerStep(t) PROVE TypeInv'
  BY <1>2, <1>3, CompleteNodeType, ClaimFailureType, PublishTaskSubmitType, SubmissionErrorType,
     VictimType DEF HandlerStep
<1>4. QED
  BY <1>1, <1>3, EnvironmentType, StutterType DEF Next

\* The type invariant, with the listener's message still in the stream.
THEOREM TypeInvariant == Spec => []TypeInv
<1>1. QED
  BY InitType, NextType, PTL DEF Spec

\* Every variable keeps its type: no counter of messages drops below zero, no
\* node is retried more often than max_retries allows.
THEOREM TypeCorrect == Spec => []TypeOK
<1>1. TypeInv => TypeOK
  BY DEF TypeInv
<1>2. QED
  BY <1>1, TypeInvariant, PTL

-----------------------------------------------------------------------------
(***************************************************************************)
(* The budget.  A step either leaves agentCalls alone or reserves one call *)
(* it has just found available: the peek of check_budget plays no part.    *)
(***************************************************************************)
LEMMA CallsStep ==
  ASSUME [Next]_vars
  PROVE  \/ UNCHANGED agentCalls
         \/ ~BudgetExhausted /\ agentCalls' = agentCalls + 1
<1>1. ASSUME NEW t \in Task, HandlerStart(t) PROVE UNCHANGED agentCalls
  BY <1>1
     DEF HandlerStart, SubmitGraph, OnNodeCompleted, IdleTimeout, DagTimeout, StallPoll,
         TimerExits, Cancel
<1>2. ASSUME NEW t \in Task, LocalStep(t), ~TryConsumeBudget(t) PROVE UNCHANGED agentCalls
  BY <1>2
     DEF LocalStep, ClaimReady, SubmittedAll, Peek, OnNodeFailed, SubmissionFault,
         CollectDownstream, SkipCollected, ConfirmFailed, RetryAfterBackoff, MarkRetryRunning, SaveGraph, SaveFault, SwapFinalized,
         PublishDagComplete, NotTerminal, ReleaseGate, VictimsFailed, CancelStatuses,
         Acknowledge, Redelivery, DeliveriesExhausted
<1>3. ASSUME NEW t \in Task, TryConsumeBudget(t)
      PROVE  \/ UNCHANGED agentCalls
             \/ ~BudgetExhausted /\ agentCalls' = agentCalls + 1
  BY <1>3 DEF TryConsumeBudget
<1>4. ASSUME NEW t \in Task, HandlerStep(t), ~LocalStep(t) PROVE UNCHANGED agentCalls
  BY <1>4
     DEF HandlerStep, CompleteNode, ClaimFailure, PublishTaskSubmit, SubmissionError,
         FailNextVictim, CancelNextVictim
<1>5. ASSUME Environment \/ UNCHANGED vars PROVE UNCHANGED agentCalls
  BY <1>5
     DEF Environment, ExecutionCompletes, ExecutionFails, WatcherExits, DeadlinePasses,
         ProgressGoesStale, vars
<1>6. QED
  BY <1>1, <1>2, <1>3, <1>4, <1>5 DEF Next

\* The agent-call budget of a DAG is never exceeded, however many tasks submit
\* at once.
THEOREM BudgetIsRespected == Spec => []BudgetRespected
<1>1. Init => BudgetRespected
  BY SchedulerAssumption DEF Init, BudgetRespected
<1>2. ASSUME TypeInv, BudgetRespected, [Next]_vars PROVE BudgetRespected'
  BY <1>2, CallsStep, SchedulerAssumption
     DEF BudgetRespected, BudgetExhausted, TypeInv, TypeOK
<1>3. QED
  BY <1>1, <1>2, TypeInvariant, PTL DEF Spec

-----------------------------------------------------------------------------
(***************************************************************************)
(* The gate.  DagCompleteOnce is not inductive: it needs that the gate is  *)
(* a mutual exclusion.  A task between the swap that found FALSE and the   *)
(* release or the publication holds the gate; there is at most one, the    *)
(* gate reads TRUE as long as there is one, and once the end is published  *)
(* the gate is never released again.                                       *)
(***************************************************************************)
Holding(f) == f.pc \in {"check", "ungate"}

GateInv ==
    /\ published \in {0, 1}
    /\ published = 1 => finalized
    /\ \A u \in Task : Holding(task[u]) => finalized /\ published = 0
    /\ \A u, w \in Task : Holding(task[u]) /\ Holding(task[w]) => u = w

\* A step after which no other task holds the gate, and that leaves the gate alone.
LEMMA GateKept ==
  ASSUME GateInv, UNCHANGED gateVars,
         \A u \in Task : Holding(task'[u]) => Holding(task[u])
  PROVE  GateInv'
BY DEF GateInv, Holding, gateVars

\* A step of t to a frame that does not hold the gate.
LEMMA GateStep ==
  ASSUME TypeInv, GateInv, UNCHANGED gateVars,
         NEW t \in Task, NEW f, Step(t, f), ~Holding(f)
  PROVE  GateInv'
<1>1. \A u \in Task : Holding(task'[u]) => Holding(task[u])
  BY DEF Step, TypeInv, TypeOK
<1>2. QED
  BY <1>1, GateKept

\* A handler that returns holds no gate, nor does one that resumes after
\* finalize_if_terminal or that enters it.
LEMMA NoGate ==
  ASSUME TypeInv, NEW t \in Task, NEW f \in Frame, NEW after
  PROVE  /\ ~Holding(Returned(t, f))
         /\ ~Holding(Finalized(t))
         /\ ~Holding([f EXCEPT !.pc = "gate", !.after = after])
<1>1. \A g \in Frame : ~Holding(Returned(t, g))
  BY DEF Holding, Returned, Resting, Frame
<1>2. task[t] \in Frame
  BY DEF TypeInv, TypeOK
<1>3. ~Holding([task[t] EXCEPT !.pc = "suberr"])
  BY <1>2 DEF Holding, Frame
<1>4. ~Holding([f EXCEPT !.pc = "gate", !.after = after])
  BY DEF Holding, Frame
<1>5. QED
  BY <1>1, <1>2, <1>3, <1>4 DEF Finalized

\* The first step of every handler keeps the gate invariant.
LEMMA GateHandlerStart ==
  ASSUME TypeInv, GateInv, NEW t \in Task, HandlerStart(t)
  PROVE  GateInv'
<1> task[t] \in Frame
  BY DEF TypeInv, TypeOK
<1>1. UNCHANGED gateVars
  BY DEF HandlerStart, SubmitGraph, OnNodeCompleted, IdleTimeout, DagTimeout, StallPoll,
         TimerExits, Cancel
<1>2. CASE SubmitGraph(t)
  <2> DEFINE f == [task[t] EXCEPT !.pc = "claim", !.op = "submit"]
  <2>1. ~Holding(Resting("off")) /\ ~Holding(Resting("idle")) /\ ~Holding(f)
    BY DEF Holding, Resting, Frame
  <2>2. CASE deadlinePassed
    BY <1>1, <1>2, <2>1, <2>2, GateStep DEF SubmitGraph
  <2>3. CASE ~deadlinePassed
    <3>1. task' = [u \in Task |->
              IF u = t THEN f
              ELSE IF (u = DagTimer /\ HasDagTimeout) \/ (u = StallTimer /\ HasStallTimeout)
              THEN Resting("idle") ELSE task[u]]
      BY <1>2, <2>3 DEF SubmitGraph
    <3> HIDE DEF f
    <3>2. \A u \in Task : Holding(task'[u]) => Holding(task[u])
      BY <2>1, <3>1
    <3>3. QED
      BY <1>1, <3>2, GateKept
  <2>4. QED
    BY <2>2, <2>3
<1>3. ASSUME NEW n \in Node, OnNodeCompleted(t, n) PROVE GateInv'
  <2>1. ~Holding([task[t] EXCEPT !.pc = "complete", !.op = "completed", !.event = n,
                                 !.late = deadlinePassed])
    BY DEF Holding, Frame
  <2>2. QED
    BY <1>1, <1>3, <2>1, GateStep DEF OnNodeCompleted
<1>4. ASSUME NEW n \in Node, IdleTimeout(t, n) PROVE GateInv'
  <2>1. ~Holding([Resting("fail") EXCEPT !.op = "failed", !.node = n])
    BY DEF Holding, Resting
  <2>2. QED
    BY <1>1, <1>4, <2>1, GateStep DEF IdleTimeout
<1>5. CASE TimerExits(t) \/ DagTimeout(t) \/ StallPoll(t) \/ Cancel(t)
  <2>1. /\ ~Holding(Resting("off"))
        /\ \A V : ~Holding([task[t] EXCEPT !.pc = "victims", !.victims = V])
        /\ \A V : ~Holding([task[t] EXCEPT !.pc = "victims", !.op = "cancel", !.victims = V])
    BY DEF Holding, Resting, Frame
  <2>2. QED
    BY <1>1, <1>5, <2>1, NoGate, GateStep
       DEF TimerExits, DagTimeout, StallPoll, Cancel, Finalize
<1>6. QED
  BY <1>2, <1>3, <1>4, <1>5 DEF HandlerStart

\* The steps of finalize_if_terminal itself.
LEMMA GateProtocol ==
  ASSUME TypeInv, GateInv, NEW t \in Task,
         SwapFinalized(t) \/ PublishDagComplete(t) \/ NotTerminal(t) \/ ReleaseGate(t)
  PROVE  GateInv'
<1> task[t] \in Frame /\ task \in [Task -> Frame]
  BY DEF TypeInv, TypeOK
<1>1. ~Holding(Finalized(t))
  BY NoGate
<1>2. CASE SwapFinalized(t)
  <2>1. CASE finalized
    BY <1>1, <1>2, <2>1, GateStep DEF SwapFinalized, gateVars
  <2>2. CASE ~finalized
    <3>1. finalized' /\ published' = published /\ published = 0
      BY <1>2, <2>2 DEF SwapFinalized, GateInv
    <3>2. \A u \in Task : ~Holding(task[u])
      BY <2>2 DEF GateInv
    <3>3. \A u \in Task : u # t => task'[u] = task[u]
      BY <1>2, <2>2 DEF SwapFinalized, Goto, Step
    <3>4. QED
      BY <3>1, <3>2, <3>3 DEF GateInv
  <2>3. QED
    BY <2>1, <2>2
<1>3. CASE PublishDagComplete(t)
  <2>1. Holding(task[t])
    BY <1>3 DEF PublishDagComplete, At, Holding
  <2>2. finalized' /\ published' = 1
    BY <1>3, <2>1 DEF PublishDagComplete, GateInv
  <2>3. ~Holding(Resting("off"))
    BY DEF Holding, Resting
  <2>4. \A u \in Task : task'[u] \in {Resting("off"), Finalized(t)} \/ (u # t /\ task'[u] = task[u])
    BY <1>3 DEF PublishDagComplete
  <2>5. \A u \in Task : ~Holding(task'[u])
    BY <1>1, <2>1, <2>3, <2>4 DEF GateInv
  <2>6. QED
    BY <2>2, <2>5 DEF GateInv
<1>4. CASE NotTerminal(t)
  <2>1. Holding(task[t])
    BY <1>4 DEF NotTerminal, At, Holding
  <2>2. \A u \in Task : u # t => task'[u] = task[u]
    BY <1>4 DEF NotTerminal, Goto, Step
  <2>3. QED
    BY <1>4, <2>1, <2>2, GateKept DEF NotTerminal
<1>5. CASE ReleaseGate(t)
  <2>1. Holding(task[t])
    BY <1>5 DEF ReleaseGate, At, Holding
  <2>2. published' = 0
    BY <1>5, <2>1 DEF ReleaseGate, GateInv
  <2>3. \A u \in Task : task'[u] = IF u = t THEN Finalized(t) ELSE task[u]
    BY <1>5 DEF ReleaseGate, Step
  <2>4. \A u \in Task : ~Holding(task'[u])
    BY <1>1, <2>1, <2>3 DEF GateInv
  <2>5. QED
    BY <2>2, <2>4 DEF GateInv
<1>6. QED
  BY <1>2, <1>3, <1>4, <1>5

\* The other steps of a handler go to a frame that does not hold the gate.
LEMMA GateHandlerStep ==
  ASSUME TypeInv, GateInv, NEW t \in Task, HandlerStep(t),
         ~SwapFinalized(t), ~PublishDagComplete(t), ~NotTerminal(t), ~ReleaseGate(t)
  PROVE  GateInv'
<1> task[t] \in Frame
  BY DEF TypeInv, TypeOK
<1>1. UNCHANGED gateVars
  BY DEF HandlerStep, LocalStep, ClaimReady, CompleteNode, OnNodeFailed, ClaimFailure,
         SubmittedAll, Peek, TryConsumeBudget, SubmissionFault, CollectDownstream, SkipCollected, ConfirmFailed, RetryAfterBackoff, MarkRetryRunning,
         SaveGraph, SaveFault, VictimsFailed, CancelStatuses, Acknowledge, Redelivery,
         DeliveriesExhausted, PublishTaskSubmit, SubmissionError, FailNextVictim,
         CancelNextVictim
<1>2. ASSUME NEW pc \in Pc \ {"check", "ungate"}
      PROVE  /\ ~Holding([task[t] EXCEPT !.pc = pc])
             /\ \A e : ~Holding([task[t] EXCEPT !.pc = pc, !.err = e])
             /\ \A S : ~Holding([task[t] EXCEPT !.pc = pc, !.skip = S])
             /\ \A S : ~Holding([task[t] EXCEPT !.pc = pc, !.todo = S])
             /\ \A n, V : ~Holding([task[t] EXCEPT !.pc = pc, !.node = n, !.victims = V])
  BY DEF Holding, Frame
<1>3. ~Holding(Resting("idle")) /\ ~Holding(Resting("off"))
  BY DEF Holding, Resting
<1>4. /\ ~Holding(Returned(t, task[t]))
      /\ \A f \in Frame, after \in {"return", "suberr"} :
            ~Holding([f EXCEPT !.pc = "gate", !.after = after])
  BY NoGate
<1>5. CASE SubmittedAll(t) \/ ConfirmFailed(t) \/ PublishTaskSubmit(t) \/ CancelStatuses(t)
  BY <1>1, <1>2, <1>5, GateStep
     DEF SubmittedAll, ConfirmFailed, PublishTaskSubmit, CancelStatuses, Goto, Pc
<1>6. ASSUME NEW n \in Node, Peek(t, n) PROVE GateInv'
  <2> DEFINE f == IF At(t, "next") THEN [task[t] EXCEPT !.node = n, !.todo = @ \ {n}] ELSE task[t]
             g == [f EXCEPT !.err = "permanent"]
             h == [f EXCEPT !.pc = "consume"]
  <2>1. f \in Frame
    BY DEF Frame
  <2>2. Finalize(t, g, "suberr") \/ Step(t, h)
    BY <1>6 DEF Peek
  <2> HIDE DEF f
  <2>3. g \in Frame /\ ~Holding(h)
    BY <2>1 DEF Frame, Holding
  <2> HIDE DEF g, h
  <2>4. QED
    BY <1>1, <1>4, <2>2, <2>3, GateStep DEF Finalize
<1>7. CASE TryConsumeBudget(t)
  <2> DEFINE g == [task[t] EXCEPT !.err = "permanent"]
  <2>1. g \in Frame
    BY DEF Frame
  <2>2. Finalize(t, g, "suberr") \/ Goto(t, "publish")
    BY <1>7 DEF TryConsumeBudget
  <2> HIDE DEF g
  <2>3. QED
    BY <1>1, <1>2, <1>4, <2>1, <2>2, GateStep DEF Finalize, Goto, Pc
<1>8. CASE SubmissionFault(t) \/ SubmissionError(t)
  <2>1. PICK pc \in Pc \ {"check", "ungate"}, e \in {"none", "transient", "permanent"} :
                Step(t, [task[t] EXCEPT !.pc = pc, !.err = e])
    BY <1>8 DEF SubmissionFault, SubmissionError, Pc
  <2>2. QED
    BY <1>1, <1>2, <2>1, GateStep
<1>9. CASE CollectDownstream(t)
  BY <1>1, <1>2, <1>9, GateStep DEF CollectDownstream, Pc
<1>10. CASE SkipCollected(t)
  <2> DEFINE f == [task[t] EXCEPT !.skip = {}]
             g == [f EXCEPT !.pc = IF task[t].op = "failed" THEN "save" ELSE "next"]
  <2>1. f \in Frame /\ Step(t, g)
    BY <1>10 DEF Frame, SkipCollected
  <2> HIDE DEF f
  <2>2. ~Holding(g)
    BY <2>1 DEF Frame, Holding
  <2>3. QED
    BY <1>1, <2>1, <2>2, GateStep
<1>11. CASE RetryAfterBackoff(t) \/ MarkRetryRunning(t)
  BY <1>1, <1>2, <1>4, <1>11, GateStep DEF RetryAfterBackoff, MarkRetryRunning, Goto, Return, Pc
<1>12. CASE SaveGraph(t) \/ SaveFault(t)
  <2> DEFINE f == [task[t] EXCEPT !.err = "transient"]
  <2>1. f \in Frame
    BY DEF Frame
  <2>2. Return(t, task[t]) \/ Finalize(t, task[t], "return") \/ Return(t, f)
    BY <1>12 DEF SaveGraph, SaveFault
  <2> HIDE DEF f
  <2>3. ~Holding(Returned(t, f))
    BY <2>1, NoGate
  <2>4. QED
    BY <1>1, <1>4, <2>2, <2>3, GateStep DEF Return, Finalize
<1>13. CASE \/ VictimsFailed(t) \/ Acknowledge(t) \/ Redelivery(t) \/ DeliveriesExhausted(t)
  BY <1>1, <1>3, <1>13, GateStep DEF VictimsFailed, Acknowledge, Redelivery, DeliveriesExhausted
<1>14. ASSUME NEW v \in Node \X TaskStatus, FailNextVictim(t, v) PROVE GateInv'
  BY <1>1, <1>2, <1>14, GateStep DEF FailNextVictim, Pc
<1>15. ASSUME NEW v \in Node \X TaskStatus, CancelNextVictim(t, v) PROVE GateInv'
  <2>1. ~Holding([task[t] EXCEPT !.victims = @ \ {v}])
    BY <1>15 DEF CancelNextVictim, At, Holding, Frame
  <2>2. QED
    BY <1>1, <1>15, <2>1, GateStep DEF CancelNextVictim
<1>16. CASE ClaimReady(t) \/ CompleteNode(t)
  <2>1. ASSUME NEW S \in SUBSET Node, Step(t, [task[t] EXCEPT !.pc = "next", !.todo = S])
        PROVE  GateInv'
    <3> DEFINE f == [task[t] EXCEPT !.pc = "next", !.todo = S]
    <3>1. ~Holding(f) /\ Step(t, f)
      BY <2>1 DEF Frame, Holding
    <3> HIDE DEF f
    <3>2. QED
      BY <1>1, <3>1, GateStep
  <2>2. CASE ClaimReady(t)
    <3>1. PICK unmet \in SUBSET (ReadyTasks(status) \cap Conditional) :
             Step(t, [task[t] EXCEPT !.pc = "next", !.todo = ReadyTasks(status) \ unmet])
      BY <2>2, Zenon DEF ClaimReady
    <3>2. ReadyTasks(status) \ unmet \in SUBSET Node
      BY DEF ReadyTasks, InStatus
    <3>3. QED
      BY <2>1, <3>1, <3>2, Zenon
  <2>3. CASE CompleteNode(t)
    <3>1. CASE Goto(t, "ack")
      BY <1>1, <1>2, <3>1, GateStep DEF Goto, Pc
    <3>2. ASSUME NEW st, Step(t, [task[t] EXCEPT !.pc = "next", !.todo = ClaimedBy(t, st)])
          PROVE  GateInv'
      <4>1. ClaimedBy(t, st) \in SUBSET Node
        BY DEF ClaimedBy, ReadyTasks, InStatus
      <4>2. QED
        BY <2>1, <3>2, <4>1, Zenon
    <3>3. QED
      BY <2>3, <3>1, <3>2, Zenon DEF CompleteNode
  <2>4. QED
    BY <1>16, <2>2, <2>3
<1>17. ASSUME NEW n \in Node, OnNodeFailed(t, n) PROVE GateInv'
  <2> DEFINE f == [task[t] EXCEPT !.op = "failed", !.node = n,
                                  !.event = IF t = Listener THEN n ELSE @]
             p == [f EXCEPT !.err = "permanent"]
             g == [f EXCEPT !.pc = "failing"]
  <2>1. f \in Frame
    BY DEF Frame, Op
  <2>2. Finalize(t, p, "return") \/ Step(t, g)
    BY <1>17 DEF OnNodeFailed
  <2> HIDE DEF f
  <2>3. p \in Frame /\ ~Holding(g)
    BY <2>1 DEF Frame, Holding
  <2> HIDE DEF p, g
  <2>4. QED
    BY <1>1, <1>4, <2>2, <2>3, GateStep DEF Finalize
<1>18. CASE ClaimFailure(t)
  BY <1>1, <1>2, <1>4, <1>18, GateStep DEF ClaimFailure, Goto, Return, Pc
<1>19. QED
  BY <1>5, <1>6, <1>7, <1>8, <1>9, <1>10, <1>11, <1>12, <1>13, <1>14, <1>15, <1>16, <1>17, <1>18
     DEF HandlerStep, LocalStep

\* Every step keeps the gate invariant.
LEMMA GateNext == ASSUME TypeInv, GateInv, [Next]_vars PROVE GateInv'
<1>1. ASSUME Environment \/ UNCHANGED vars PROVE GateInv'
  <2>1. UNCHANGED <<gateVars, task>>
    BY <1>1
       DEF Environment, ExecutionCompletes, ExecutionFails, WatcherExits, DeadlinePasses,
           ProgressGoesStale, vars
  <2>2. QED
    BY <2>1, GateKept
<1>2. ASSUME NEW t \in Task, HandlerStep(t) PROVE GateInv'
  BY <1>2, GateProtocol, GateHandlerStep
<1>3. QED
  BY <1>1, <1>2, GateHandlerStart DEF Next

\* The end of the DAG is published at most once, however many tasks reach
\* finalize_if_terminal and however often the gate is released in between.
THEOREM AnnouncedOnce == Spec => []DagCompleteOnce
<1>1. Init => GateInv
  <2> SUFFICES ASSUME Init PROVE GateInv
    OBVIOUS
  <2>1. \A u \in Task : ~Holding(task[u])
    BY DEF Init, Holding, Resting
  <2>2. finalized = FALSE /\ published = 0
    BY DEF Init
  <2>3. QED
    BY <2>1, <2>2 DEF GateInv
<1>2. TypeInv /\ GateInv /\ [Next]_vars => GateInv'
  BY GateNext
<1>3. GateInv => DagCompleteOnce
  BY DEF GateInv, DagCompleteOnce
<1>4. QED
  BY <1>1, <1>2, <1>3, TypeInvariant, PTL DEF Spec

-----------------------------------------------------------------------------
(***************************************************************************)
(* Dependency order.  DispatchedInOrder is about what was published; it    *)
(* needs that every place a node passes through on its way there keeps it  *)
(* cleared: the nodes Running, the nodes a task has claimed and not yet    *)
(* submitted, and the node a task submits or retries.                      *)
(***************************************************************************)
Cleared == {n \in Node : DependsOn[n] \subseteq result}

InOrder(f) ==
    /\ f.todo \subseteq Cleared
    /\ f.pc \in {"backoff", "peek", "consume", "publish", "running"} => f.node \in Cleared

OrderInv ==
    /\ InStatus(status, "Completed") \subseteq result
    /\ InStatus(status, "Running") \subseteq Cleared
    /\ \A u \in Task : InOrder(task[u])
    /\ DispatchedInOrder

\* Ready nodes are cleared, in a graph whose Completed nodes have a result.
LEMMA ReadyIsCleared ==
  ASSUME NEW st, InStatus(st, "Completed") \subseteq result,
         DependsOn \in [Node -> SUBSET Node]
  PROVE  ReadyTasks(st) \subseteq Cleared
BY DEF ReadyTasks, InStatus, Cleared

\* Only WithStatus(_, _, v) brings nodes to status v.
LEMMA WithStatusBrings ==
  ASSUME NEW st, NEW S, NEW v, NEW w
  PROVE  InStatus(WithStatus(st, S, v), w)
            \subseteq InStatus(st, w) \cup (IF v = w THEN S ELSE {})
BY DEF WithStatus, InStatus

\* A step that brings no node to Completed, and to Running only a cleared one.
LEMMA OrderKept ==
  ASSUME OrderInv, UNCHANGED <<result, dispatched>>,
         \A u \in Task : InOrder(task'[u]),
         InStatus(status', "Completed") \subseteq InStatus(status, "Completed"),
         InStatus(status', "Running") \subseteq InStatus(status, "Running") \cup Cleared
  PROVE  OrderInv'
BY DEF OrderInv, InOrder, Cleared, DispatchedInOrder, InStatus

\* The same for a step of t to one frame.
LEMMA OrderStep ==
  ASSUME TypeInv, OrderInv, UNCHANGED <<result, dispatched>>,
         NEW t \in Task, NEW f, Step(t, f), InOrder(f),
         InStatus(status', "Completed") \subseteq InStatus(status, "Completed"),
         InStatus(status', "Running") \subseteq InStatus(status, "Running") \cup Cleared
  PROVE  OrderInv'
<1>1. \A u \in Task : InOrder(task'[u])
  BY DEF OrderInv, Step, TypeInv, TypeOK
<1>2. QED
  BY <1>1, OrderKept

\* A handler that returns, or that enters or leaves finalize_if_terminal, keeps
\* its claimed nodes or drops them.
LEMMA OrderFrames ==
  ASSUME TypeInv, OrderInv, NEW t \in Task, NEW f \in Frame, f.todo \subseteq Cleared, NEW after
  PROVE  /\ InOrder(Returned(t, f))
         /\ InOrder(Finalized(t))
         /\ InOrder([f EXCEPT !.pc = "gate", !.after = after])
<1>1. \A g \in Frame : g.todo \subseteq Cleared => InOrder(Returned(t, g))
  BY DEF InOrder, Returned, Resting, Frame
<1>2. task[t] \in Frame /\ task[t].todo \subseteq Cleared
  BY DEF TypeInv, TypeOK, OrderInv, InOrder
<1>3. InOrder([task[t] EXCEPT !.pc = "suberr"])
  BY <1>2 DEF InOrder, Frame
<1>4. InOrder([f EXCEPT !.pc = "gate", !.after = after])
  BY DEF InOrder, Frame
<1>5. QED
  BY <1>1, <1>2, <1>3, <1>4 DEF Finalized

\* submit_graph and on_node_completed claim nothing as they begin.
LEMMA OrderEntry ==
  ASSUME TypeInv, OrderInv, NEW t \in Task,
         SubmitGraph(t) \/ \E n \in Node : OnNodeCompleted(t, n)
  PROVE  OrderInv'
<1> task[t] \in Frame /\ task \in [Task -> Frame] /\ task[t].todo \subseteq Cleared
  BY DEF TypeInv, TypeOK, OrderInv, InOrder
<1>1. UNCHANGED <<status, result, dispatched>>
  BY DEF SubmitGraph, OnNodeCompleted, graphVars, busVars
<1>2. /\ InOrder(Resting("off")) /\ InOrder(Resting("idle"))
      /\ InOrder([task[t] EXCEPT !.pc = "claim", !.op = "submit"])
      /\ \A n, l : InOrder([task[t] EXCEPT !.pc = "complete", !.op = "completed", !.event = n,
                                           !.late = l])
  BY DEF InOrder, Resting, Frame
<1>3. CASE SubmitGraph(t)
  <2> DEFINE f == [task[t] EXCEPT !.pc = "claim", !.op = "submit"]
  <2>1. InOrder(f)
    BY <1>2
  <2>2. \A u \in Task : task'[u] \in {Resting("off"), Resting("idle"), f, task[u]}
    BY <1>3 DEF SubmitGraph, Step
  <2> HIDE DEF f
  <2>3. \A u \in Task : InOrder(task'[u])
    BY <1>2, <2>1, <2>2 DEF OrderInv
  <2>4. QED
    BY <1>1, <2>3, OrderKept
<1>4. CASE \E n \in Node : OnNodeCompleted(t, n)
  BY <1>1, <1>2, <1>4, OrderStep DEF OnNodeCompleted
<1>5. QED
  BY <1>3, <1>4

\* The claim of submit_graph: what is left after the unmet conditions is ready.
LEMMA OrderClaimReady ==
  ASSUME TypeInv, OrderInv, NEW t \in Task, ClaimReady(t)
  PROVE  OrderInv'
<1> task[t] \in Frame
  BY DEF TypeInv, TypeOK
<1>1. UNCHANGED <<result, dispatched>>
  BY DEF ClaimReady, busVars
<1>2. PICK U :
         /\ status' = WithStatus(SkipBelow(WithStatus(status, U, "Skipped"), U),
                                 ReadyTasks(status) \ U, "Running")
         /\ Step(t, [task[t] EXCEPT !.pc = "next", !.todo = ReadyTasks(status) \ U])
  BY DEF ClaimReady
<1> DEFINE S == ReadyTasks(status) \ U
           f == [task[t] EXCEPT !.pc = "next", !.todo = S]
<1>3. S \subseteq Cleared
  BY ReadyIsCleared, GraphAssumption DEF OrderInv
<1> HIDE DEF S
<1>4. InOrder(f)
  BY <1>3 DEF InOrder, Frame
<1>5. /\ InStatus(status', "Completed") \subseteq InStatus(status, "Completed")
      /\ InStatus(status', "Running") \subseteq InStatus(status, "Running") \cup S
  BY <1>2 DEF InStatus, WithStatus, SkipBelow, S
<1>6. Step(t, f)
  BY <1>2 DEF S
<1> HIDE DEF f
<1>7. QED
  BY <1>1, <1>3, <1>4, <1>5, <1>6, OrderStep

\* on_node_completed: the result of the node is there before anything it makes
\* ready is claimed.
LEMMA OrderCompleted ==
  ASSUME TypeInv, OrderInv, NEW t \in Task, CompleteNode(t)
  PROVE  OrderInv'
<1> DEFINE n == task[t].event
<1> task[t] \in Frame /\ task \in [Task -> Frame] /\ task[t].todo \subseteq Cleared
  BY DEF TypeInv, TypeOK, OrderInv, InOrder
<1> HIDE DEF n
<1>1. dispatched' = dispatched
  BY DEF CompleteNode, busVars
<1>2. CASE CompletionIsLate(n)
  <2>1. InOrder([task[t] EXCEPT !.pc = "ack"])
    BY DEF InOrder, Frame
  <2>2. Step(t, [task[t] EXCEPT !.pc = "ack"]) /\ UNCHANGED <<status, result>>
    BY <1>2 DEF CompleteNode, Goto, n
  <2>3. QED
    BY <1>1, <2>1, <2>2, OrderStep
<1>3. CASE ~CompletionIsLate(n)
  <2> DEFINE done == WithStatus(status, {n}, "Completed")
  <2>1. result' = result \cup {n}
    BY <1>3 DEF CompleteNode, n
  <2>2. PICK st : /\ \/ st = done
                     \/ \E target : st = SelectBranch(done, n, target)
                  /\ status' = WithStatus(st, ClaimedBy(t, st), "Running")
                  /\ Step(t, [task[t] EXCEPT !.pc = "next", !.todo = ClaimedBy(t, st)])
    BY <1>3 DEF CompleteNode, n
  <2>3. /\ InStatus(st, "Completed") \subseteq result'
        /\ InStatus(st, "Running") \subseteq InStatus(status, "Running")
    <3>1. /\ InStatus(done, "Completed") \subseteq InStatus(status, "Completed") \cup {n}
          /\ InStatus(done, "Running") \subseteq InStatus(status, "Running")
      BY DEF InStatus, WithStatus
    <3>2. ASSUME NEW target
          PROVE  /\ InStatus(SelectBranch(done, n, target), "Completed")
                       \subseteq InStatus(done, "Completed")
                 /\ InStatus(SelectBranch(done, n, target), "Running")
                       \subseteq InStatus(done, "Running")
      <4> HIDE DEF done
      <4>1. QED
        BY DEF InStatus, WithStatus, SelectBranch, SkipBelow
    <3>3. QED
      BY <2>1, <2>2, <3>1, <3>2 DEF OrderInv
  <2>4. ClaimedBy(t, st) \subseteq {m \in Node : DependsOn[m] \subseteq result'}
    BY <2>3, GraphAssumption DEF ClaimedBy, ReadyTasks, InStatus
  <2>5. Cleared \subseteq {m \in Node : DependsOn[m] \subseteq result'}
    BY <2>1 DEF Cleared
  <2>6. \A u \in Task : InOrder(task[u])'
    <3> DEFINE f == [task[t] EXCEPT !.pc = "next", !.todo = ClaimedBy(t, st)]
    <3>1. f.todo = ClaimedBy(t, st) /\ f.pc = "next"
      BY DEF Frame
    <3>2. \A u \in Task : task'[u] = IF u = t THEN f ELSE task[u]
      BY <2>2 DEF Step
    <3> HIDE DEF f
    <3>3. QED
      BY <2>4, <2>5, <3>1, <3>2 DEF InOrder, Cleared, OrderInv
  <2>7. /\ InStatus(status', "Completed") \subseteq result'
        /\ InStatus(status', "Running") \subseteq {m \in Node : DependsOn[m] \subseteq result'}
    <3>1. /\ InStatus(status', "Completed") \subseteq InStatus(st, "Completed")
          /\ InStatus(status', "Running") \subseteq InStatus(st, "Running") \cup ClaimedBy(t, st)
      BY <2>2 DEF InStatus, WithStatus
    <3>2. QED
      BY <2>3, <2>4, <2>5, <3>1 DEF OrderInv
  <2>8. DispatchedInOrder'
    BY <1>1, <2>1 DEF OrderInv, DispatchedInOrder
  <2>9. QED
    BY <2>6, <2>7, <2>8 DEF OrderInv, InStatus, Cleared
<1>4. QED
  BY <1>2, <1>3

\* on_node_failed keeps the order invariant as it begins,
LEMMA OrderFailed ==
  ASSUME TypeInv, OrderInv, NEW t \in Task, NEW n \in Node, OnNodeFailed(t, n)
  PROVE  OrderInv'
<1> DEFINE f == [task[t] EXCEPT !.op = "failed", !.node = n,
                                !.event = IF t = Listener THEN n ELSE @]
           p == [f EXCEPT !.err = "permanent"]
           g == [f EXCEPT !.pc = "failing"]
<1> task[t] \in Frame /\ task[t].todo \subseteq Cleared
  BY DEF TypeInv, TypeOK, OrderInv, InOrder
<1>1. f \in Frame /\ f.todo \subseteq Cleared
  BY DEF Frame, Op
<1>2. Finalize(t, p, "return") \/ Step(t, g)
  BY DEF OnNodeFailed
<1> HIDE DEF f
<1>3. p \in Frame /\ p.todo \subseteq Cleared /\ InOrder(g)
  BY <1>1 DEF Frame, InOrder
<1> HIDE DEF p, g
<1>4. InOrder([p EXCEPT !.pc = "gate", !.after = "return"])
  BY <1>3, OrderFrames
<1>5. UNCHANGED <<status, result, dispatched>>
  BY DEF OnNodeFailed, graphVars, busVars
<1>6. QED
  BY <1>2, <1>3, <1>4, <1>5, OrderStep DEF Finalize

\* and in its lock hold, where it grants a retry only to a Running node.
LEMMA OrderClaimFailure ==
  ASSUME TypeInv, OrderInv, NEW t \in Task, ClaimFailure(t)
  PROVE  OrderInv'
<1> DEFINE b == [task[t] EXCEPT !.pc = "backoff"]
           c == [task[t] EXCEPT !.pc = "confirm"]
<1> task[t] \in Frame /\ task[t].todo \subseteq Cleared
  BY DEF TypeInv, TypeOK, OrderInv, InOrder
<1>1. task[t].node \in Node
  BY DEF ClaimFailure, At, TypeInv, TasksOK, Named
<1>2. \/ Return(t, task[t]) /\ UNCHANGED status
      \/ /\ Step(t, b) /\ FailureIsClaimed(task[t].node)
         /\ status' = WithStatus(status, {task[t].node}, "Pending")
      \/ Step(t, c) /\ status' = WithStatus(status, {task[t].node}, "Failed")
  BY DEF ClaimFailure, Goto
<1>3. FailureIsClaimed(task[t].node) => InOrder(b)
  BY <1>1 DEF FailureIsClaimed, OrderInv, InStatus, InOrder, Frame
<1>4. InOrder(c) /\ InOrder(Returned(t, task[t]))
  BY OrderFrames DEF InOrder, Frame
<1> HIDE DEF b, c
<1>5. /\ InStatus(status', "Completed") \subseteq InStatus(status, "Completed")
      /\ InStatus(status', "Running") \subseteq InStatus(status, "Running")
  BY <1>2 DEF InStatus, WithStatus
<1>6. UNCHANGED <<result, dispatched>>
  BY DEF ClaimFailure, busVars
<1>7. QED
  BY <1>2, <1>3, <1>4, <1>5, <1>6, OrderStep DEF Return

\* The watchers and cancel_remaining_nodes claim nothing.
LEMMA OrderWatchers ==
  ASSUME TypeInv, OrderInv, NEW t \in Task,
         \/ \E n \in Node : IdleTimeout(t, n)
         \/ DagTimeout(t) \/ StallPoll(t) \/ TimerExits(t) \/ Cancel(t)
  PROVE  OrderInv'
<1> task[t] \in Frame /\ task[t].todo \subseteq Cleared
  BY DEF TypeInv, TypeOK, OrderInv, InOrder
<1>1. UNCHANGED <<status, result, dispatched>>
  BY DEF IdleTimeout, DagTimeout, StallPoll, TimerExits, Cancel, graphVars, busVars
<1>2. /\ \A n : InOrder([Resting("fail") EXCEPT !.op = "failed", !.node = n])
      /\ InOrder(Resting("off"))
  BY DEF InOrder, Resting
<1>3. /\ \A V : InOrder([task[t] EXCEPT !.pc = "victims", !.victims = V])
      /\ \A V : InOrder([task[t] EXCEPT !.pc = "victims", !.op = "cancel", !.victims = V])
      /\ InOrder([task[t] EXCEPT !.pc = "gate", !.after = "return"])
  BY DEF InOrder, Frame
<1>4. QED
  BY <1>1, <1>2, <1>3, OrderStep
     DEF IdleTimeout, DagTimeout, StallPoll, TimerExits, Cancel, Finalize

\* The reservation and the publication: a node goes from the claimed nodes, or
\* from a retry, to the task scheduler.
LEMMA OrderSubmission ==
  ASSUME TypeInv, OrderInv, NEW t \in Task,
         \/ SubmittedAll(t) \/ (\E n \in Node : Peek(t, n)) \/ TryConsumeBudget(t)
         \/ SubmissionFault(t) \/ PublishTaskSubmit(t)
  PROVE  OrderInv'
<1> task[t] \in Frame /\ InOrder(task[t])
  BY DEF TypeInv, TypeOK, OrderInv
<1>1. UNCHANGED <<status, result>>
  BY DEF SubmittedAll, Peek, TryConsumeBudget, SubmissionFault, PublishTaskSubmit, graphVars
<1>2. /\ InOrder([task[t] EXCEPT !.pc = "save"])
      /\ InOrder([task[t] EXCEPT !.pc = "next"])
      /\ InOrder([task[t] EXCEPT !.pc = "suberr", !.err = "transient"])
  BY DEF InOrder, Frame
<1>3. At(t, "consume") => InOrder([task[t] EXCEPT !.pc = "publish"])
  BY DEF InOrder, Frame, At
<1>4. At(t, "publish") => task[t].node \in Cleared /\ InOrder([task[t] EXCEPT !.pc = "running"])
  BY DEF InOrder, Frame, At
<1>5. CASE SubmittedAll(t) \/ SubmissionFault(t)
  BY <1>1, <1>2, <1>5, OrderStep DEF SubmittedAll, SubmissionFault, Goto, busVars
<1>6. ASSUME NEW n \in Node, Peek(t, n) PROVE OrderInv'
  <2> DEFINE f == IF At(t, "next") THEN [task[t] EXCEPT !.node = n, !.todo = @ \ {n}] ELSE task[t]
             g == [f EXCEPT !.err = "permanent"]
             h == [f EXCEPT !.pc = "consume"]
  <2>1. f \in Frame /\ f.todo \subseteq Cleared /\ f.node \in Cleared
    BY <1>6 DEF Frame, Peek, At, InOrder
  <2>2. Finalize(t, g, "suberr") \/ Step(t, h)
    BY <1>6 DEF Peek
  <2> HIDE DEF f
  <2>3. g \in Frame /\ g.todo \subseteq Cleared /\ InOrder(h)
    BY <2>1 DEF Frame, InOrder
  <2> HIDE DEF g, h
  <2>4. InOrder([g EXCEPT !.pc = "gate", !.after = "suberr"])
    BY <2>3, OrderFrames
  <2>5. dispatched' = dispatched
    BY <1>6 DEF Peek, busVars
  <2>6. QED
    BY <1>1, <2>2, <2>3, <2>4, <2>5, OrderStep DEF Finalize
<1>7. CASE TryConsumeBudget(t)
  <2> DEFINE g == [task[t] EXCEPT !.err = "permanent"]
  <2>1. g \in Frame /\ g.todo \subseteq Cleared
    BY DEF Frame, InOrder
  <2>2. At(t, "consume") /\ (Finalize(t, g, "suberr") \/ Goto(t, "publish"))
    BY <1>7 DEF TryConsumeBudget
  <2> HIDE DEF g
  <2>3. InOrder([g EXCEPT !.pc = "gate", !.after = "suberr"])
    BY <2>1, OrderFrames
  <2>4. dispatched' = dispatched
    BY <1>7 DEF TryConsumeBudget, busVars
  <2>5. QED
    BY <1>1, <1>3, <2>2, <2>3, <2>4, OrderStep DEF Finalize, Goto
<1>8. CASE PublishTaskSubmit(t)
  <2>1. At(t, "publish") /\ (Goto(t, "running") \/ Goto(t, "next"))
    BY <1>8 DEF PublishTaskSubmit
  <2>2. dispatched' = [dispatched EXCEPT ![task[t].node] = @ + 1]
    BY <1>8 DEF PublishTaskSubmit
  <2>3. DispatchedInOrder'
    BY <1>1, <1>4, <2>1, <2>2 DEF DispatchedInOrder, OrderInv, Cleared, TypeInv, TypeOK
  <2> DEFINE g == [task[t] EXCEPT !.pc = "running"]
             h == [task[t] EXCEPT !.pc = "next"]
  <2>g. InOrder(g) /\ InOrder(h) /\ (Step(t, g) \/ Step(t, h))
    BY <1>2, <1>4, <2>1 DEF Goto
  <2> HIDE DEF g, h
  <2>4. \A u \in Task : InOrder(task'[u])
    BY <2>g DEF Step, OrderInv, TypeInv, TypeOK
  <2>5. QED
    BY <1>1, <2>3, <2>4 DEF OrderInv, InOrder, Cleared
<1>9. QED
  BY <1>5, <1>6, <1>7, <1>8

\* Failed submissions, skips, retries and saves.
LEMMA OrderOutcome ==
  ASSUME TypeInv, OrderInv, NEW t \in Task,
         \/ SubmissionError(t) \/ CollectDownstream(t) \/ SkipCollected(t) \/ ConfirmFailed(t)
         \/ RetryAfterBackoff(t) \/ MarkRetryRunning(t) \/ SaveGraph(t) \/ SaveFault(t)
         \/ VictimsFailed(t) \/ CancelStatuses(t)
  PROVE  OrderInv'
<1> task[t] \in Frame /\ InOrder(task[t]) /\ task[t].todo \subseteq Cleared
  BY DEF TypeInv, TypeOK, OrderInv, InOrder
<1>1. UNCHANGED <<result, dispatched>>
  BY DEF SubmissionError, CollectDownstream, SkipCollected, ConfirmFailed, RetryAfterBackoff,
         MarkRetryRunning, SaveGraph, SaveFault, VictimsFailed, CancelStatuses, graphVars, busVars
<1>2. /\ InOrder([task[t] EXCEPT !.pc = "scan"]) /\ InOrder([task[t] EXCEPT !.pc = "save"])
      /\ InOrder([task[t] EXCEPT !.pc = "scan", !.err = "none"])
      /\ InOrder([task[t] EXCEPT !.pc = "next", !.err = "none"])
      /\ \A S : InOrder([task[t] EXCEPT !.pc = "mark", !.skip = S])
      /\ InOrder(Resting("off"))
  BY DEF InOrder, Frame, Resting
<1>3. At(t, "backoff") => InOrder([task[t] EXCEPT !.pc = "peek"])
  BY DEF InOrder, Frame, At
<1>4. InOrder(Returned(t, task[t])) /\ InOrder([task[t] EXCEPT !.pc = "gate", !.after = "return"])
  BY OrderFrames
<1>5. InStatus(status', "Completed") \subseteq InStatus(status, "Completed")
  BY DEF SubmissionError, CollectDownstream, SkipCollected, ConfirmFailed, RetryAfterBackoff,
         MarkRetryRunning, SaveGraph, SaveFault, VictimsFailed, CancelStatuses, graphVars,
         InStatus, WithStatus
<1>6. At(t, "running") => task[t].node \in Cleared
  BY DEF InOrder, At
<1>7. InStatus(status', "Running") \subseteq InStatus(status, "Running") \cup Cleared
  BY <1>6
     DEF SubmissionError, CollectDownstream, SkipCollected, ConfirmFailed, RetryAfterBackoff,
         MarkRetryRunning, SaveGraph, SaveFault, VictimsFailed, CancelStatuses, graphVars,
         InStatus, WithStatus
<1>8. CASE SubmissionError(t) \/ CollectDownstream(t) \/ ConfirmFailed(t)
  <2>1. PICK f : Step(t, f) /\ InOrder(f)
    BY <1>2, <1>8 DEF SubmissionError, CollectDownstream, ConfirmFailed, Goto
  <2>2. QED
    BY <1>1, <1>5, <1>7, <2>1, OrderStep
<1>9. CASE SkipCollected(t)
  <2> DEFINE f == [task[t] EXCEPT !.skip = {}]
             g == [f EXCEPT !.pc = IF task[t].op = "failed" THEN "save" ELSE "next"]
  <2>1. f \in Frame /\ f.todo \subseteq Cleared /\ Step(t, g)
    BY <1>9 DEF Frame, SkipCollected
  <2> HIDE DEF f
  <2>2. InOrder(g)
    BY <2>1 DEF Frame, InOrder
  <2>3. QED
    BY <1>1, <1>5, <1>7, <2>1, <2>2, OrderStep
<1>10. CASE RetryAfterBackoff(t) \/ MarkRetryRunning(t)
  BY <1>1, <1>3, <1>4, <1>5, <1>7, <1>10, OrderStep
     DEF RetryAfterBackoff, MarkRetryRunning, Goto, Return
<1>11. CASE SaveGraph(t) \/ SaveFault(t)
  <2> DEFINE f == [task[t] EXCEPT !.err = "transient"]
  <2>1. f \in Frame /\ f.todo \subseteq Cleared
    BY DEF Frame
  <2>2. Return(t, task[t]) \/ Finalize(t, task[t], "return") \/ Return(t, f)
    BY <1>11 DEF SaveGraph, SaveFault
  <2> HIDE DEF f
  <2>3. InOrder(Returned(t, f))
    BY <2>1, OrderFrames
  <2>4. QED
    BY <1>1, <1>4, <1>5, <1>7, <2>2, <2>3, OrderStep DEF Return, Finalize
<1>12. CASE VictimsFailed(t) \/ CancelStatuses(t)
  BY <1>1, <1>2, <1>5, <1>7, <1>12, OrderStep DEF VictimsFailed, CancelStatuses, Goto
<1>13. QED
  BY <1>8, <1>9, <1>10, <1>11, <1>12

\* finalize_if_terminal, the acknowledgements and the snapshots move no node.
LEMMA OrderRest ==
  ASSUME TypeInv, OrderInv, NEW t \in Task,
         \/ SwapFinalized(t) \/ PublishDagComplete(t) \/ NotTerminal(t) \/ ReleaseGate(t)
         \/ Acknowledge(t) \/ Redelivery(t) \/ DeliveriesExhausted(t)
         \/ \E v \in Node \X TaskStatus : FailNextVictim(t, v) \/ CancelNextVictim(t, v)
  PROVE  OrderInv'
<1> task[t] \in Frame /\ InOrder(task[t]) /\ task[t].todo \subseteq Cleared
  BY DEF TypeInv, TypeOK, OrderInv, InOrder
<1>1. UNCHANGED <<status, result, dispatched>>
  BY DEF SwapFinalized, PublishDagComplete, NotTerminal, ReleaseGate, Acknowledge, Redelivery,
         DeliveriesExhausted, FailNextVictim, CancelNextVictim, graphVars, busVars
<1>2. /\ InOrder(Resting("idle")) /\ InOrder(Resting("off"))
      /\ InOrder([task[t] EXCEPT !.pc = "check"]) /\ InOrder([task[t] EXCEPT !.pc = "ungate"])
      /\ \A n, V : InOrder([task[t] EXCEPT !.pc = "fail", !.node = n, !.victims = V])
  BY DEF InOrder, Frame, Resting
<1>3. At(t, "victims") => \A V : InOrder([task[t] EXCEPT !.victims = V])
  BY DEF InOrder, Frame, At
<1>4. InOrder(Finalized(t))
  BY OrderFrames
<1>5. CASE SwapFinalized(t) \/ NotTerminal(t) \/ ReleaseGate(t)
  BY <1>1, <1>2, <1>4, <1>5, OrderStep DEF SwapFinalized, NotTerminal, ReleaseGate, Goto
<1>6. CASE PublishDagComplete(t)
  <2>1. \A u \in Task : task'[u] \in {Resting("off"), Finalized(t), task[u]}
    BY <1>6 DEF PublishDagComplete
  <2>2. \A u \in Task : InOrder(task'[u])
    BY <1>2, <1>4, <2>1 DEF OrderInv
  <2>3. QED
    BY <1>1, <2>2, OrderKept
<1>7. CASE Acknowledge(t) \/ Redelivery(t) \/ DeliveriesExhausted(t)
  BY <1>1, <1>2, <1>7, OrderStep DEF Acknowledge, Redelivery, DeliveriesExhausted
<1>8. ASSUME NEW v \in Node \X TaskStatus, FailNextVictim(t, v) \/ CancelNextVictim(t, v)
      PROVE  OrderInv'
  BY <1>1, <1>2, <1>3, <1>8, OrderStep DEF FailNextVictim, CancelNextVictim
<1>9. QED
  BY <1>5, <1>6, <1>7, <1>8

\* Every step keeps the order invariant.
LEMMA OrderNext == ASSUME TypeInv, OrderInv, [Next]_vars PROVE OrderInv'
<1>1. ASSUME Environment \/ UNCHANGED vars PROVE OrderInv'
  <2>1. UNCHANGED <<status, result, dispatched, task>>
    BY <1>1
       DEF Environment, ExecutionCompletes, ExecutionFails, WatcherExits, DeadlinePasses,
           ProgressGoesStale, vars, graphVars, busVars
  <2>2. QED
    BY <2>1, OrderKept DEF OrderInv
<1>2. ASSUME NEW t \in Task, HandlerStart(t) PROVE OrderInv'
  BY <1>2, OrderEntry, OrderWatchers DEF HandlerStart
<1>3. ASSUME NEW t \in Task, HandlerStep(t) PROVE OrderInv'
  BY <1>3, OrderClaimReady, OrderCompleted, OrderFailed, OrderClaimFailure, OrderSubmission,
     OrderOutcome, OrderRest
     DEF HandlerStep, LocalStep
<1>4. QED
  BY <1>1, <1>2, <1>3 DEF Next

\* A node is sent to an agent only after each of its dependencies has delivered
\* a result, whatever message arrived late, twice or out of order.
THEOREM OrderRespected == Spec => []DispatchedInOrder
<1>1. Init => OrderInv
  <2> SUFFICES ASSUME Init PROVE OrderInv
    OBVIOUS
  <2>1. \A u \in Task : InOrder(task[u])
    BY DEF Init, InOrder, Resting
  <2>2. InStatus(status, "Completed") = {} /\ InStatus(status, "Running") = {}
    BY DEF Init, InStatus
  <2>3. DispatchedInOrder
    BY DEF Init, DispatchedInOrder
  <2>4. QED
    BY <2>1, <2>2, <2>3 DEF OrderInv
<1>2. TypeInv /\ OrderInv /\ [Next]_vars => OrderInv'
  BY OrderNext
<1>3. OrderInv => DispatchedInOrder
  BY DEF OrderInv
<1>4. QED
  BY <1>1, <1>2, <1>3, TypeInvariant, PTL DEF Spec
=============================================================================
