----------------------------- MODULE DagPipeline -----------------------------
(***************************************************************************)
(* The DAG scheduler with the task scheduler it drives: what DagScheduler  *)
(* publishes, TaskScheduler consumes, and what DagScheduler learns of the  *)
(* end of a node it tells TaskScheduler through mark_completed and         *)
(* cancel_running_task.  A session is an agent that works on a node and    *)
(* reports its end once; it exists because TaskScheduler launched it.      *)
(***************************************************************************)
EXTENDS DagScheduler

CONSTANTS
    AgentOf,   \* [Node -> agents], TaskNode.agent
    Limit      \* concurrency_limit

ASSUME PipelineAssumption == Limit \in Nat \ {0}

VARIABLES
    stream, submits, seen, releasing, pending, processing, permits, queueFile, worker,
    launches, dropped,
    sessions,  \* agents at work on a node that have not reported
    stopping   \* agents a task has released and waits to see stopped

TS == INSTANCE TaskScheduler WITH
    TaskId <- Node, Priority <- [n \in Node |-> 2],
    SeenCap <- 10000, AnyTimeRelease <- TRUE,
    MaxSubmits <- MaxAgentCalls, MaxRedeliveries <- 0, MaxFaults <- 0, MaxCrashes <- 0,
    redeliveries <- 0, faults <- 0, crashes <- 0

taskVars == <<stream, submits, seen, releasing, pending, processing, permits, queueFile, worker,
              launches, dropped>>
agentVars == <<sessions, stopping>>
pipeVars == <<vars, taskVars, agentVars>>

PipeInit ==
    /\ Init /\ TS!Init
    /\ sessions = [n \in Node |-> 0] /\ stopping = [t \in Task |-> 0]

\* mark_completed, up to FreeSeen.
MarkCompleted(n) ==
    \/ TS!ReleaseProcessing(n)
    \/ TS!ReleaseUnlaunched(n)
    \/ TS!EntriesOf(n) = {} /\ n \notin seen /\ UNCHANGED taskVars

\* generate_and_submit hands the node to the task scheduler.
Dispatch(t) ==
    /\ PublishTaskSubmit(t) /\ TS!Submit(task[t].node)
    /\ UNCHANGED agentVars

\* Mutated form of NodeCompleted: the task scheduler is not told.
NodeCompletedSilently(t) ==
    /\ CompleteNode(t)
    /\ UNCHANGED <<taskVars, agentVars>>

\* on_node_completed releases the task of a node it accepts, and of no other.
NodeCompleted(t) ==
    /\ CompleteNode(t)
    /\ IF CompletionIsLate(task[t].event) THEN UNCHANGED taskVars
                                          ELSE MarkCompleted(task[t].event)
    /\ UNCHANGED agentVars

\* on_node_failed releases the task of a node it fails, not of one it retries.
NodeFailed(t) ==
    /\ ClaimFailure(t)
    /\ IF FailureIsClaimed(task[t].node) /\ ~MayRetry(task[t].node)
       THEN MarkCompleted(task[t].node) ELSE UNCHANGED taskVars
    /\ UNCHANGED agentVars

\* A retry that could not be submitted releases the task; a refused submission
\* of handle_submission_error does not.
SubmissionFailed(t) ==
    /\ SubmissionError(t)
    /\ IF task[t].op = "failed" THEN MarkCompleted(task[t].node) ELSE UNCHANGED taskVars
    /\ UNCHANGED agentVars

(***************************************************************************)
(* cancel_running_task releases the entries of the task first and stops    *)
(* its agent afterwards, while the caller waits.  An agent that is not     *)
(* stopped in time still reports its end.                                  *)
(***************************************************************************)
VictimCancelled(t, v) ==
    LET n == v[1]
        cancelled == v[2] = "Running" /\ t # StallTimer
    IN  /\ FailNextVictim(t, v) \/ CancelNextVictim(t, v)
        /\ IF cancelled THEN MarkCompleted(n) ELSE UNCHANGED taskVars
        /\ \/ /\ cancelled /\ TS!EntriesOf(n) # {} /\ sessions[n] > 0
              /\ sessions' = [sessions EXCEPT ![n] = 0]
              /\ stopping' = [stopping EXCEPT ![t] = sessions[n]]
              /\ outstanding'[n] = outstanding[n] - sessions[n]
           \/ UNCHANGED <<agentVars, outstanding>>

AgentStopped(t) ==
    /\ stopping[t] > 0
    /\ stopping' = [stopping EXCEPT ![t] = 0]
    /\ UNCHANGED <<vars, taskVars, sessions>>

\* The task scheduler launches the agent of a submission.
Launch(w) ==
    /\ TS!LaunchAgents(w)
    /\ sessions' = [n \in Node |-> IF \E m \in TS!InHand(w) : m.task = n
                                   THEN sessions[n] + 1 ELSE sessions[n]]
    /\ UNCHANGED <<vars, stopping>>

\* The other steps of the task scheduler.
Schedule(w) ==
    /\ \/ TS!TryAcquirePermit(w) \/ TS!CheckAgentAvailability(w) \/ TS!PushProcessing(w)
       \/ TS!QueueTask(w) \/ TS!SaveToDisk(w) \/ TS!Acknowledge(w)
       \/ TS!DrainPending(w) \/ TS!PutBack(w)
       \/ \E n \in Node : TS!FreeSeen(n)
       \/ \E m \in TS!Submission : TS!NextPending(w, m) \/ TS!HandleNatsTask(m)
    /\ UNCHANGED <<vars, agentVars>>

\* An agent at work ends and its result watcher publishes how.  The watcher
\* polls first, so launch_task has pushed its entry to processing by then.
SessionEnds(n) ==
    /\ sessions[n] > 0
    /\ \A w \in TS!Worker : TS!At(w, "push") => \A m \in TS!InHand(w) : m.task # n
    /\ sessions' = [sessions EXCEPT ![n] = @ - 1]
    /\ ExecutionCompletes(n) \/ ExecutionFails(n)
    /\ UNCHANGED <<taskVars, stopping>>

DagStep(t) ==
    \/ Dispatch(t) \/ SubmissionFailed(t)
    \/ NodeCompleted(t) \/ NodeFailed(t)
    \/ \E v \in Node \X TaskStatus : VictimCancelled(t, v)
    \/ /\ \/ LocalStep(t) \/ SubmitGraph(t) \/ TimerExits(t)
          \/ DagTimeout(t) \/ StallPoll(t) \/ Cancel(t)
          \/ \E n \in Node : OnNodeCompleted(t, n) \/ IdleTimeout(t, n)
       /\ UNCHANGED <<taskVars, agentVars>>

PipeNext ==
    \/ \E t \in Task : (stopping[t] = 0 /\ DagStep(t)) \/ AgentStopped(t)
    \/ \E w \in TS!Worker : Launch(w) \/ Schedule(w)
    \/ \E n \in Node : SessionEnds(n)
    \/ /\ DeadlinePasses \/ ProgressGoesStale \/ \E n \in Node : WatcherExits(n)
       /\ UNCHANGED <<taskVars, agentVars>>

PipeSpec == PipeInit /\ [][PipeNext]_pipeVars

-----------------------------------------------------------------------------
(* Correctness. *)

\* Nothing moves any more, in either scheduler and at any agent.
PipelineAtRest ==
    /\ HandlersAtRest /\ task[Submitter].pc = "off"
    /\ \A n \in Node : completions[n] = 0 /\ failures[n] = 0
    /\ stream = {} /\ pending = {} /\ TS!Held = {} /\ releasing = {}
    /\ \A n \in Node : sessions[n] = 0
    /\ \A t \in Task : stopping[t] = 0

\* The submissions of n that no worker has launched yet.
Unlaunched(n) ==
    {m \in stream \cup pending \cup TS!Held : m.task = n /\ launches[m.seq] = 0}

\* Each execution the DAG scheduler waits for exists: it is a submission on its
\* way, an agent at work or, and then it never ends, a dropped duplicate.
OutstandingIsReal ==
    \A n \in Node :
        outstanding[n] = sessions[n] + Cardinality(Unlaunched(n))
                         + Cardinality({m \in dropped : m.task = n})

\* A node that is Running is somewhere on its way: with everything at rest none
\* is left Running.
RunningIsBacked == PipelineAtRest => InStatus(status, "Running") = {}

\* When everything is at rest every permit is back, no agent counts as busy and
\* no task id blocks the dedup set.
EverythingReleased ==
    PipelineAtRest => permits = Limit /\ processing = {} /\ seen = {}

\* The agents at work, and those a task waits to see stopped.
AtWork == {s \in Node \X (1..MaxAgentCalls) : s[2] <= sessions[s[1]]}
Stopped == {s \in Task \X (1..MaxAgentCalls) : s[2] <= stopping[s[1]]}

\* Together they never exceed the limit.
AgentsWithinLimit == Cardinality(AtWork) + Cardinality(Stopped) <= Limit
=============================================================================
