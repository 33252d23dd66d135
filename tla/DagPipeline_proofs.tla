-------------------------- MODULE DagPipeline_proofs --------------------------
(***************************************************************************)
(* Proofs about DagPipeline: the two schedulers, put together, each do     *)
(* what they do alone, so that what is proved of them holds of the whole;  *)
(* each execution the DAG scheduler waits for exists; and a DAG that only  *)
(* completions and failures move leaves nothing Running and nothing held.  *)
(***************************************************************************)
EXTENDS DagPipeline, DagStatus_proofs

\* The task scheduler with what is proved of it.
TSP == INSTANCE TaskScheduler_proofs WITH
    TaskId <- Node, Priority <- [n \in Node |-> 2],
    SeenCap <- 10000, AnyTimeRelease <- TRUE,
    MaxSubmits <- MaxAgentCalls, MaxRedeliveries <- 0, MaxFaults <- 0, MaxCrashes <- 0,
    redeliveries <- 0, faults <- 0, crashes <- 0

-----------------------------------------------------------------------------
(* What the pipeline does with the DAG is what DagScheduler does. *)

\* Whatever the task scheduler and the agents do meanwhile, a step of the
\* pipeline is a step of DagScheduler or leaves the DAG alone.
LEMMA PipeDagStep == ASSUME [PipeNext]_pipeVars PROVE [Next]_vars
<1>1. CASE UNCHANGED pipeVars
  BY <1>1 DEF pipeVars
<1>2. ASSUME NEW t \in Task, DagStep(t) PROVE Next
  <2>1. CASE Dispatch(t) \/ SubmissionFailed(t) \/ NodeCompleted(t) \/ NodeFailed(t)
    BY <2>1 DEF Dispatch, SubmissionFailed, NodeCompleted, NodeFailed, Next, HandlerStep
  <2>2. ASSUME NEW v \in Node \X TaskStatus, VictimCancelled(t, v) PROVE Next
    BY <2>2 DEF VictimCancelled, Next, HandlerStep
  <2>3. CASE \/ LocalStep(t) \/ SubmitGraph(t) \/ TimerExits(t)
             \/ DagTimeout(t) \/ StallPoll(t) \/ Cancel(t)
             \/ \E n \in Node : OnNodeCompleted(t, n) \/ IdleTimeout(t, n)
    BY <2>3 DEF Next, HandlerStep, HandlerStart
  <2>4. QED
    BY <1>2, <2>1, <2>2, <2>3 DEF DagStep
<1>3. ASSUME NEW t \in Task, AgentStopped(t) PROVE UNCHANGED vars
  BY <1>3 DEF AgentStopped
<1>4. ASSUME NEW w \in TS!Worker, Launch(w) \/ Schedule(w) PROVE UNCHANGED vars
  BY <1>4 DEF Launch, Schedule
<1>5. ASSUME NEW n \in Node, SessionEnds(n) PROVE Next
  BY <1>5 DEF SessionEnds, Next, Environment
<1>6. CASE DeadlinePasses \/ ProgressGoesStale \/ \E n \in Node : WatcherExits(n)
  BY <1>6 DEF Next, Environment
<1>7. QED
  BY <1>1, <1>2, <1>3, <1>4, <1>5, <1>6 DEF PipeNext

\* The pipeline runs DAGs as DagScheduler says: what is proved of DagScheduler
\* holds of it.
THEOREM PipelineRunsDags == PipeSpec => Spec
<1>1. PipeInit => Init
  BY DEF PipeInit
<1>2. QED
  BY <1>1, PipeDagStep, PTL DEF PipeSpec, Spec

\* With the task scheduler and the agents beside it, no task gets to submit
\* once the deadline has passed.
THEOREM LateInPipeline == PipeSpec => NothingSubmittedLate
BY PipelineRunsDags, LateSubmissionsRefused, PTL

-----------------------------------------------------------------------------
(* What it does with the submissions is what TaskScheduler does. *)

\* The two instances of TaskScheduler are one.
LEMMA SameState ==
  /\ TS!Init = TSP!Init /\ TS!vars = TSP!vars /\ TS!Worker = TSP!Worker /\ TS!Held = TSP!Held
  /\ TS!Submission = TSP!Submission
BY DEF TS!Init, TSP!Init, TS!vars, TSP!vars, TS!boundVars, TSP!boundVars, TS!Worker, TSP!Worker,
       TS!Idle, TSP!Idle, TS!Consumer, TSP!Consumer, TS!Background, TSP!Background,
       TS!Held, TSP!Held, TS!InHand, TSP!InHand, TS!Submission, TSP!Submission

\* What they count, too.
LEMMA SameCount ==
  ASSUME NEW S
  PROVE  /\ TS!Cardinality(S) = Cardinality(S) /\ TSP!Cardinality(S) = Cardinality(S)
         /\ TSP!IsFiniteSet(S) <=> IsFiniteSet(S)
<1>1. TS!Cardinality(S) = Cardinality(S)
  BY DEF TS!Cardinality, Cardinality
<1>2. TSP!Cardinality(S) = Cardinality(S)
  BY DEF TSP!Cardinality, Cardinality
<1>3. TSP!IsFiniteSet(S) <=> IsFiniteSet(S)
  BY DEF TSP!IsFiniteSet, IsFiniteSet
<1>4. QED
  BY <1>1, <1>2, <1>3

LEMMA SameMoves ==
  ASSUME NEW w, NEW m, NEW t
  PROVE  /\ TS!TryAcquirePermit(w) <=> TSP!TryAcquirePermit(w)
         /\ TS!CheckAgentAvailability(w) <=> TSP!CheckAgentAvailability(w)
         /\ TS!LaunchAgents(w) <=> TSP!LaunchAgents(w)
         /\ TS!PushProcessing(w) <=> TSP!PushProcessing(w)
         /\ TS!QueueTask(w) <=> TSP!QueueTask(w)
         /\ TS!SaveToDisk(w) <=> TSP!SaveToDisk(w)
         /\ TS!Acknowledge(w) <=> TSP!Acknowledge(w)
         /\ TS!DrainPending(w) <=> TSP!DrainPending(w)
         /\ TS!PutBack(w) <=> TSP!PutBack(w)
         /\ TS!LaunchFault(w) <=> TSP!LaunchFault(w)
         /\ TS!SaveFault(w) <=> TSP!SaveFault(w)
         /\ TS!LateAcknowledge(w) <=> TSP!LateAcknowledge(w)
         /\ TS!NextPending(w, m) <=> TSP!NextPending(w, m)
         /\ TS!HandleNatsTask(m) <=> TSP!HandleNatsTask(m)
         /\ TS!Submit(t) <=> TSP!Submit(t)
         /\ TS!ReleaseProcessing(t) <=> TSP!ReleaseProcessing(t)
         /\ TS!FreeSeen(t) <=> TSP!FreeSeen(t)
         /\ TS!ReleaseUnlaunched(t) <=> TSP!ReleaseUnlaunched(t)
         /\ TS!CancelTask(t) <=> TSP!CancelTask(t)
         /\ TS!Crash <=> TSP!Crash
<1>1. TS!TryAcquirePermit(w) <=> TSP!TryAcquirePermit(w)
  BY DEF TS!TryAcquirePermit, TSP!TryAcquirePermit, TS!At, TSP!At, TS!NotNow, TSP!NotNow,
         TS!Consumer, TSP!Consumer, TS!InHand, TSP!InHand, TS!Goto, TSP!Goto, TS!boundVars,
         TSP!boundVars
<1>2. TS!CheckAgentAvailability(w) <=> TSP!CheckAgentAvailability(w)
  BY DEF TS!CheckAgentAvailability, TSP!CheckAgentAvailability, TS!At, TSP!At, TS!InHand,
         TSP!InHand, TS!AgentIsBusy, TSP!AgentIsBusy, TS!NotNow, TSP!NotNow, TS!Consumer,
         TSP!Consumer, TS!Goto, TSP!Goto, TS!boundVars, TSP!boundVars
<1>3. TS!LaunchAgents(w) <=> TSP!LaunchAgents(w)
  BY DEF TS!LaunchAgents, TSP!LaunchAgents, TS!At, TSP!At, TS!InHand, TSP!InHand, TS!Goto,
         TSP!Goto, TS!boundVars, TSP!boundVars
<1>4. TS!PushProcessing(w) <=> TSP!PushProcessing(w)
  BY DEF TS!PushProcessing, TSP!PushProcessing, TS!At, TSP!At, TS!InHand, TSP!InHand,
         TS!Consumer, TSP!Consumer, TS!boundVars, TSP!boundVars
<1>5. TS!QueueTask(w) <=> TSP!QueueTask(w)
  BY DEF TS!QueueTask, TSP!QueueTask, TS!At, TSP!At, TS!InHand, TSP!InHand, TS!Goto,
         TSP!Goto, TS!boundVars, TSP!boundVars
<1>6. TS!SaveToDisk(w) <=> TSP!SaveToDisk(w)
  BY DEF TS!SaveToDisk, TSP!SaveToDisk, TS!At, TSP!At, TS!Consumer, TSP!Consumer, TS!Idle,
         TSP!Idle, TS!boundVars, TSP!boundVars
<1>7. TS!Acknowledge(w) <=> TSP!Acknowledge(w)
  BY DEF TS!Acknowledge, TSP!Acknowledge, TS!Consumer, TSP!Consumer, TS!At, TSP!At,
         TS!InHand, TSP!InHand, TS!Idle, TSP!Idle, TS!boundVars, TSP!boundVars
<1>8. TS!DrainPending(w) <=> TSP!DrainPending(w)
  BY DEF TS!DrainPending, TSP!DrainPending, TS!Background, TSP!Background, TS!At, TSP!At,
         TS!boundVars, TSP!boundVars
<1>9. TS!PutBack(w) <=> TSP!PutBack(w)
  BY DEF TS!PutBack, TSP!PutBack, TS!At, TSP!At, TS!boundVars, TSP!boundVars
<1>10. TS!LaunchFault(w) <=> TSP!LaunchFault(w)
  BY DEF TS!LaunchFault, TSP!LaunchFault, TS!At, TSP!At, TS!Consumer, TSP!Consumer, TS!Idle,
         TSP!Idle, TS!Redelivered, TSP!Redelivered, TS!InHand, TSP!InHand, TS!NotNow,
         TSP!NotNow
<1>11. TS!SaveFault(w) <=> TSP!SaveFault(w)
  BY DEF TS!SaveFault, TSP!SaveFault, TS!At, TSP!At, TS!Idle, TSP!Idle, TS!Consumer,
         TSP!Consumer, TS!Redelivered, TSP!Redelivered, TS!InHand, TSP!InHand
<1>12. TS!LateAcknowledge(w) <=> TSP!LateAcknowledge(w)
  BY DEF TS!LateAcknowledge, TSP!LateAcknowledge, TS!Consumer, TSP!Consumer, TS!At, TSP!At,
         TS!Redelivered, TSP!Redelivered, TS!InHand, TSP!InHand, TS!Idle, TSP!Idle
<1>13. TS!NextPending(w, m) <=> TSP!NextPending(w, m)
  <2>1. ASSUME NEW x, NEW y PROVE TS!Precedes(x, y) <=> TSP!Precedes(x, y)
    BY DEF TS!Precedes, TSP!Precedes
  <2>2. QED
    BY <2>1 DEF TS!NextPending, TSP!NextPending, TS!At, TSP!At, TS!boundVars, TSP!boundVars
<1>14. TS!HandleNatsTask(m) <=> TSP!HandleNatsTask(m)
  <2>1. /\ TS!InsertSeen(m.task) = TSP!InsertSeen(m.task)
        /\ TS!AlreadySeen(m.task) <=> TSP!AlreadySeen(m.task)
    BY SameCount DEF TS!InsertSeen, TSP!InsertSeen, TS!AlreadySeen, TSP!AlreadySeen
  <2>2. QED
    BY <2>1 DEF TS!HandleNatsTask, TSP!HandleNatsTask, TS!At, TSP!At, TS!Consumer, TSP!Consumer,
                TS!boundVars, TSP!boundVars
<1>15. TS!Submit(t) <=> TSP!Submit(t)
  BY DEF TS!Submit, TSP!Submit, TS!boundVars, TSP!boundVars
<1>16. TS!ReleaseProcessing(t) <=> TSP!ReleaseProcessing(t)
  BY SameCount DEF TS!ReleaseProcessing, TSP!ReleaseProcessing, TS!EntriesOf, TSP!EntriesOf,
         TS!boundVars, TSP!boundVars
<1>17. TS!FreeSeen(t) <=> TSP!FreeSeen(t)
  BY DEF TS!FreeSeen, TSP!FreeSeen, TS!boundVars, TSP!boundVars
<1>18. TS!ReleaseUnlaunched(t) <=> TSP!ReleaseUnlaunched(t)
  BY DEF TS!ReleaseUnlaunched, TSP!ReleaseUnlaunched, TS!EntriesOf, TSP!EntriesOf,
         TS!boundVars, TSP!boundVars
<1>19. TS!CancelTask(t) <=> TSP!CancelTask(t)
  BY DEF TS!CancelTask, TSP!CancelTask, TS!boundVars, TSP!boundVars
<1>20. TS!Crash <=> TSP!Crash
  BY DEF TS!Crash, TSP!Crash, TS!Worker, TSP!Worker, TS!Consumer, TSP!Consumer,
         TS!Background, TSP!Background, TS!Idle, TSP!Idle
<1>21. QED
  BY <1>1, <1>2, <1>3, <1>4, <1>5, <1>6, <1>7, <1>8, <1>9, <1>10, <1>11, <1>12, <1>13, <1>14, <1>15, <1>16, <1>17, <1>18, <1>19, <1>20

LEMMA SameSpec == TS!Spec <=> TSP!Spec
<1>1. ASSUME NEW w PROVE TS!WorkerStep(w) <=> TSP!WorkerStep(w)
  BY SameMoves, SameState DEF TS!WorkerStep, TSP!WorkerStep
<1>2. TS!Next <=> TSP!Next
  BY <1>1, SameMoves, SameState DEF TS!Next, TSP!Next
<1>3. [TS!Next]_(TS!vars) <=> [TSP!Next]_(TSP!vars)
  BY <1>2 DEF TS!vars, TSP!vars, TS!boundVars, TSP!boundVars
<1>4. TS!Init <=> TSP!Init
  BY SameState
<1>5. QED
  BY <1>3, <1>4, PTL DEF TS!Spec, TSP!Spec

-----------------------------------------------------------------------------
\* What the pipeline keeps of the DAG scheduler's frames.
DagInv == TypeInv /\ FrameInv /\ TimersInv /\ HistoryInv

LEMMA DagInvHolds == PipeSpec => []DagInv
<1>1. Init => DagInv
  BY InitType, InitInv DEF DagInv, Inv
<1>2. DagInv /\ [Next]_vars => DagInv'
  BY NextType, FrameNext, TimersNext, HistoryNext DEF DagInv
<1>3. QED
  BY <1>1, <1>2, PipelineRunsDags, PTL DEF Spec

\* Whose node a handler tells the task scheduler of.
LEMMA NodeTold ==
  ASSUME DagInv, NEW t \in Task
  PROVE  /\ At(t, "publish") \/ At(t, "suberr") \/ At(t, "failing") => task[t].node \in Node
         /\ t = Listener /\ At(t, "complete") => task[t].event \in Node
<1>1. At(t, "publish") \/ At(t, "suberr") \/ At(t, "failing") => task[t].node \in Node
  BY DEF DagInv, FrameInv, FrameOK, Submits, Refused, At
<1>2. t = Listener /\ At(t, "complete") => task[t].event \in Node
  BY DEF DagInv, TypeInv, TasksOK, ListenerFrame, MessageInStream, At
<1>3. QED
  BY <1>1, <1>2

LEMMA MarkCompletedStep == ASSUME NEW n \in Node, MarkCompleted(n) PROVE TS!Next \/ UNCHANGED TS!vars
BY DEF MarkCompleted, TS!Next, taskVars, TS!vars, TS!boundVars

LEMMA PipeTaskStep == ASSUME DagInv, [PipeNext]_pipeVars PROVE [TS!Next]_(TS!vars)
<1> SUFFICES TS!Next \/ UNCHANGED TS!vars
  OBVIOUS
<1>0. UNCHANGED taskVars => UNCHANGED TS!vars
  BY DEF taskVars, TS!vars, TS!boundVars
<1>1. CASE UNCHANGED pipeVars
  BY <1>0, <1>1 DEF pipeVars
<1>2. ASSUME NEW t \in Task, DagStep(t) PROVE TS!Next \/ UNCHANGED TS!vars
  <2>1. CASE Dispatch(t)
    BY <2>1, NodeTold DEF Dispatch, PublishTaskSubmit, TS!Next
  <2>2. CASE SubmissionFailed(t)
    BY <1>0, <2>2, NodeTold, MarkCompletedStep DEF SubmissionFailed, SubmissionError
  <2>3. CASE NodeCompleted(t)
    BY <1>0, <2>3, NodeTold, MarkCompletedStep DEF NodeCompleted, CompleteNode
  <2>4. CASE NodeFailed(t)
    BY <1>0, <2>4, NodeTold, MarkCompletedStep DEF NodeFailed, ClaimFailure
  <2>5. ASSUME NEW v \in Node \X TaskStatus, VictimCancelled(t, v)
        PROVE  TS!Next \/ UNCHANGED TS!vars
    <3>1. v[1] \in Node
      OBVIOUS
    <3>2. QED
      BY <1>0, <2>5, <3>1, MarkCompletedStep DEF VictimCancelled
  <2>6. QED
    BY <1>0, <1>2, <2>1, <2>2, <2>3, <2>4, <2>5 DEF DagStep
<1>3. ASSUME NEW t \in Task, AgentStopped(t) PROVE UNCHANGED TS!vars
  BY <1>0, <1>3 DEF AgentStopped
<1>4. ASSUME NEW w \in TS!Worker, Launch(w) \/ Schedule(w) PROVE TS!Next
  BY <1>4 DEF Launch, Schedule, TS!Next, TS!WorkerStep
<1>5. ASSUME NEW n \in Node, SessionEnds(n) PROVE UNCHANGED TS!vars
  BY <1>0, <1>5 DEF SessionEnds
<1>6. QED
  BY <1>0, <1>1, <1>2, <1>3, <1>4, <1>5 DEF PipeNext

\* The pipeline schedules tasks as TaskScheduler says, with the DAG scheduler in
\* the place of whoever publishes and releases them.
THEOREM PipelineSchedulesTasks == PipeSpec => TS!Spec
<1>1. PipeInit => TS!Init
  BY DEF PipeInit
<1>2. QED
  BY <1>1, PipeTaskStep, DagInvHolds, PTL DEF PipeSpec, TS!Spec

\* So permits are conserved in it, and a submission is in one place.
LEMMA TaskInvHolds == PipeSpec => [](TSP!PlaceInv /\ TSP!Counted)
<1>1. TSP!TaskSchedulerAssumption
  BY PipelineAssumption, SchedulerAssumption DEF TSP!TaskSchedulerAssumption
<1>2. QED
  BY <1>1, TSP!Invariants, PipelineSchedulesTasks, SameSpec, PTL

-----------------------------------------------------------------------------
(***************************************************************************)
(* Each execution the DAG scheduler waits for exists.  Submissions are     *)
(* told apart by their place in the stream; one that waits for its launch  *)
(* has not been launched, and one that was launched is nowhere but in the  *)
(* hand of its worker.                                                     *)
(***************************************************************************)
Launched(m) == launches[m.seq] > 0

\* What is on its way to an agent, and what the pipeline knows of.
OnItsWay == stream \cup pending \cup TSP!Held
Known == OnItsWay \cup dropped

ToLaunch ==
    pending \cup TSP!B.rest \cup TSP!B.remaining
    \cup (IF TSP!B.pc \in {"acquire", "check", "launch"} THEN TSP!B.item ELSE {})
    \cup (IF TSP!C.pc \in {"acquire", "check", "launch", "queue"} THEN TSP!C.item ELSE {})

KnownInv ==
    /\ \A m, k \in Known : m.seq = k.seq => m = k
    /\ \A m \in Known : m.seq <= submits
    /\ dropped \cap OnItsWay = {}
    /\ IsFiniteSet(Known)

\* What the consumer is about to acknowledge is elsewhere.
Saved == TSP!C.pc \in {"save", "ack"} => \A m \in TSP!C.item : m \in TSP!Queue \/ Launched(m)

LaunchInv ==
    /\ \A s \in 1..MaxAgentCalls : s > submits => launches[s] = 0
    /\ \A m \in ToLaunch : ~Launched(m)
    /\ \A w \in TSP!Worker : worker[w].pc = "push" => \A m \in worker[w].item : Launched(m)
    /\ Saved
    /\ \A m \in stream : Launched(m) => TSP!C.item = {m}

Live == {m \in OnItsWay : ~Launched(m)}

LEMMA HeldIs ==
  ASSUME TSP!PlaceInv
  PROVE  /\ TSP!Held = TSP!C.item \cup TSP!B.item \cup TSP!B.rest \cup TSP!B.remaining
         /\ OnItsWay \subseteq TSP!Submission /\ dropped \subseteq TSP!Submission
<1>1. TSP!Held = UNION {TSP!C.item \cup TSP!C.rest \cup TSP!C.remaining,
                        TSP!B.item \cup TSP!B.rest \cup TSP!B.remaining}
  BY DEF TSP!Held, TSP!InHand, TSP!Worker, TSP!C, TSP!B
<1>2. TSP!C.rest = {} /\ TSP!C.remaining = {}
  BY DEF TSP!PlaceInv, TSP!FramesOK
<1>3. TSP!C \in TSP!Frame /\ TSP!B \in TSP!Frame
  BY DEF TSP!PlaceInv, TSP!TypeInv, TSP!C, TSP!B, TSP!Worker
<1>4. /\ TSP!C.item \subseteq TSP!Submission /\ TSP!B.item \subseteq TSP!Submission
      /\ TSP!B.rest \subseteq TSP!Submission /\ TSP!B.remaining \subseteq TSP!Submission
  BY <1>3 DEF TSP!Frame
<1>5. QED
  BY <1>1, <1>2, <1>4 DEF OnItsWay, TSP!PlaceInv, TSP!TypeInv

(***************************************************************************)
(* A step of the task scheduler that neither publishes, launches nor drops *)
(* a submission.                                                           *)
(***************************************************************************)
Quiet ==
    /\ UNCHANGED <<dropped, submits, launches>>
    /\ stream' \subseteq stream /\ OnItsWay' \subseteq OnItsWay /\ ToLaunch' \subseteq ToLaunch
    /\ \A m \in OnItsWay : m \in OnItsWay' \/ Launched(m)
    /\ \A w \in TSP!Worker : worker'[w].pc = "push" => worker'[w] = worker[w]
    /\ TSP!C'.item = TSP!C.item \/ stream' \cap TSP!C.item = {}
    /\ Saved'

LEMMA QuietKeeps ==
  ASSUME TSP!PlaceInv, KnownInv, LaunchInv, Quiet
  PROVE  KnownInv' /\ LaunchInv' /\ Live' = Live
<1>1. Known' \subseteq Known
  BY DEF Quiet, Known
<1>2. KnownInv'
  BY <1>1, FS_Subset DEF KnownInv, Quiet
<1>3. \A m : Launched(m)' <=> Launched(m)
  BY DEF Quiet, Launched
<1>4. LaunchInv'
  BY <1>3 DEF LaunchInv, Quiet
<1>5. Live' = Live
  BY <1>3 DEF Live, Quiet
<1>6. QED
  BY <1>2, <1>4, <1>5

\* The frames, and what is held, before a step and after it.
LEMMA Frames ==
  ASSUME TSP!PlaceInv
  PROVE  /\ TSP!C = worker["consumer"] /\ TSP!B = worker["background"]
         /\ TSP!C \in TSP!Frame /\ TSP!B \in TSP!Frame
         /\ TSP!Worker = {"consumer", "background"} /\ TSP!Consumer = "consumer"
         /\ TSP!Background = "background"
         /\ DOMAIN worker = {"consumer", "background"}
         /\ worker \in [{"consumer", "background"} -> TSP!Frame]
BY DEF TSP!PlaceInv, TSP!TypeInv, TSP!C, TSP!B, TSP!Worker, TSP!Consumer, TSP!Background

LEMMA HeldNow ==
  TSP!PlaceInv => TSP!Held = TSP!C.item \cup TSP!B.item \cup TSP!B.rest \cup TSP!B.remaining
BY HeldIs

LEMMA HeldThen ==
  TSP!PlaceInv' => (TSP!Held = TSP!C.item \cup TSP!B.item \cup TSP!B.rest \cup TSP!B.remaining)'
BY HeldNow, PTL

LEMMA FramesNow == TSP!PlaceInv => worker \in [TSP!Worker -> TSP!Frame]
BY Frames

LEMMA FramesThen == TSP!PlaceInv' => (worker \in [TSP!Worker -> TSP!Frame])'
BY FramesNow, PTL

\* What is queued or with the background loop, and what of it waits for its launch.
QueueOf(q, f) == q \cup f.item \cup f.rest \cup f.remaining
WaitsOf(q, f) ==
    q \cup f.rest \cup f.remaining
    \cup (IF f.pc \in {"acquire", "check", "launch"} THEN f.item ELSE {})

\* A move of the background loop.
LEMMA BackMoves ==
  ASSUME TSP!PlaceInv, TSP!PlaceInv', LaunchInv, NEW k,
         worker' = [worker EXCEPT !["background"] = k],
         UNCHANGED <<stream, dropped, submits, launches>>,
         QueueOf(pending', k) \subseteq QueueOf(pending, TSP!B),
         \A m \in QueueOf(pending, TSP!B) : m \in QueueOf(pending', k) \/ Launched(m),
         WaitsOf(pending', k) \subseteq WaitsOf(pending, TSP!B),
         k.pc # "push"
  PROVE  Quiet
<1>1. TSP!C' = TSP!C /\ TSP!B' = k
  BY Frames DEF TSP!C, TSP!B, TSP!Consumer, TSP!Background
<1>2. \A u \in TSP!Worker : worker'[u] = worker[u] \/ worker'[u] = k
  BY Frames
<1>3. /\ OnItsWay = stream \cup TSP!C.item \cup QueueOf(pending, TSP!B)
      /\ OnItsWay' = stream \cup TSP!C.item \cup QueueOf(pending', k)
  BY <1>1, HeldNow, HeldThen DEF OnItsWay, QueueOf
<1>4. ToLaunch' \subseteq ToLaunch
  BY <1>1 DEF ToLaunch, WaitsOf
<1>5. Saved'
  BY <1>1 DEF Saved, LaunchInv, QueueOf, TSP!Queue, Launched
<1>6. QED
  BY <1>1, <1>2, <1>3, <1>4, <1>5 DEF Quiet

\* A move of the consumer, with the same submission in hand or with none.
LEMMA ConsumerMoves ==
  ASSUME TSP!PlaceInv, TSP!PlaceInv', LaunchInv, NEW k,
         worker' = [worker EXCEPT !["consumer"] = k],
         UNCHANGED <<dropped, submits, launches>>,
         pending \subseteq pending', pending' \subseteq pending \cup TSP!C.item,
         pending' = pending \/ TSP!C.pc = "queue",
         \/ k.item = TSP!C.item /\ stream' = stream
         \/ k.item = {} /\ stream' = stream \ TSP!C.item /\ TSP!C.pc = "ack",
         k.pc \in {"acquire", "check", "launch", "queue"}
           => TSP!C.pc \in {"acquire", "check", "launch", "queue"},
         k.pc \in {"save", "ack"}
           => \A m \in TSP!C.item : m \in QueueOf(pending', TSP!B) \/ Launched(m),
         k.pc # "push"
  PROVE  Quiet
<1>1. TSP!B' = TSP!B /\ TSP!C' = k
  BY Frames DEF TSP!C, TSP!B, TSP!Consumer, TSP!Background
<1>2. \A u \in TSP!Worker : worker'[u] = worker[u] \/ worker'[u] = k
  BY Frames
<1>3. /\ OnItsWay = stream \cup TSP!C.item \cup QueueOf(pending, TSP!B)
      /\ OnItsWay' = stream' \cup k.item \cup QueueOf(pending', TSP!B)
  BY <1>1, HeldNow, HeldThen DEF OnItsWay, QueueOf
<1>4. ToLaunch' \subseteq ToLaunch
  BY <1>1 DEF ToLaunch
<1>5. Saved'
  BY <1>1 DEF Saved, QueueOf, TSP!Queue, Launched
<1>6. OnItsWay' \subseteq OnItsWay
  BY <1>3 DEF QueueOf
<1>7. \A m \in OnItsWay : m \in OnItsWay' \/ Launched(m)
  BY <1>3 DEF QueueOf, LaunchInv, Saved, TSP!Queue
<1>8. QED
  BY <1>1, <1>2, <1>4, <1>5, <1>6, <1>7 DEF Quiet

\* The steps of the workers but the launch.
LEMMA ConsumerQuiet ==
  ASSUME TSP!PlaceInv, TSP!PlaceInv', LaunchInv, NEW w \in TSP!Worker, w = TSP!Consumer,
         \/ TSP!TryAcquirePermit(w) \/ TSP!CheckAgentAvailability(w) \/ TSP!PushProcessing(w)
         \/ TSP!QueueTask(w) \/ TSP!SaveToDisk(w) \/ TSP!Acknowledge(w)
         \/ TSP!DrainPending(w) \/ TSP!PutBack(w)
         \/ \E m \in TSP!Submission : TSP!NextPending(w, m)
  PROVE  Quiet
<1> DEFINE c == TSP!C
<1> DEFINE turned(pc) == [c EXCEPT !.pc = pc]
<1>1. /\ w = "consumer" /\ worker[w] = c /\ c \in TSP!Frame
      /\ TSP!Background # "consumer" /\ TSP!Consumer = "consumer"
  BY Frames
<1>2. ASSUME NEW pc PROVE turned(pc).pc = pc /\ turned(pc).item = c.item
  BY <1>1 DEF TSP!Frame
<1>3. ASSUME NEW pc \in {"check", "launch", "queue"}, worker' = [worker EXCEPT !["consumer"] = turned(pc)],
             c.pc \in {"acquire", "check"},
             UNCHANGED <<dropped, submits, launches, stream, pending>>
      PROVE  Quiet
  BY <1>2, <1>3, ConsumerMoves
<1>4. CASE TSP!TryAcquirePermit(w)
  BY <1>1, <1>3, <1>4 DEF TSP!TryAcquirePermit, TSP!NotNow, TSP!Goto, TSP!At
<1>5. CASE TSP!CheckAgentAvailability(w)
  BY <1>1, <1>3, <1>5 DEF TSP!CheckAgentAvailability, TSP!NotNow, TSP!Goto, TSP!At
<1>6. CASE TSP!PushProcessing(w)
  <2>1. PICK k : k = turned("ack")
    OBVIOUS
  <2>2. worker' = [worker EXCEPT !["consumer"] = k] /\ c.pc = "push"
    BY <1>1, <1>6, <2>1 DEF TSP!PushProcessing, TSP!At
  <2>3. \A m \in c.item : Launched(m)
    BY <1>1, <2>2 DEF LaunchInv
  <2>4. UNCHANGED <<dropped, submits, launches, stream, pending>>
    BY <1>6 DEF TSP!PushProcessing
  <2>5. k.item = c.item /\ k.pc = "ack"
    BY <1>2, <2>1
  <2>6. QED
    BY <2>2, <2>3, <2>4, <2>5, ConsumerMoves
<1>7. CASE TSP!QueueTask(w)
  <2>1. worker' = [worker EXCEPT !["consumer"] = turned("save")] /\ c.pc = "queue"
    BY <1>1, <1>7 DEF TSP!QueueTask, TSP!At, TSP!Goto
  <2>2. UNCHANGED <<dropped, submits, launches, stream>> /\ pending' = pending \cup c.item
    BY <1>1, <1>7 DEF TSP!QueueTask, TSP!InHand
  <2>3. QED
    BY <1>2, <2>1, <2>2, ConsumerMoves DEF QueueOf
<1>8. CASE TSP!SaveToDisk(w)
  <2>1. worker' = [worker EXCEPT !["consumer"] = turned("ack")] /\ c.pc = "save"
    BY <1>1, <1>8 DEF TSP!SaveToDisk, TSP!At
  <2>2. \A m \in c.item : m \in QueueOf(pending, TSP!B) \/ Launched(m)
    BY <2>1 DEF LaunchInv, Saved, TSP!Queue, QueueOf
  <2>3. UNCHANGED <<dropped, submits, launches, stream, pending>>
    BY <1>8 DEF TSP!SaveToDisk
  <2>4. QED
    BY <1>2, <2>1, <2>2, <2>3, ConsumerMoves
<1>9. CASE TSP!Acknowledge(w)
  <2>1. PICK k : k = TSP!Idle
    OBVIOUS
  <2>2. worker' = [worker EXCEPT !["consumer"] = k] /\ c.pc = "ack"
    BY <1>1, <1>9, <2>1 DEF TSP!Acknowledge, TSP!At
  <2>3. UNCHANGED <<dropped, submits, launches, pending>> /\ stream' = stream \ c.item
    BY <1>1, <1>9 DEF TSP!Acknowledge, TSP!InHand
  <2>4. k.item = {} /\ k.pc = "idle"
    BY <2>1 DEF TSP!Idle
  <2>5. QED
    BY <2>2, <2>3, <2>4, ConsumerMoves
<1>10. CASE TSP!DrainPending(w)
  BY <1>1, <1>10 DEF TSP!DrainPending
<1>11. c.pc # "next"
  BY DEF TSP!PlaceInv, TSP!FramesOK
<1>12. CASE TSP!PutBack(w) \/ \E m \in TSP!Submission : TSP!NextPending(w, m)
  BY <1>1, <1>11, <1>12 DEF TSP!PutBack, TSP!NextPending, TSP!At
<1>13. QED
  BY <1>4, <1>5, <1>6, <1>7, <1>8, <1>9, <1>10, <1>12

LEMMA BackQuiet ==
  ASSUME TSP!PlaceInv, TSP!PlaceInv', LaunchInv, NEW w \in TSP!Worker, w = TSP!Background,
         \/ TSP!TryAcquirePermit(w) \/ TSP!CheckAgentAvailability(w) \/ TSP!PushProcessing(w)
         \/ TSP!QueueTask(w) \/ TSP!SaveToDisk(w) \/ TSP!Acknowledge(w)
         \/ TSP!DrainPending(w) \/ TSP!PutBack(w)
         \/ \E m \in TSP!Submission : TSP!NextPending(w, m)
  PROVE  Quiet
<1> DEFINE b == TSP!B
<1>1. /\ w = "background" /\ worker[w] = b /\ b \in TSP!Frame
      /\ TSP!Consumer # "background" /\ TSP!Background = "background"
  BY Frames
<1>2. TSP!FramesOK
  BY DEF TSP!PlaceInv
<1>3. ASSUME NEW pc \in {"check", "launch"}, b.pc \in {"acquire", "check"},
             worker' = [worker EXCEPT !["background"] = [b EXCEPT !.pc = pc]],
             UNCHANGED <<dropped, submits, launches, stream, pending>>
      PROVE  Quiet
  <2> DEFINE k == [b EXCEPT !.pc = pc]
  <2>1. k.pc = pc /\ k.item = b.item /\ k.rest = b.rest /\ k.remaining = b.remaining
    BY <1>1 DEF TSP!Frame
  <2>2. QED
    BY <1>3, <2>1, BackMoves DEF QueueOf, WaitsOf
<1>4. ASSUME b.pc \in {"acquire", "check"}, TSP!NotNow(w),
             UNCHANGED <<dropped, submits, launches, stream, pending>>
      PROVE  Quiet
  <2> DEFINE k == [b EXCEPT !.pc = "next", !.item = {}, !.remaining = b.remaining \cup b.item]
  <2>1. /\ k.pc = "next" /\ k.item = {} /\ k.rest = b.rest
        /\ k.remaining = b.remaining \cup b.item
    BY <1>1 DEF TSP!Frame
  <2>2. worker' = [worker EXCEPT !["background"] = k]
    BY <1>1, <1>4 DEF TSP!NotNow, TSP!InHand
  <2>3. QED
    BY <1>4, <2>1, <2>2, BackMoves DEF QueueOf, WaitsOf
<1>5. CASE TSP!TryAcquirePermit(w)
  BY <1>1, <1>3, <1>4, <1>5 DEF TSP!TryAcquirePermit, TSP!Goto, TSP!At
<1>6. CASE TSP!CheckAgentAvailability(w)
  BY <1>1, <1>3, <1>4, <1>6 DEF TSP!CheckAgentAvailability, TSP!Goto, TSP!At
<1>7. CASE TSP!PushProcessing(w)
  <2> DEFINE k == [b EXCEPT !.pc = "next", !.item = {}]
  <2>1. k.pc = "next" /\ k.item = {} /\ k.rest = b.rest /\ k.remaining = b.remaining
    BY <1>1 DEF TSP!Frame
  <2>2. worker' = [worker EXCEPT !["background"] = k] /\ b.pc = "push"
    BY <1>1, <1>7 DEF TSP!PushProcessing, TSP!At
  <2>3. \A m \in b.item : Launched(m)
    BY <1>1, <2>2 DEF LaunchInv
  <2>4. UNCHANGED <<dropped, submits, launches, stream, pending>>
    BY <1>7 DEF TSP!PushProcessing
  <2>5. QED
    BY <2>1, <2>2, <2>3, <2>4, BackMoves DEF QueueOf, WaitsOf
<1>8. CASE TSP!QueueTask(w)
  BY <1>1, <1>2, <1>8 DEF TSP!QueueTask, TSP!At, TSP!FramesOK
<1>9. CASE TSP!SaveToDisk(w)
  <2>1. worker' = [worker EXCEPT !["background"] = TSP!Idle] /\ b.pc = "save"
    BY <1>1, <1>9 DEF TSP!SaveToDisk, TSP!At
  <2>2. b.item = {} /\ b.rest = {} /\ b.remaining = {}
    BY <1>2, <2>1 DEF TSP!FramesOK
  <2>3. UNCHANGED <<dropped, submits, launches, stream, pending>>
    BY <1>9 DEF TSP!SaveToDisk
  <2>4. TSP!Idle.item = {} /\ TSP!Idle.rest = {} /\ TSP!Idle.remaining = {} /\ TSP!Idle.pc = "idle"
    BY DEF TSP!Idle
  <2>5. QED
    BY <2>1, <2>2, <2>3, <2>4, BackMoves DEF QueueOf, WaitsOf
<1>10. CASE TSP!Acknowledge(w)
  BY <1>1, <1>10 DEF TSP!Acknowledge
<1>11. CASE TSP!DrainPending(w)
  <2> DEFINE k == [b EXCEPT !.pc = "next", !.rest = pending]
  <2>1. k.pc = "next" /\ k.item = b.item /\ k.rest = pending /\ k.remaining = b.remaining
    BY <1>1 DEF TSP!Frame
  <2>2. worker' = [worker EXCEPT !["background"] = k] /\ b.pc = "idle" /\ pending' = {}
    BY <1>1, <1>11 DEF TSP!DrainPending, TSP!At
  <2>3. b.item = {} /\ b.rest = {} /\ b.remaining = {}
    BY <1>2, <2>2 DEF TSP!FramesOK
  <2>4. UNCHANGED <<dropped, submits, launches, stream>>
    BY <1>11 DEF TSP!DrainPending
  <2>5. QED
    BY <2>1, <2>2, <2>3, <2>4, BackMoves DEF QueueOf, WaitsOf
<1>12. CASE TSP!PutBack(w)
  <2> DEFINE k == [b EXCEPT !.pc = "save", !.remaining = {}]
  <2>1. k.pc = "save" /\ k.item = b.item /\ k.rest = b.rest /\ k.remaining = {}
    BY <1>1 DEF TSP!Frame
  <2>2. /\ worker' = [worker EXCEPT !["background"] = k] /\ b.pc = "next"
        /\ pending' = pending \cup b.remaining
    BY <1>1, <1>12 DEF TSP!PutBack, TSP!At
  <2>3. UNCHANGED <<dropped, submits, launches, stream>>
    BY <1>12 DEF TSP!PutBack
  <2>4. QED
    BY <2>1, <2>2, <2>3, BackMoves DEF QueueOf, WaitsOf
<1>13. ASSUME NEW m \in TSP!Submission, TSP!NextPending(w, m) PROVE Quiet
  <2> DEFINE k == [b EXCEPT !.pc = "acquire", !.item = {m}, !.rest = b.rest \ {m}]
  <2>1. k.pc = "acquire" /\ k.item = {m} /\ k.rest = b.rest \ {m} /\ k.remaining = b.remaining
    BY <1>1 DEF TSP!Frame
  <2>2. worker' = [worker EXCEPT !["background"] = k] /\ b.pc = "next" /\ m \in b.rest
    BY <1>1, <1>13 DEF TSP!NextPending, TSP!At
  <2>3. b.item = {}
    BY <1>2, <2>2 DEF TSP!FramesOK
  <2>4. UNCHANGED <<dropped, submits, launches, stream, pending>>
    BY <1>13 DEF TSP!NextPending
  <2>5. QED
    BY <2>1, <2>2, <2>3, <2>4, BackMoves DEF QueueOf, WaitsOf
<1>14. QED
  BY <1>5, <1>6, <1>7, <1>8, <1>9, <1>10, <1>11, <1>12, <1>13

\* The rest that neither publishes nor launches: mark_completed.
LEMMA ReleaseQuiet ==
  ASSUME TSP!PlaceInv, LaunchInv,
         UNCHANGED <<stream, submits, pending, worker, launches, dropped>>
  PROVE  Quiet
<1>1. TSP!C' = TSP!C /\ TSP!B' = TSP!B /\ TSP!Held' = TSP!Held
  BY DEF TSP!C, TSP!B, TSP!Held, TSP!InHand
<1>2. QED
  BY <1>1 DEF Quiet, OnItsWay, ToLaunch, LaunchInv, Saved, TSP!Queue, Launched

-----------------------------------------------------------------------------
(* The steps that publish, launch or drop a submission. *)

New(n) == [task |-> n, seq |-> submits + 1, copy |-> 0]

LEMMA SubmitCounts ==
  ASSUME TSP!PlaceInv, KnownInv, LaunchInv, NEW n \in Node, TSP!Submit(n)
  PROVE  /\ KnownInv' /\ LaunchInv' /\ dropped' = dropped
         /\ New(n).task = n /\ New(n) \notin Live /\ Live' = Live \cup {New(n)}
<1>1. /\ TSP!C' = TSP!C /\ TSP!B' = TSP!B /\ TSP!Held' = TSP!Held
      /\ stream' = stream \cup {New(n)} /\ submits' = submits + 1 /\ submits < MaxAgentCalls
      /\ UNCHANGED <<worker, pending, launches, dropped>>
  BY DEF TSP!Submit, TSP!C, TSP!B, TSP!Held, TSP!InHand, New
<1>2. submits \in Nat /\ MaxAgentCalls \in Nat
  BY SchedulerAssumption DEF TSP!PlaceInv, TSP!TypeInv
<1>3. OnItsWay' = OnItsWay \cup {New(n)} /\ Known' = Known \cup {New(n)}
  BY <1>1 DEF OnItsWay, Known
<1>4. New(n).task = n /\ New(n).seq = submits + 1
  BY DEF New
<1>5. \A m \in Known : m.seq \in Nat /\ m.seq <= submits
  BY <1>2, HeldIs DEF Known, KnownInv, TSP!Submission
<1>6. New(n) \notin Known
  BY <1>2, <1>4, <1>5
<1>7. KnownInv'
  <2>1. IsFiniteSet(Known')
    BY <1>3, FS_AddElement DEF KnownInv
  <2>2. \A m, k \in Known' : m.seq = k.seq => m = k
    BY <1>2, <1>3, <1>4, <1>5 DEF KnownInv
  <2>3. \A m \in Known' : m.seq <= submits'
    BY <1>1, <1>2, <1>3, <1>4, <1>5
  <2>4. dropped' \cap OnItsWay' = {}
    BY <1>1, <1>3, <1>6 DEF KnownInv, Known
  <2>5. QED
    BY <2>1, <2>2, <2>3, <2>4 DEF KnownInv
<1>8. \A m : Launched(m)' <=> Launched(m)
  BY <1>1 DEF Launched
<1>9. ~Launched(New(n))
  BY <1>1, <1>2, <1>4 DEF Launched, LaunchInv
<1>10. LaunchInv'
  <2>1. ToLaunch' = ToLaunch /\ Saved'
    BY <1>1, <1>8 DEF ToLaunch, LaunchInv, Saved, TSP!Queue
  <2>2. QED
    BY <1>1, <1>2, <1>8, <1>9, <2>1 DEF LaunchInv
<1>11. Live' = Live \cup {New(n)}
  BY <1>3, <1>8, <1>9 DEF Live
<1>12. QED
  BY <1>1, <1>4, <1>6, <1>7, <1>10, <1>11 DEF Live, Known

\* A launch, by either worker.
LEMMA LaunchCounts ==
  ASSUME TSP!PlaceInv, TSP!PlaceInv', KnownInv, LaunchInv, NEW w \in TSP!Worker, TSP!LaunchAgents(w)
  PROVE  /\ KnownInv' /\ LaunchInv' /\ dropped' = dropped
         /\ \E m \in Live : TSP!InHand(w) = {m} /\ Live' = Live \ {m}
<1>1. TSP!FramesOK /\ TSP!StreamOK /\ TSP!Apart
  BY DEF TSP!PlaceInv
<1>2. worker[w].pc = "launch"
  BY DEF TSP!LaunchAgents, TSP!At
<1>3. PICK m : worker[w].item = {m}
  BY <1>1, <1>2, Frames DEF TSP!FramesOK
<1>4. /\ w = "consumer" \/ w = "background"
      /\ w = "consumer" => worker[w] = TSP!C
      /\ w = "background" => worker[w] = TSP!B
  <2>1. w = "consumer" \/ w = "background"
    BY Frames
  <2>2. QED
    BY <2>1, Frames
<1>5. /\ UNCHANGED <<stream, submits, pending, dropped>>
      /\ worker' = [worker EXCEPT ![w].pc = "push"]
      /\ launches' = [s \in 1..MaxAgentCalls |-> IF m.seq = s THEN launches[s] + 1 ELSE launches[s]]
  BY <1>3 DEF TSP!LaunchAgents, TSP!Goto, TSP!InHand
<1>6. /\ worker'[w].pc = "push" /\ worker'[w].item = {m}
      /\ worker'[w].rest = worker[w].rest /\ worker'[w].remaining = worker[w].remaining
      /\ \A v \in TSP!Worker \ {w} : worker'[v] = worker[v]
  BY <1>3, <1>5, Frames DEF TSP!Frame
<1>7. /\ TSP!C' = worker'["consumer"] /\ TSP!B' = worker'["background"]
      /\ TSP!C'.item = TSP!C.item /\ TSP!B'.item = TSP!B.item
      /\ TSP!B'.rest = TSP!B.rest /\ TSP!B'.remaining = TSP!B.remaining
  <2>1. TSP!C' = worker'["consumer"] /\ TSP!B' = worker'["background"]
    BY DEF TSP!C, TSP!B, TSP!Consumer, TSP!Background
  <2>2. QED
    BY <1>3, <1>4, <1>6, <2>1, Frames
<1>8. TSP!Held' = TSP!Held /\ OnItsWay' = OnItsWay /\ Known' = Known
  BY <1>5, <1>7, HeldNow, HeldThen DEF OnItsWay, Known
<1>9. m \in TSP!Held
  BY <1>3, <1>4, HeldNow
<1>10. m \in ToLaunch /\ m \in OnItsWay /\ m \in Known
  BY <1>2, <1>3, <1>4, <1>9 DEF ToLaunch, OnItsWay, Known
<1>11. m.seq \in 1..MaxAgentCalls /\ m.copy \in Nat /\ launches \in [1..MaxAgentCalls -> Nat]
  BY <1>10, HeldIs DEF TSP!Submission, TSP!PlaceInv, TSP!TypeInv
<1>12. ASSUME NEW k \in Known
       PROVE  k.seq \in 1..MaxAgentCalls /\ (Launched(k)' <=> Launched(k) \/ k = m)
  <2>1. k.seq \in 1..MaxAgentCalls
    BY HeldIs DEF Known, TSP!Submission
  <2>2. k.seq = m.seq <=> k = m
    BY <1>10 DEF KnownInv
  <2>3. QED
    BY <1>5, <1>11, <2>1, <2>2 DEF Launched
<1>13. KnownInv'
  BY <1>5, <1>8 DEF KnownInv
<1>14. Live' = Live \ {m} /\ m \in Live
  BY <1>8, <1>10, <1>12 DEF Live, LaunchInv, Known
<1>15. LaunchInv'
  <2>1. \A s \in 1..MaxAgentCalls : s > submits' => launches'[s] = 0
    <3>1. m.seq <= submits
      BY <1>10 DEF KnownInv
    <3>2. submits \in Nat
      BY DEF TSP!PlaceInv, TSP!TypeInv
    <3>3. QED
      BY <1>5, <1>11, <3>1, <3>2 DEF LaunchInv
  <2>2. ToLaunch' \subseteq ToLaunch \ {m}
    <3>1. CASE w = "consumer"
      <4>1. TSP!B' = TSP!B /\ TSP!C'.pc = "push" /\ worker[w] = TSP!C
        BY <1>4, <1>6, <1>7, <3>1, Frames
      <4>2. m \in TSP!Own
        BY <1>2, <1>3, <4>1 DEF TSP!Own
      <4>3. m \notin pending \cup TSP!B.item \cup TSP!B.rest \cup TSP!B.remaining
        BY <1>1, <4>2 DEF TSP!Apart
      <4>4. QED
        BY <1>5, <4>1, <4>3 DEF ToLaunch
    <3>2. CASE w = "background"
      <4>1. TSP!C' = TSP!C /\ TSP!B'.pc = "push" /\ m \in TSP!B.item
        BY <1>3, <1>4, <1>6, <1>7, <3>2, Frames
      <4>2. m \notin pending \cup TSP!Own \cup TSP!B.rest \cup TSP!B.remaining
        BY <1>1, <4>1 DEF TSP!Apart
      <4>3. TSP!C.pc \in {"acquire", "check", "launch", "queue"} => TSP!C.item = TSP!Own
        BY DEF TSP!Own
      <4>4. QED
        BY <1>5, <1>7, <4>1, <4>2, <4>3 DEF ToLaunch
    <3>3. QED
      BY <1>4, <3>1, <3>2
  <2>3. ToLaunch \subseteq Known
    BY HeldNow DEF ToLaunch, Known, OnItsWay
  <2>4. \A k \in ToLaunch' : ~Launched(k)'
    BY <1>12, <2>2, <2>3 DEF LaunchInv
  <2>5. \A v \in TSP!Worker : worker'[v].pc = "push" => \A k \in worker'[v].item : Launched(k)'
    <3>1. ASSUME NEW v \in TSP!Worker, NEW k \in worker[v].item PROVE k \in Known
      BY <3>1, Frames, HeldNow DEF Known, OnItsWay
    <3>2. QED
      BY <1>3, <1>6, <1>12, <3>1 DEF LaunchInv
  <2>6. Saved'
    <3>1. TSP!Queue' = TSP!Queue
      BY <1>5, <1>7 DEF TSP!Queue
    <3>2. SUFFICES ASSUME TSP!C'.pc \in {"save", "ack"}, NEW k \in TSP!C.item
                   PROVE  k \in TSP!Queue \/ Launched(k)'
      BY <1>7, <3>1 DEF Saved
    <3>3. TSP!C' = TSP!C
      BY <1>4, <1>6, <1>7, <3>2, Frames
    <3>4. k \in Known
      BY <3>2, HeldNow DEF Known, OnItsWay
    <3>5. QED
      BY <1>12, <3>2, <3>3, <3>4 DEF LaunchInv, Saved
  <2>7. \A k \in stream' : Launched(k)' => TSP!C'.item = {k}
    <3>1. SUFFICES ASSUME NEW k \in stream, Launched(k)' PROVE TSP!C.item = {k}
      BY <1>5, <1>7
    <3>2. k \in Known
      BY DEF Known, OnItsWay
    <3>3. Launched(k) \/ k = m
      BY <1>12, <3>1, <3>2
    <3>4. CASE k = m
      <4>1. m \in TSP!Placed
        BY <1>2, <1>3, <1>4 DEF TSP!Placed, TSP!Own
      <4>2. QED
        BY <1>1, <1>11, <3>4, <4>1 DEF TSP!StreamOK
    <3>5. QED
      BY <3>3, <3>4 DEF LaunchInv
  <2>8. QED
    BY <2>1, <2>4, <2>5, <2>6, <2>7 DEF LaunchInv
<1>16. QED
  BY <1>3, <1>5, <1>13, <1>14, <1>15 DEF TSP!InHand

\* A delivery: a submission is accepted, or dropped as a duplicate.
LEMMA HandleCounts ==
  ASSUME TSP!PlaceInv, TSP!PlaceInv', KnownInv, LaunchInv, NEW m \in TSP!Submission,
         TSP!HandleNatsTask(m)
  PROVE  /\ KnownInv' /\ LaunchInv'
         /\ \/ Live' = Live /\ dropped' = dropped
            \/ /\ m \in Live /\ Live' = Live \ {m}
               /\ m \notin dropped /\ dropped' = dropped \cup {m}
<1>1. /\ TSP!C.pc = "idle" /\ m \in stream
      /\ UNCHANGED <<submits, pending, launches>>
  BY Frames DEF TSP!HandleNatsTask, TSP!At
<1>2. TSP!FramesOK /\ TSP!StreamOK
  BY DEF TSP!PlaceInv
<1>3. TSP!C.item = {} /\ m.copy \in Nat
  BY <1>1, <1>2 DEF TSP!FramesOK, TSP!Submission
<1>4. m \notin pending \cup TSP!Held
  <2>1. m \notin TSP!Placed
    BY <1>1, <1>2, <1>3 DEF TSP!StreamOK
  <2>2. QED
    BY <1>3, <2>1, HeldNow DEF TSP!Placed
<1>5. \A k : Launched(k)' <=> Launched(k)
  BY <1>1 DEF Launched
<1>6. \A k \in stream : ~Launched(k)
  BY <1>3 DEF LaunchInv
<1>7. CASE dropped' = dropped \cup {m} /\ stream' = stream \ {m} /\ UNCHANGED worker
  <2>1. TSP!C' = TSP!C /\ TSP!B' = TSP!B /\ TSP!Held' = TSP!Held
    BY <1>7 DEF TSP!C, TSP!B, TSP!Held, TSP!InHand
  <2>2. OnItsWay' = OnItsWay \ {m} /\ Known' = Known /\ m \in OnItsWay
    BY <1>1, <1>4, <1>7, <2>1 DEF OnItsWay, Known
  <2>3. KnownInv'
    BY <1>1, <1>7, <2>2 DEF KnownInv
  <2>4. LaunchInv'
    <3>1. ToLaunch' = ToLaunch /\ Saved'
      BY <1>1, <1>5, <2>1 DEF ToLaunch, LaunchInv, Saved, TSP!Queue
    <3>2. QED
      BY <1>1, <1>5, <1>7, <2>1, <3>1 DEF LaunchInv
  <2>5. m \in Live /\ Live' = Live \ {m}
    BY <1>1, <1>5, <1>6, <2>2 DEF Live
  <2>6. m \notin dropped
    BY <2>2 DEF KnownInv
  <2>7. QED
    BY <1>7, <2>3, <2>4, <2>5, <2>6
<1>8. CASE /\ worker' = [worker EXCEPT ![TSP!Consumer] = [@ EXCEPT !.pc = "acquire", !.item = {m}]]
           /\ UNCHANGED <<dropped, stream>>
  <2>1. /\ TSP!B' = TSP!B /\ TSP!C'.item = {m} /\ TSP!C'.pc = "acquire"
        /\ worker'["consumer"].pc = "acquire" /\ worker'["background"] = worker["background"]
    BY <1>8, Frames DEF TSP!C, TSP!B, TSP!Consumer, TSP!Background, TSP!Frame
  <2>2. OnItsWay' = OnItsWay /\ Known' = Known
    BY <1>1, <1>3, <1>8, <2>1, HeldNow, HeldThen DEF OnItsWay, Known
  <2>3. KnownInv'
    BY <1>1, <1>8, <2>2 DEF KnownInv
  <2>4. Live' = Live
    BY <1>5, <2>2 DEF Live
  <2>5. ToLaunch' = ToLaunch \cup {m}
    BY <1>1, <2>1 DEF ToLaunch
  <2>6. Saved'
    BY <2>1 DEF Saved
  <2>7. \A k \in ToLaunch' : ~Launched(k)'
    BY <1>1, <1>5, <1>6, <2>5 DEF LaunchInv
  <2>8. \A v \in TSP!Worker : worker'[v].pc = "push" => \A k \in worker'[v].item : Launched(k)'
    BY <1>5, <2>1, Frames DEF LaunchInv
  <2>9. LaunchInv'
    BY <1>1, <1>5, <1>6, <1>8, <2>6, <2>7, <2>8 DEF LaunchInv
  <2>10. QED
    BY <1>8, <2>3, <2>4, <2>9
<1>9. QED
  BY <1>7, <1>8 DEF TSP!HandleNatsTask

-----------------------------------------------------------------------------
(* The count. *)

Of(S, n) == {m \in S : m.task = n}

\* What of node n the DAG scheduler waits for.
Backed(n) == sessions[n] + Cardinality(Of(Live, n)) + Cardinality(Of(dropped, n))

BackedInv == sessions \in [Node -> Nat] /\ \A n \in Node : outstanding[n] = Backed(n)

RealInv == KnownInv /\ LaunchInv /\ BackedInv

LEMMA Finite ==
  ASSUME KnownInv, NEW n
  PROVE  /\ IsFiniteSet(Of(Live, n)) /\ Cardinality(Of(Live, n)) \in Nat
         /\ IsFiniteSet(Of(dropped, n)) /\ Cardinality(Of(dropped, n)) \in Nat
<1>1. Of(Live, n) \subseteq Known /\ Of(dropped, n) \subseteq Known
  BY DEF Of, Live, Known
<1>2. QED
  BY <1>1, FS_Subset, FS_CardinalityType DEF KnownInv

LEMMA OneMore ==
  ASSUME NEW S, NEW m, m \notin S, NEW n, IsFiniteSet(Of(S, n))
  PROVE  Cardinality(Of(S \cup {m}, n)) = Cardinality(Of(S, n)) + (IF m.task = n THEN 1 ELSE 0)
<1>1. CASE m.task = n
  <2>1. Of(S \cup {m}, n) = Of(S, n) \cup {m} /\ m \notin Of(S, n)
    BY <1>1 DEF Of
  <2>2. QED
    BY <1>1, <2>1, FS_AddElement
<1>2. CASE m.task # n
  <2>1. Of(S \cup {m}, n) = Of(S, n)
    BY <1>2 DEF Of
  <2>2. QED
    BY <1>2, <2>1, FS_CardinalityType
<1>3. QED
  BY <1>1, <1>2

LEMMA OneLess ==
  ASSUME NEW S, NEW m \in S, NEW n, IsFiniteSet(Of(S, n))
  PROVE  Cardinality(Of(S \ {m}, n)) = Cardinality(Of(S, n)) - (IF m.task = n THEN 1 ELSE 0)
<1>1. CASE m.task = n
  <2>1. Of(S \ {m}, n) = Of(S, n) \ {m} /\ m \in Of(S, n)
    BY <1>1 DEF Of
  <2>2. QED
    BY <1>1, <2>1, FS_RemoveElement
<1>2. CASE m.task # n
  <2>1. Of(S \ {m}, n) = Of(S, n)
    BY <1>2 DEF Of
  <2>2. QED
    BY <1>2, <2>1, FS_CardinalityType
<1>3. QED
  BY <1>1, <1>2

\* Nothing that is counted moves.
LEMMA CountKept ==
  ASSUME BackedInv, UNCHANGED <<outstanding, sessions, Live, dropped>>
  PROVE  BackedInv'
BY DEF BackedInv, Backed, Of

LEMMA QuietCounts ==
  ASSUME TSP!PlaceInv, RealInv, Quiet, UNCHANGED <<outstanding, sessions>>
  PROVE  RealInv'
<1>1. KnownInv' /\ LaunchInv' /\ Live' = Live
  BY QuietKeeps DEF RealInv
<1>2. dropped' = dropped
  BY DEF Quiet
<1>3. QED
  BY <1>1, <1>2, CountKept DEF RealInv

LEMMA StillQuiet == ASSUME TSP!PlaceInv, RealInv, UNCHANGED taskVars PROVE Quiet
BY ReleaseQuiet DEF RealInv, taskVars

LEMMA MarkCompletedQuiet == ASSUME TSP!PlaceInv, RealInv, NEW n, MarkCompleted(n) PROVE Quiet
BY ReleaseQuiet, StillQuiet
   DEF RealInv, MarkCompleted, TS!ReleaseProcessing, TS!ReleaseUnlaunched

\* Most of the DAG scheduler's steps start no execution and end none.
LEMMA OutstandingStays ==
  ASSUME NEW t \in Task,
         \/ LocalStep(t) \/ SubmitGraph(t) \/ TimerExits(t)
         \/ DagTimeout(t) \/ StallPoll(t) \/ Cancel(t)
         \/ \E n \in Node : OnNodeCompleted(t, n) \/ IdleTimeout(t, n)
         \/ CompleteNode(t) \/ ClaimFailure(t) \/ SubmissionError(t)
  PROVE  outstanding' = outstanding
<1>1. CASE \/ SubmitGraph(t) \/ TimerExits(t) \/ DagTimeout(t) \/ StallPoll(t) \/ Cancel(t)
           \/ \E n \in Node : OnNodeCompleted(t, n) \/ IdleTimeout(t, n)
           \/ CompleteNode(t) \/ ClaimFailure(t) \/ SubmissionError(t)
  BY <1>1 DEF SubmitGraph, TimerExits, DagTimeout, StallPoll, Cancel, OnNodeCompleted, IdleTimeout,
     CompleteNode, ClaimFailure, SubmissionError, busVars
<1>2. CASE LocalStep(t)
  <2>1. CASE \/ ClaimReady(t) \/ SubmittedAll(t)
             \/ \E n \in Node : Peek(t, n) \/ OnNodeFailed(t, n)
             \/ TryConsumeBudget(t) \/ SubmissionFault(t)
    BY <2>1 DEF ClaimReady, SubmittedAll, Peek, OnNodeFailed, TryConsumeBudget, SubmissionFault, busVars
  <2>2. CASE \/ CollectDownstream(t) \/ SkipCollected(t)
             \/ ConfirmFailed(t) \/ RetryAfterBackoff(t) \/ MarkRetryRunning(t)
             \/ SaveGraph(t) \/ SaveFault(t)
    BY <2>2 DEF CollectDownstream, SkipCollected, ConfirmFailed, RetryAfterBackoff, MarkRetryRunning,
       SaveGraph, SaveFault, busVars
  <2>3. CASE \/ SwapFinalized(t) \/ PublishDagComplete(t) \/ NotTerminal(t) \/ ReleaseGate(t)
             \/ VictimsFailed(t) \/ CancelStatuses(t)
             \/ Acknowledge(t) \/ Redelivery(t) \/ DeliveriesExhausted(t)
    BY <2>3 DEF SwapFinalized, PublishDagComplete, NotTerminal, ReleaseGate, VictimsFailed,
       CancelStatuses, Acknowledge, Redelivery, DeliveriesExhausted, busVars
  <2>4. QED
    BY <1>2, <2>1, <2>2, <2>3 DEF LocalStep
<1>3. QED
  BY <1>1, <1>2

LEMMA DispatchCounts ==
  ASSUME TSP!PlaceInv, DagInv, RealInv, NEW t \in Task, Dispatch(t)
  PROVE  RealInv'
<1>1. task[t].node \in Node
  BY NodeTold DEF Dispatch, PublishTaskSubmit
<1>2. PICK n \in Node : n = task[t].node
  BY <1>1
<1>3. TSP!Submit(n)
  BY <1>2, SameMoves DEF Dispatch
<1>4. /\ KnownInv' /\ LaunchInv' /\ dropped' = dropped
      /\ New(n).task = n /\ New(n) \notin Live /\ Live' = Live \cup {New(n)}
  BY <1>3, SubmitCounts DEF RealInv
<1>5. sessions' = sessions /\ outstanding' = [outstanding EXCEPT ![n] = @ + 1]
  BY <1>2 DEF Dispatch, PublishTaskSubmit, agentVars
<1>6. outstanding \in [Node -> Nat] /\ sessions \in [Node -> Nat]
  BY DEF DagInv, TypeInv, TypeOK, RealInv, BackedInv
<1>7. ASSUME NEW x \in Node PROVE outstanding'[x] = Backed(x)'
  <2>1. /\ IsFiniteSet(Of(Live, x)) /\ Cardinality(Of(Live, x)) \in Nat
        /\ Cardinality(Of(dropped, x)) \in Nat
    BY Finite DEF RealInv
  <2>2. Cardinality(Of(Live', x)) = Cardinality(Of(Live, x)) + (IF n = x THEN 1 ELSE 0)
    BY <1>4, <2>1, OneMore
  <2>3. outstanding[x] = Backed(x)
    BY DEF RealInv, BackedInv
  <2>4. Backed(x)' = sessions[x] + Cardinality(Of(Live', x)) + Cardinality(Of(dropped, x))
    BY <1>4, <1>5 DEF Backed, Of
  <2>5. QED
    BY <1>5, <1>6, <2>1, <2>2, <2>3, <2>4 DEF Backed
<1>8. QED
  BY <1>4, <1>5, <1>6, <1>7 DEF RealInv, BackedInv

LEMMA LaunchReal ==
  ASSUME TSP!PlaceInv, TSP!PlaceInv', DagInv, RealInv, NEW w \in TSP!Worker, Launch(w)
  PROVE  RealInv'
<1>1. TSP!LaunchAgents(w)
  BY SameMoves DEF Launch
<1>2. PICK m \in Live : TSP!InHand(w) = {m} /\ Live' = Live \ {m}
  BY <1>1, LaunchCounts DEF RealInv
<1>3. KnownInv' /\ LaunchInv' /\ dropped' = dropped
  BY <1>1, LaunchCounts DEF RealInv
<1>4. TS!InHand(w) = {m}
  BY <1>2 DEF TS!InHand, TSP!InHand
<1>5. /\ outstanding' = outstanding
      /\ sessions' = [x \in Node |-> IF m.task = x THEN sessions[x] + 1 ELSE sessions[x]]
  BY <1>4 DEF Launch, vars, busVars
<1>6. sessions \in [Node -> Nat]
  BY DEF RealInv, BackedInv
<1>7. ASSUME NEW x \in Node PROVE outstanding'[x] = Backed(x)'
  <2>1. /\ IsFiniteSet(Of(Live, x)) /\ Cardinality(Of(Live, x)) \in Nat
        /\ Cardinality(Of(dropped, x)) \in Nat
    BY Finite DEF RealInv
  <2>2. Cardinality(Of(Live', x)) = Cardinality(Of(Live, x)) - (IF m.task = x THEN 1 ELSE 0)
    BY <1>2, <2>1, OneLess
  <2>3. outstanding[x] = Backed(x)
    BY DEF RealInv, BackedInv
  <2>4. Backed(x)' = sessions'[x] + Cardinality(Of(Live', x)) + Cardinality(Of(dropped, x))
    BY <1>3 DEF Backed, Of
  <2>5. QED
    BY <1>5, <1>6, <2>1, <2>2, <2>3, <2>4 DEF Backed
<1>8. sessions' \in [Node -> Nat]
  BY <1>5, <1>6
<1>9. QED
  BY <1>3, <1>7, <1>8 DEF RealInv, BackedInv

LEMMA HandleReal ==
  ASSUME TSP!PlaceInv, TSP!PlaceInv', DagInv, RealInv, NEW m \in TSP!Submission,
         TSP!HandleNatsTask(m), UNCHANGED <<outstanding, sessions>>
  PROVE  RealInv'
<1>1. /\ KnownInv' /\ LaunchInv'
      /\ \/ Live' = Live /\ dropped' = dropped
         \/ /\ m \in Live /\ Live' = Live \ {m}
            /\ m \notin dropped /\ dropped' = dropped \cup {m}
  BY HandleCounts DEF RealInv
<1>2. CASE Live' = Live /\ dropped' = dropped
  BY <1>1, <1>2, CountKept DEF RealInv
<1>3. CASE m \in Live /\ Live' = Live \ {m} /\ m \notin dropped /\ dropped' = dropped \cup {m}
  <2>1. ASSUME NEW x \in Node PROVE outstanding'[x] = Backed(x)'
    <3>1. /\ IsFiniteSet(Of(Live, x)) /\ Cardinality(Of(Live, x)) \in Nat
          /\ IsFiniteSet(Of(dropped, x)) /\ Cardinality(Of(dropped, x)) \in Nat
      BY Finite DEF RealInv
    <3>2. Cardinality(Of(Live', x)) = Cardinality(Of(Live, x)) - (IF m.task = x THEN 1 ELSE 0)
      BY <1>3, <3>1, OneLess
    <3>3. Cardinality(Of(dropped', x)) = Cardinality(Of(dropped, x)) + (IF m.task = x THEN 1 ELSE 0)
      BY <1>3, <3>1, OneMore
    <3>4. outstanding[x] = Backed(x) /\ sessions[x] \in Nat
      BY DEF RealInv, BackedInv
    <3>5. Backed(x)' = sessions[x] + Cardinality(Of(Live', x)) + Cardinality(Of(dropped', x))
      BY DEF Backed, Of
    <3>6. QED
      BY <3>1, <3>2, <3>3, <3>4, <3>5 DEF Backed
  <2>2. QED
    BY <1>1, <2>1 DEF RealInv, BackedInv
<1>4. QED
  BY <1>1, <1>2, <1>3

\* Executions of one node end at their agents: outstanding and sessions drop alike.
LEMMA EndsReal ==
  ASSUME TSP!PlaceInv, DagInv, RealInv, NEW n \in Node, NEW k \in 0..sessions[n], Quiet,
         sessions' = [sessions EXCEPT ![n] = k],
         outstanding' = [outstanding EXCEPT ![n] = outstanding[n] - (sessions[n] - k)]
  PROVE  RealInv'
<1>1. KnownInv' /\ LaunchInv' /\ Live' = Live /\ dropped' = dropped
  BY QuietKeeps DEF RealInv, Quiet
<1>2. outstanding \in [Node -> Nat] /\ sessions \in [Node -> Nat]
  BY DEF DagInv, TypeInv, TypeOK, RealInv, BackedInv
<1>3. ASSUME NEW x \in Node PROVE outstanding'[x] = Backed(x)'
  <2>1. Cardinality(Of(Live, x)) \in Nat /\ Cardinality(Of(dropped, x)) \in Nat
    BY Finite DEF RealInv
  <2>2. outstanding[x] = Backed(x)
    BY DEF RealInv, BackedInv
  <2>3. Backed(x)' = sessions'[x] + Cardinality(Of(Live, x)) + Cardinality(Of(dropped, x))
    BY <1>1 DEF Backed, Of
  <2>4. QED
    BY <1>2, <2>1, <2>2, <2>3 DEF Backed
<1>4. QED
  BY <1>1, <1>2, <1>3 DEF RealInv, BackedInv

LEMMA VictimReal ==
  ASSUME TSP!PlaceInv, DagInv, RealInv, NEW t \in Task, NEW v \in Node \X TaskStatus,
         VictimCancelled(t, v)
  PROVE  RealInv'
<1>1. PICK n \in Node : n = v[1]
  OBVIOUS
<1>2. Quiet
  BY MarkCompletedQuiet, StillQuiet DEF VictimCancelled
<1>3. CASE UNCHANGED <<agentVars, outstanding>>
  BY <1>2, <1>3, QuietCounts DEF agentVars
<1>4. CASE /\ v[2] = "Running" /\ t # StallTimer /\ sessions[n] > 0
           /\ sessions' = [sessions EXCEPT ![n] = 0]
           /\ outstanding'[n] = outstanding[n] - sessions[n]
  <2>1. CancelExecution(v)
    BY <1>4 DEF VictimCancelled, FailNextVictim, CancelNextVictim
  <2>2. PICK left \in 0..outstanding[n] : outstanding' = [outstanding EXCEPT ![n] = left]
    BY <1>1, <1>4, <2>1 DEF CancelExecution
  <2>3. sessions \in [Node -> Nat] /\ outstanding \in [Node -> Nat]
    BY DEF DagInv, TypeInv, TypeOK, RealInv, BackedInv
  <2>4. left = outstanding[n] - (sessions[n] - 0) /\ 0 \in 0..sessions[n]
    BY <1>4, <2>2, <2>3
  <2>5. QED
    BY <1>2, <1>4, <2>2, <2>4, EndsReal
<1>5. QED
  BY <1>1, <1>3, <1>4 DEF VictimCancelled

LEMMA SessionEndsReal ==
  ASSUME TSP!PlaceInv, DagInv, RealInv, NEW n \in Node, SessionEnds(n)
  PROVE  RealInv'
<1>1. Quiet
  BY StillQuiet DEF SessionEnds
<1>2. sessions \in [Node -> Nat] /\ outstanding \in [Node -> Nat]
  BY DEF DagInv, TypeInv, TypeOK, RealInv, BackedInv
<1>3. /\ sessions[n] > 0 /\ sessions' = [sessions EXCEPT ![n] = sessions[n] - 1]
      /\ outstanding' = [outstanding EXCEPT ![n] = outstanding[n] - 1]
  BY DEF SessionEnds, ExecutionCompletes, ExecutionFails
<1>4. PICK k \in 0..sessions[n] : k = sessions[n] - 1
  BY <1>2, <1>3
<1>5. sessions[n] - k = 1
  BY <1>2, <1>4
<1>6. QED
  BY <1>1, <1>3, <1>4, <1>5, EndsReal

LEMMA RealNext ==
  ASSUME TSP!PlaceInv, TSP!PlaceInv', DagInv, RealInv, [PipeNext]_pipeVars
  PROVE  RealInv'
<1>1. ASSUME UNCHANGED <<taskVars, outstanding, sessions>> PROVE RealInv'
  BY <1>1, StillQuiet, QuietCounts
<1>2. CASE UNCHANGED pipeVars
  BY <1>1, <1>2 DEF pipeVars, agentVars, vars, busVars
<1>3. ASSUME NEW t \in Task, DagStep(t) PROVE RealInv'
  <2>1. CASE Dispatch(t)
    BY <2>1, DispatchCounts
  <2>2. CASE SubmissionFailed(t) \/ NodeCompleted(t) \/ NodeFailed(t)
    <3>1. outstanding' = outstanding /\ sessions' = sessions
      BY <2>2, OutstandingStays DEF SubmissionFailed, NodeCompleted, NodeFailed, agentVars
    <3>2. Quiet
      BY <2>2, StillQuiet, MarkCompletedQuiet DEF SubmissionFailed, NodeCompleted, NodeFailed
    <3>3. QED
      BY <3>1, <3>2, QuietCounts
  <2>3. ASSUME NEW v \in Node \X TaskStatus, VictimCancelled(t, v) PROVE RealInv'
    BY <2>3, VictimReal
  <2>4. CASE /\ \/ LocalStep(t) \/ SubmitGraph(t) \/ TimerExits(t)
                \/ DagTimeout(t) \/ StallPoll(t) \/ Cancel(t)
                \/ \E n \in Node : OnNodeCompleted(t, n) \/ IdleTimeout(t, n)
             /\ UNCHANGED <<taskVars, agentVars>>
    BY <1>1, <2>4, OutstandingStays DEF agentVars
  <2>5. QED
    BY <1>3, <2>1, <2>2, <2>3, <2>4 DEF DagStep
<1>4. ASSUME NEW t \in Task, AgentStopped(t) PROVE RealInv'
  BY <1>1, <1>4 DEF AgentStopped, vars, busVars
<1>5. ASSUME NEW w \in TS!Worker, Launch(w) PROVE RealInv'
  BY <1>5, LaunchReal, SameState
<1>6. ASSUME NEW w \in TS!Worker, Schedule(w) PROVE RealInv'
  <2>1. outstanding' = outstanding /\ sessions' = sessions /\ w \in TSP!Worker
    BY <1>6, SameState DEF Schedule, vars, busVars, agentVars
  <2>2. CASE \E n \in Node : TS!FreeSeen(n)
    <3>1. Quiet
      BY <2>2, ReleaseQuiet DEF TS!FreeSeen, RealInv
    <3>2. QED
      BY <2>1, <3>1, QuietCounts
  <2>3. ASSUME NEW m \in TS!Submission, TS!HandleNatsTask(m) PROVE RealInv'
    BY <2>1, <2>3, HandleReal, SameMoves, SameState
  <2>4. CASE \/ TS!TryAcquirePermit(w) \/ TS!CheckAgentAvailability(w) \/ TS!PushProcessing(w)
             \/ TS!QueueTask(w) \/ TS!SaveToDisk(w) \/ TS!Acknowledge(w)
             \/ TS!DrainPending(w) \/ TS!PutBack(w)
             \/ \E m \in TS!Submission : TS!NextPending(w, m)
    <3>1. \/ TSP!TryAcquirePermit(w) \/ TSP!CheckAgentAvailability(w) \/ TSP!PushProcessing(w)
          \/ TSP!QueueTask(w) \/ TSP!SaveToDisk(w) \/ TSP!Acknowledge(w)
          \/ TSP!DrainPending(w) \/ TSP!PutBack(w)
          \/ \E m \in TSP!Submission : TSP!NextPending(w, m)
      BY <2>4, SameMoves, SameState
    <3>2. w = TSP!Consumer \/ w = TSP!Background
      BY <2>1 DEF TSP!Worker
    <3>3. Quiet
      BY <2>1, <3>1, <3>2, ConsumerQuiet, BackQuiet DEF RealInv
    <3>4. QED
      BY <2>1, <3>3, QuietCounts
  <2>5. QED
    BY <1>6, <2>2, <2>3, <2>4 DEF Schedule
<1>7. ASSUME NEW n \in Node, SessionEnds(n) PROVE RealInv'
  BY <1>7, SessionEndsReal
<1>8. CASE /\ DeadlinePasses \/ ProgressGoesStale \/ \E n \in Node : WatcherExits(n)
           /\ UNCHANGED <<taskVars, agentVars>>
  BY <1>1, <1>8 DEF DeadlinePasses, ProgressGoesStale, WatcherExits, agentVars, busVars
<1>9. QED
  BY <1>2, <1>3, <1>4, <1>5, <1>6, <1>7, <1>8 DEF PipeNext

LEMMA RealInit == PipeInit => RealInv
<1> SUFFICES ASSUME PipeInit PROVE RealInv
  OBVIOUS
<1>1. /\ stream = {} /\ pending = {} /\ dropped = {} /\ submits = 0
      /\ worker = [w \in TS!Worker |-> TS!Idle] /\ launches = [s \in 1..MaxAgentCalls |-> 0]
      /\ outstanding = [n \in Node |-> 0] /\ sessions = [n \in Node |-> 0]
  BY DEF PipeInit, Init, TS!Init
<1>2. \A w \in TSP!Worker : /\ worker[w].pc = "idle" /\ worker[w].item = {}
                            /\ worker[w].rest = {} /\ worker[w].remaining = {}
  BY <1>1, SameState DEF TS!Idle
<1>3. TSP!Held = {}
  BY <1>2 DEF TSP!Held, TSP!InHand
<1>4. Known = {} /\ OnItsWay = {} /\ Live = {}
  BY <1>1, <1>3 DEF Known, OnItsWay, Live
<1>5. KnownInv
  BY <1>1, <1>4, FS_EmptySet DEF KnownInv
<1>6. /\ TSP!C.pc = "idle" /\ TSP!C.item = {} /\ TSP!B.pc = "idle" /\ TSP!B.rest = {}
      /\ TSP!B.remaining = {}
  BY <1>2 DEF TSP!C, TSP!B, TSP!Worker
<1>7. LaunchInv
  BY <1>1, <1>2, <1>6 DEF LaunchInv, ToLaunch, Saved
<1>8. BackedInv
  <2>1. \A n : Of(Live, n) = {} /\ Of(dropped, n) = {}
    BY <1>1, <1>4 DEF Of
  <2>2. QED
    BY <1>1, <2>1, FS_EmptySet DEF BackedInv, Backed
<1>9. QED
  BY <1>5, <1>7, <1>8 DEF RealInv

LEMMA RealHolds == PipeSpec => []RealInv
BY RealInit, RealNext, TaskInvHolds, DagInvHolds, PTL DEF PipeSpec

\* Each execution the DAG scheduler waits for is a submission on its way, an
\* agent at work or a dropped duplicate, whatever is cancelled, released or
\* submitted again.
THEOREM OutstandingExists == PipeSpec => []OutstandingIsReal
<1>1. TSP!PlaceInv /\ RealInv => OutstandingIsReal
  <2> SUFFICES ASSUME TSP!PlaceInv, RealInv, NEW n \in Node
               PROVE  outstanding[n] = sessions[n] + Cardinality(Unlaunched(n))
                                       + Cardinality({m \in dropped : m.task = n})
    BY DEF OutstandingIsReal
  <2>1. launches \in [1..MaxAgentCalls -> Nat]
    BY DEF TSP!PlaceInv, TSP!TypeInv
  <2>2. \A m \in OnItsWay : launches[m.seq] = 0 <=> ~Launched(m)
    BY <2>1, HeldIs DEF TSP!Submission, Launched
  <2>3. Unlaunched(n) = Of(Live, n)
    BY <2>2, SameState DEF Unlaunched, Of, Live, OnItsWay
  <2>4. QED
    BY <2>3 DEF RealInv, BackedInv, Backed, Of
<1>2. QED
  BY <1>1, RealHolds, TaskInvHolds, PTL

-----------------------------------------------------------------------------
(* What is executing.  From here on nothing but the completions and the      *)
(* failures that agents report moves a node: no retries, no timers, no       *)
(* watchers, nobody who cancels.                                             *)
Steady == Undisturbed /\ ~HasDagTimeout /\ Watcher = {}

SteadyInv == TypeInv /\ Inv /\ RunningInv /\ ClockInv

\* The executions of n the scheduler waits for, and those whose end it has
\* not acknowledged.
Ends(n) == outstanding[n] + completions[n] + failures[n]

ExecutionInv ==
    \A n \in Node :
        /\ Ends(n) <= dispatched[n]
        /\ outstanding[n] > 0 => status[n] = "Running"
        /\ status[n] = "Running" /\ dispatched[n] > 0 => Ends(n) > 0

\* The node of a message that was handled is terminal.
HandledInv ==
    task[Listener].pc \notin {"idle", "complete", "failing"}
        => status[task[Listener].event] \in Terminal

\* A Running node that was not sent yet is one that some task is to send.
SentOrClaimed ==
    \A n \in Node : status[n] = "Running" /\ dispatched[n] = 0
        => \E u \in Task : n \in Claims(task[u])

LEMMA SteadyTasks ==
  ASSUME Steady, SteadyInv
  PROVE  /\ ~deadlinePassed
         /\ \A u \in Task : task[u].pc \notin {"off", "idle"} => u \in {Listener, Submitter}
         /\ \A u \in Task : ~Retrying(task[u])
         /\ \A n \in Node : dispatched[n] \in {0, 1}
<1>1. ~deadlinePassed
  BY DEF SteadyInv, ClockInv, Steady
<1>2. ASSUME NEW u \in Task, task[u].pc \notin {"off", "idle"} PROVE u \in {Listener, Submitter}
  <2>1. Place(u, task[u])
    BY DEF SteadyInv, Inv, FrameInv
  <2>2. u # DagTimer /\ u # StallTimer /\ u # Canceller
    BY <1>1, <1>2, <2>1, Distinct DEF Place, Steady, Undisturbed
  <2>3. QED
    BY <2>2 DEF Task, Steady
<1>3. \A u \in Task : ~Retrying(task[u])
  BY DEF SteadyInv, Inv, FrameInv, FrameOK, Steady, Undisturbed
<1>4. ASSUME NEW n \in Node PROVE dispatched[n] \in {0, 1}
  <2>1. dispatched[n] \in Nat /\ retries[n] \in Nat /\ retries[n] <= 0 /\ dispatched[n] <= 1 + retries[n]
    BY DEF SteadyInv, TypeInv, TypeOK, Inv, ClaimInv, SentInv, NoDoubleExecution, Steady,
           Undisturbed, NoRetries
  <2>2. QED
    BY <2>1
<1>5. QED
  BY <1>1, <1>2, <1>3, <1>4

\* The listener has its message in the stream, and handles the failure of no
\* other node.
LEMMA ListenerHandles ==
  ASSUME Steady, SteadyInv, ~At(Listener, "idle")
  PROVE  LET n == task[Listener].event
         IN  /\ n \in Node /\ dispatched[n] > 0
             /\ task[Listener].op = "failed" => task[Listener].node = n /\ failures[n] > 0
             /\ task[Listener].op # "failed" => task[Listener].op = "completed" /\ completions[n] > 0
<1> DEFINE f == task[Listener]
           n == f.event
<1>1. MessageInStream(f) /\ Place(Listener, f)
  BY Distinct DEF SteadyInv, TypeInv, TasksOK, ListenerFrame, At, Inv, FrameInv
<1>2. /\ n \in Node
      /\ (f.op = "completed" /\ completions[n] > 0) \/ (f.op = "failed" /\ failures[n] > 0)
  BY <1>1 DEF MessageInStream
<1>3. f.op = "failed" => f.node = n
  BY <1>1, Distinct DEF Place
<1>4. dispatched[n] # 0 /\ dispatched[n] \in Nat
  BY <1>2 DEF SteadyInv, Inv, HistoryInv, TypeInv, TypeOK
<1>5. QED
  BY <1>2, <1>3, <1>4

\* A node that was sent and runs goes on running, until the listener takes the
\* report of its end.
Reported(n) ==
    /\ n = task[Listener].event
    /\ \/ CompleteNode(Listener) /\ ~CompletionIsLate(n) /\ completions[n] > 0
       \/ ClaimFailure(Listener) /\ FailureIsClaimed(n) /\ ~MayRetry(n) /\ failures[n] > 0

\* Only the steps that take the report of an end stop a node that was sent.
LEMMA RunsOn ==
  ASSUME Steady, SteadyInv, NEW t \in Task,
         LocalStep(t) \/ HandlerStart(t) \/ PublishTaskSubmit(t) \/ SubmissionError(t),
         NEW n \in Node, dispatched[n] > 0, status[n] = "Running"
  PROVE  status'[n] = "Running"
<1>0. TypeInv /\ FrameInv /\ HistoryInv /\ TimersInv /\ ClaimInv /\ StartedInv
  BY DEF SteadyInv, Inv, BranchInv
<1>1. CASE HandlerStart(t) \/ PublishTaskSubmit(t)
  BY <1>1 DEF HandlerStart, SubmitGraph, OnNodeCompleted, IdleTimeout, DagTimeout, StallPoll,
              TimerExits, Cancel, PublishTaskSubmit, graphVars
<1>2. CASE SubmissionError(t)
  <2>1. Submits(task[t]) /\ (task[t].op = "failed" => Retrying(task[t]))
    BY <1>0, <1>2, SubmissionErrorFrame
  <2>2. task[t].node \in Claims(task[t])
    BY <2>1, SteadyTasks DEF Claims
  <2>3. task[t].node # n
    BY <1>0, <2>2 DEF ClaimInv, HeldInv
  <2>4. QED
    BY <1>2, <2>3 DEF SubmissionError, WithStatus
<1>3. ~ClaimReady(t)
  BY <1>0, QuietHolds DEF ClaimReady, At
<1>4. ~MarkRetryRunning(t) /\ ~VictimsFailed(t) /\ ~CancelStatuses(t)
  <2>1. ~MarkRetryRunning(t)
    BY <1>0, MarkRetryFrame, SteadyTasks
  <2>2. ~VictimsFailed(t) /\ ~CancelStatuses(t)
    BY SteadyTasks, Distinct DEF VictimsFailed, CancelStatuses, At
  <2>3. QED
    BY <2>1, <2>2
<1>5. CASE SkipCollected(t)
  BY <1>5 DEF SkipCollected, WithStatus, InStatus
<1>6. CASE ConfirmFailed(t)
  BY <1>0, <1>6 DEF ConfirmFailed, WithStatus, ClaimInv, FailingInv
<1>7. CASE LocalStep(t) /\ ~SkipCollected(t) /\ ~ConfirmFailed(t)
  BY <1>3, <1>4, <1>7
     DEF LocalStep, SubmittedAll, Peek, OnNodeFailed, TryConsumeBudget, SubmissionFault,
         CollectDownstream, RetryAfterBackoff, SaveGraph, SaveFault, SwapFinalized,
         PublishDagComplete, NotTerminal, ReleaseGate, Acknowledge, Redelivery,
         DeliveriesExhausted, graphVars
<1>8. QED
  BY <1>1, <1>2, <1>5, <1>6, <1>7

LEMMA RunningStays ==
  ASSUME Steady, SteadyInv, [Next]_vars, NEW n \in Node, dispatched[n] > 0, status[n] = "Running"
  PROVE  status'[n] = "Running" \/ Reported(n)
<1>0. TypeInv /\ FrameInv /\ HistoryInv /\ TimersInv /\ ClaimInv /\ StartedInv
  BY DEF SteadyInv, Inv, BranchInv
<1>1. CASE Environment \/ UNCHANGED vars
  BY <1>1 DEF Environment, ExecutionCompletes, ExecutionFails, WatcherExits, DeadlinePasses,
              ProgressGoesStale, vars, graphVars
<1>2. ASSUME NEW t \in Task,
             LocalStep(t) \/ HandlerStart(t) \/ PublishTaskSubmit(t) \/ SubmissionError(t)
      PROVE  status'[n] = "Running"
  BY <1>2, RunsOn
<1>3. ASSUME NEW t \in Task, CompleteNode(t) PROVE status'[n] = "Running" \/ Reported(n)
  <2> DEFINE e == task[t].event
  <2>1. /\ t = Listener /\ e \in Node
        /\ ~CompletionIsLate(e) => e \notin Dependents({e}) /\ \A k \in Dependents({e}) : ~Started(k)
    BY <1>0, <1>3, CompletingNode
  <2>2. At(Listener, "complete") /\ task[Listener].op = "completed"
    BY <1>0, <1>3, <2>1 DEF CompleteNode, At, FrameInv, FrameOK
  <2>3. CASE CompletionIsLate(e)
    BY <1>3, <2>3 DEF CompleteNode
  <2>4. CASE ~CompletionIsLate(e) /\ e = n
    <3>1. completions[n] > 0
      BY <2>1, <2>2, <2>4, ListenerHandles DEF At
    <3>2. QED
      BY <1>3, <2>1, <2>4, <3>1 DEF Reported
  <2>5. CASE ~CompletionIsLate(e) /\ e # n
    <3>1. PICK R \in SUBSET Node, P \in SUBSET Node, C \in SUBSET Node : Completes(t, e, R, P, C)
      BY <1>0, <1>3, <2>1, <2>5, CompletedGraph
    <3>2. /\ R \subseteq Dependents({e}) /\ P \cup C \subseteq InStatus(status, "Pending")
          /\ status'[n] = IF n \in C THEN "Running"
                          ELSE IF n = e THEN "Completed"
                          ELSE IF n \in R \cup P THEN "Skipped" ELSE status[n]
      BY <3>1 DEF Completes
    <3>3. n \notin P /\ n \notin R
      BY <2>1, <2>5, <3>2 DEF InStatus, Started
    <3>4. QED
      BY <2>5, <3>2, <3>3
  <2>6. QED
    BY <2>3, <2>4, <2>5
<1>4. ASSUME NEW t \in Task, ClaimFailure(t) PROVE status'[n] = "Running" \/ Reported(n)
  <2> DEFINE e == task[t].node
  <2>1. task[t].pc = "failing" /\ task[t].op = "failed"
    BY <1>0, <1>4 DEF ClaimFailure, At, FrameInv, FrameOK
  <2>2. t = Listener
    BY <1>0, <2>1, SteadyTasks, Distinct DEF FrameInv, Place
  <2>3. e \in Node /\ e = task[Listener].event /\ failures[e] > 0
    BY <2>1, <2>2, ListenerHandles DEF At
  <2>4. ~MayRetry(e)
    BY <1>0, <2>3 DEF MayRetry, TypeInv, TypeOK, Steady, Undisturbed, NoRetries
  <2>5. CASE e = n
    BY <1>4, <2>2, <2>3, <2>4, <2>5 DEF Reported, FailureIsClaimed
  <2>6. CASE e # n
    BY <1>4, <2>6 DEF ClaimFailure, WithStatus
  <2>7. QED
    BY <2>5, <2>6
<1>5. ASSUME NEW t \in Task, NEW v \in Node \X TaskStatus,
             FailNextVictim(t, v) \/ CancelNextVictim(t, v)
      PROVE  status'[n] = "Running"
  BY <1>5 DEF FailNextVictim, CancelNextVictim, graphVars
<1>6. QED
  BY <1>1, <1>2, <1>3, <1>4, <1>5 DEF Next, HandlerStep

\* How a task goes on: the listener with its message, whoever has claims with
\* these, until it sends the node or gives it up.
Goes(u, f, g) ==
    /\ u = Listener =>
         /\ f.pc = "idle" => g.pc \in {"idle", "complete", "failing"}
         /\ f.pc \in {"complete", "failing"} => g = f
         /\ f.pc # "idle" => g.pc = "idle" \/ g.event = f.event
    /\ \A n \in Claims(f) : n \in Claims(g) \/ dispatched'[n] > 0 \/ status'[n] # "Running"

LEMMA GoesStep ==
  ASSUME TypeInv, NEW t \in Task, NEW g, Step(t, g), Goes(t, task[t], g)
  PROVE  \A u \in Task : Goes(u, task[u], task'[u])
BY DEF Goes, Step, TypeInv, TypeOK

\* A task that submits nothing claims nothing but what it has still to submit.
LEMMA NoClaims ==
  ASSUME FrameInv, NEW u \in Task,
         task[u].pc \notin {"next", "scan", "mark"}, ~Submits(task[u])
  PROVE  Claims(task[u]) = {}
BY DEF FrameInv, FrameOK, Claims

\* A step of the listener or of the submitter that is not one of the listener's
\* looks at a message.
LEMMA GoesOn ==
  ASSUME Steady, SteadyInv, NEW t \in Task, NEW g, Step(t, g),
         task[t].pc \notin {"idle", "complete", "failing"},
         g.event = task[t].event \/ g.pc = "idle",
         \A n \in Claims(task[t]) : n \in Claims(g) \/ dispatched'[n] > 0 \/ status'[n] # "Running"
  PROVE  \A u \in Task : Goes(u, task[u], task'[u])
<1>1. Goes(t, task[t], g)
  BY DEF Goes
<1>2. QED
  BY <1>1, GoesStep DEF SteadyInv

LEMMA StartGoes ==
  ASSUME Steady, SteadyInv, NEW t \in Task, HandlerStart(t)
  PROVE  \A u \in Task : Goes(u, task[u], task'[u])
<1>1. /\ ~DagTimeout(t) /\ ~StallPoll(t) /\ ~Cancel(t)
      /\ \A n \in Node : ~IdleTimeout(t, n)
  <2>1. ~HasStallTimeout /\ ~Cancellable /\ Watcher = {} /\ ~deadlinePassed
    BY SteadyTasks DEF Steady, Undisturbed
  <2>2. task[StallTimer].pc = "off" /\ task[Canceller].pc = "off"
    BY <2>1, Distinct DEF SteadyInv, Inv, FrameInv, Place
  <2>3. QED
    BY <2>1, <2>2 DEF IdleTimeout, DagTimeout, StallPoll, Cancel, At
<1>2. ASSUME NEW u \in Task, task[u].pc \in {"idle", "off"} PROVE Claims(task[u]) = {}
  BY <1>2, NoClaims DEF Submits, Refused, SteadyInv, Inv
<1>3. CASE SubmitGraph(t)
  <2>1. t = Submitter /\ task[t].pc = "idle" /\ ~deadlinePassed
    BY <1>3, SteadyTasks DEF SubmitGraph, At
  <2>2. \A u \in Task : u # Submitter => task'[u] = task[u]
    BY <1>3, <2>1 DEF SubmitGraph, Steady, Undisturbed
  <2>3. QED
    BY <1>2, <2>1, <2>2, Distinct DEF Goes
<1>4. ASSUME NEW n \in Node, OnNodeCompleted(t, n)
      PROVE  \A u \in Task : Goes(u, task[u], task'[u])
  <2> DEFINE g == [task[t] EXCEPT !.pc = "complete", !.op = "completed", !.event = n,
                                  !.late = deadlinePassed]
  <2>1. Step(t, g) /\ task[t].pc = "idle" /\ task[t] \in Frame
    BY <1>4 DEF OnNodeCompleted, At, SteadyInv, TypeInv, TypeOK
  <2>2. g.pc = "complete"
    BY <2>1 DEF Frame
  <2> HIDE DEF g
  <2>3. Goes(t, task[t], g)
    BY <1>2, <2>1, <2>2 DEF Goes
  <2>4. QED
    BY <2>1, <2>3, GoesStep DEF SteadyInv
<1>5. CASE TimerExits(t)
  <2>1. Step(t, Resting("off")) /\ task[t].pc = "idle" /\ t # Listener
    BY <1>5, Distinct DEF TimerExits, At
  <2>2. Goes(t, task[t], Resting("off"))
    BY <1>2, <2>1 DEF Goes
  <2>3. QED
    BY <2>1, <2>2, GoesStep DEF SteadyInv
<1>6. QED
  BY <1>1, <1>3, <1>4, <1>5 DEF HandlerStart

\* The listener takes the failure of a node.
LEMMA MessageGoes ==
  ASSUME Steady, SteadyInv, NEW t \in Task, NEW n \in Node, OnNodeFailed(t, n)
  PROVE  \A u \in Task : Goes(u, task[u], task'[u])
<1>1. task[t].pc # "fail"
  BY SteadyTasks, Distinct DEF SteadyInv, Inv, FrameInv, Place, TypeInv, TasksOK, ListenerFrame
<1>2. t = Listener /\ task[t].pc = "idle" /\ ~deadlinePassed /\ task[t] \in Frame
  BY <1>1, SteadyTasks DEF OnNodeFailed, At, SteadyInv, TypeInv, TypeOK
<1> DEFINE h == [task[t] EXCEPT !.op = "failed", !.node = n, !.event = n]
           g == [h EXCEPT !.pc = "failing"]
<1>3. Step(t, g)
  BY <1>2 DEF OnNodeFailed
<1>4. g.pc = "failing"
  BY <1>2 DEF Frame
<1> HIDE DEF g, h
<1>5. Claims(task[t]) = {}
  BY <1>2, NoClaims DEF Submits, Refused, SteadyInv, Inv
<1>6. Goes(t, task[t], g)
  BY <1>2, <1>4, <1>5 DEF Goes
<1>7. QED
  BY <1>3, <1>6, GoesStep DEF SteadyInv

\* The submission loop.
LEMMA SubmissionGoes ==
  ASSUME Steady, SteadyInv, NEW t \in Task,
         \/ SubmittedAll(t) \/ (\E n \in Node : Peek(t, n))
         \/ TryConsumeBudget(t) \/ SubmissionFault(t)
  PROVE  \A u \in Task : Goes(u, task[u], task'[u])
<1> DEFINE f == task[t]
<1>1. f \in Frame /\ FrameOK(f)
  BY DEF SteadyInv, Inv, FrameInv, TypeInv, TypeOK
<1>2. f.pc \in {"next", "peek", "consume", "publish"}
  BY DEF SubmittedAll, Peek, TryConsumeBudget, SubmissionFault, At
<1>3. f.op # "failed" /\ f.pc # "peek"
  BY <1>1, <1>2, SteadyTasks DEF FrameOK, Retrying, Submits
<1>4. CASE SubmittedAll(t)
  <2>1. Step(t, [f EXCEPT !.pc = "save"]) /\ f.pc = "next" /\ f.todo = {}
    BY <1>4 DEF SubmittedAll, Goto, At
  <2>2. Claims(f) = {} /\ [f EXCEPT !.pc = "save"].event = f.event
    BY <1>1, <2>1 DEF Claims, Submits, Refused, Frame
  <2>3. QED
    BY <1>2, <2>1, <2>2, GoesOn
\* What is left to submit is submitted next, or refused.
<1>5. ASSUME NEW g, Step(t, g), g.event = f.event, g.op = f.op, Submits(g),
             Claims(f) = g.todo \cup {g.node}
      PROVE  \A u \in Task : Goes(u, task[u], task'[u])
  <2>1. Claims(g) = Claims(f)
    BY <1>3, <1>5 DEF Claims
  <2>2. QED
    BY <1>2, <1>5, <2>1, GoesOn
<1>6. ASSUME NEW n \in Node, Peek(t, n) PROVE \A u \in Task : Goes(u, task[u], task'[u])
  <2> DEFINE h == [f EXCEPT !.node = n, !.todo = @ \ {n}]
             p == [h EXCEPT !.err = "permanent"]
             q == [p EXCEPT !.pc = "gate", !.after = "suberr"]
             g == [h EXCEPT !.pc = "consume"]
  <2>1. f.pc = "next" /\ n \in f.todo
    BY <1>3, <1>6 DEF Peek, At
  <2>2. Step(t, q) \/ Step(t, g)
    BY <1>6, <2>1 DEF Peek, At, Finalize
  <2>3. /\ q.pc = "gate" /\ q.after = "suberr" /\ q.event = f.event /\ q.op = f.op
        /\ q.node = n /\ q.todo = f.todo \ {n}
        /\ g.pc = "consume" /\ g.event = f.event /\ g.op = f.op
        /\ g.node = n /\ g.todo = f.todo \ {n}
    BY <1>1 DEF Frame
  <2> HIDE DEF g, q
  <2>4. Claims(f) = f.todo
    BY <2>1 DEF Claims, Submits, Refused
  <2>5. QED
    BY <1>5, <2>1, <2>2, <2>3, <2>4 DEF Submits, Refused
<1>7. CASE TryConsumeBudget(t)
  <2> DEFINE p == [f EXCEPT !.err = "permanent"]
             q == [p EXCEPT !.pc = "gate", !.after = "suberr"]
             g == [f EXCEPT !.pc = "publish"]
  <2>1. f.pc = "consume" /\ (Step(t, q) \/ Step(t, g))
    BY <1>7 DEF TryConsumeBudget, At, Finalize, Goto
  <2>2. /\ q.pc = "gate" /\ q.after = "suberr" /\ q.event = f.event /\ q.op = f.op
        /\ q.node = f.node /\ q.todo = f.todo
        /\ g.pc = "publish" /\ g.event = f.event /\ g.op = f.op
        /\ g.node = f.node /\ g.todo = f.todo
    BY <1>1 DEF Frame
  <2> HIDE DEF g, q
  <2>3. Claims(f) = f.todo \cup {f.node}
    BY <1>3, <2>1 DEF Claims, Submits
  <2>4. QED
    BY <1>5, <2>1, <2>2, <2>3 DEF Submits, Refused
<1>8. CASE SubmissionFault(t)
  <2> DEFINE g == [f EXCEPT !.pc = "suberr", !.err = "transient"]
  <2>1. f.pc \in {"consume", "publish"} /\ Step(t, g)
    BY <1>8 DEF SubmissionFault, At
  <2>2. /\ g.pc = "suberr" /\ g.event = f.event /\ g.op = f.op
        /\ g.node = f.node /\ g.todo = f.todo
    BY <1>1 DEF Frame
  <2> HIDE DEF g
  <2>3. Claims(f) = f.todo \cup {f.node}
    BY <1>3, <2>1 DEF Claims, Submits
  <2>4. QED
    BY <1>5, <2>1, <2>2, <2>3 DEF Submits, Refused
<1>9. QED
  BY <1>4, <1>6, <1>7, <1>8

\* A node is sent or given up.
LEMMA SentGoes ==
  ASSUME Steady, SteadyInv, NEW t \in Task, PublishTaskSubmit(t) \/ SubmissionError(t)
  PROVE  \A u \in Task : Goes(u, task[u], task'[u])
<1> DEFINE f == task[t]
           n == f.node
<1>1. /\ f \in Frame /\ FrameOK(f) /\ f.pc \in {"publish", "suberr"} /\ Submits(f)
      /\ dispatched \in [Node -> Nat]
  BY DEF SteadyInv, Inv, FrameInv, TypeInv, TypeOK, PublishTaskSubmit, SubmissionError, At,
         Submits, Refused
<1>2. f.op # "failed" /\ n \in Node \ f.todo
  BY <1>1, SteadyTasks DEF FrameOK, Retrying
<1>3. Claims(f) = f.todo \cup {n}
  BY <1>1, <1>2 DEF Claims
<1>4. ASSUME NEW g, Step(t, g), g.event = f.event, g.todo = f.todo,
             dispatched'[n] > 0 \/ status'[n] # "Running"
      PROVE  \A u \in Task : Goes(u, task[u], task'[u])
  <2>1. \A m \in Claims(f) : m \in Claims(g) \/ m = n
    BY <1>3, <1>4 DEF Claims
  <2>2. QED
    BY <1>1, <1>4, <2>1, GoesOn
<1>5. CASE PublishTaskSubmit(t)
  <2> DEFINE g == [f EXCEPT !.pc = "next"]
  <2>1. Step(t, g) /\ dispatched'[n] = dispatched[n] + 1
    BY <1>1, <1>2, <1>5 DEF PublishTaskSubmit, Goto
  <2>2. g.event = f.event /\ g.todo = f.todo
    BY <1>1 DEF Frame
  <2> HIDE DEF g
  <2>3. dispatched'[n] > 0
    BY <1>1, <1>2, <2>1
  <2>4. QED
    BY <1>4, <2>1, <2>2, <2>3
<1>6. CASE SubmissionError(t)
  <2> DEFINE giveUp == f.op = "failed" \/ f.err = "permanent"
             g == [f EXCEPT !.pc = IF giveUp THEN "scan" ELSE "next", !.err = "none"]
  <2>1. Step(t, g) /\ status' = WithStatus(status, {n}, IF giveUp THEN "Failed" ELSE "Pending")
    BY <1>6 DEF SubmissionError
  <2>2. g.event = f.event /\ g.todo = f.todo
    BY <1>1 DEF Frame
  <2> HIDE DEF g
  <2>3. status'[n] # "Running"
    BY <1>2, <2>1 DEF WithStatus
  <2>4. QED
    BY <1>4, <2>1, <2>2, <2>3
<1>7. QED
  BY <1>5, <1>6

\* What depends on a failed node is skipped, by whoever gave the node up.
LEMMA SkipGoes ==
  ASSUME Steady, SteadyInv, NEW t \in Task,
         ConfirmFailed(t) \/ CollectDownstream(t) \/ SkipCollected(t)
  PROVE  \A u \in Task : Goes(u, task[u], task'[u])
<1> DEFINE f == task[t]
<1>1. /\ f \in Frame /\ f.pc \in {"confirm", "scan", "mark"} /\ TypeInv /\ FrameInv
  BY DEF SteadyInv, Inv, TypeInv, TypeOK, ConfirmFailed, CollectDownstream, SkipCollected, At
<1>2. \E g : Step(t, g) /\ g.event = f.event /\ Claims(g) = Claims(f)
  <2>1. CASE ConfirmFailed(t)
    <3> DEFINE g == [f EXCEPT !.pc = "scan"]
    <3>1. Step(t, g) /\ g.event = f.event
      BY <1>1, <2>1 DEF ConfirmFailed, Goto, Frame
    <3>2. Claims(g) = Claims(f)
      BY <1>1 DEF Claims, Submits, Refused, Frame
    <3>3. QED
      BY <3>1, <3>2
  <2>2. CASE CollectDownstream(t)
    <3> DEFINE g == [f EXCEPT !.pc = "mark", !.skip = PendingBelow(status, {f.node})]
    <3>1. Step(t, g) /\ g.event = f.event
      BY <1>1, <2>2 DEF CollectDownstream, Frame
    <3>2. Claims(g) = Claims(f)
      BY <1>1 DEF Claims, Submits, Refused, Frame
    <3>3. QED
      BY <3>1, <3>2
  <2>3. CASE SkipCollected(t)
    <3> DEFINE h == [f EXCEPT !.skip = {}]
               g == [h EXCEPT !.pc = IF f.op = "failed" THEN "save" ELSE "next"]
    <3>1. Step(t, g)
      BY <2>3 DEF SkipCollected
    <3>2. h \in Frame /\ h.event = f.event /\ h.todo = f.todo
      BY <1>1 DEF Frame
    <3> HIDE DEF h
    <3>3. g.event = f.event /\ g.todo = f.todo /\ g.pc \in {"save", "next"}
      BY <3>2 DEF Frame
    <3> HIDE DEF g
    <3>4. Claims(g) = Claims(f)
      BY <1>1, <3>3 DEF Claims, Submits, Refused
    <3>5. QED
      BY <3>1, <3>3, <3>4
  <2>4. QED
    BY <2>1, <2>2, <2>3
<1>3. QED
  BY <1>1, <1>2, GoesOn

\* The end of a handler.
LEMMA EndGoes ==
  ASSUME Steady, SteadyInv, NEW t \in Task,
         \/ SaveGraph(t) \/ SaveFault(t) \/ SwapFinalized(t) \/ NotTerminal(t) \/ ReleaseGate(t)
         \/ Acknowledge(t) \/ Redelivery(t) \/ DeliveriesExhausted(t) \/ PublishDagComplete(t)
  PROVE  \A u \in Task : Goes(u, task[u], task'[u])
<1> DEFINE f == task[t]
<1>1. /\ f \in Frame /\ FrameOK(f) /\ Place(t, f) /\ TypeInv /\ FrameInv
      /\ f.pc \in {"save", "gate", "check", "ungate", "ack", "nak"}
  BY DEF SteadyInv, Inv, FrameInv, TypeInv, TypeOK, SaveGraph, SaveFault, SwapFinalized,
         NotTerminal, ReleaseGate, Acknowledge, Redelivery, DeliveriesExhausted,
         PublishDagComplete, At
<1>2. t \in {Listener, Submitter}
  BY <1>1, SteadyTasks
<1>3. ~Submits(f) => Claims(f) = {}
  BY <1>1, NoClaims
<1>4. ASSUME NEW k \in Frame, k.event = f.event PROVE t = Listener => Returned(t, k).event = f.event
  BY <1>4, Distinct DEF Returned, Frame
\* A handler that goes on with its claims, or has none.
<1>5. ASSUME NEW g, Step(t, g), t = Listener => g.event = f.event \/ g.pc = "idle",
             Claims(f) \subseteq Claims(g)
      PROVE  \A u \in Task : Goes(u, task[u], task'[u])
  <2>1. Goes(t, f, g)
    BY <1>1, <1>5 DEF Goes
  <2>2. QED
    BY <1>1, <1>5, <2>1, GoesStep
<1>6. /\ t = Listener => Finalized(t).event = f.event
      /\ f.pc # "save" => Claims(f) \subseteq Claims(Finalized(t))
  <2>1. CASE f.after = "suberr"
    <3> DEFINE g == [f EXCEPT !.pc = "suberr"]
    <3>1. /\ Finalized(t) = g /\ g.event = f.event /\ g.todo = f.todo /\ g.node = f.node
          /\ g.op = f.op /\ g.pc = "suberr"
      BY <1>1, <2>1 DEF Finalized, Frame
    <3> HIDE DEF g
    <3>2. Claims(f) \subseteq Claims(g)
      BY <1>1, <3>1 DEF Claims, Submits, Refused
    <3>3. QED
      BY <3>1, <3>2
  <2>2. CASE f.after # "suberr"
    <3>1. Finalized(t) = Returned(t, f) /\ ~Submits(f)
      BY <1>1, <2>2 DEF Finalized, Submits, Refused
    <3>2. QED
      BY <1>1, <1>3, <1>4, <3>1
  <2>3. QED
    BY <2>1, <2>2
<1>7. CASE SaveGraph(t) \/ SaveFault(t)
  <2>1. f.pc = "save" /\ Claims(f) = {}
    BY <1>3, <1>7 DEF SaveGraph, SaveFault, At, Submits, Refused
  <2> DEFINE p == [f EXCEPT !.err = "transient"]
             q == [f EXCEPT !.pc = "gate", !.after = "return"]
  <2>2. p \in Frame /\ p.event = f.event /\ q.event = f.event
    BY <1>1 DEF Frame
  <2>3. Step(t, Returned(t, f)) \/ Step(t, Returned(t, p)) \/ Step(t, q)
    BY <1>7 DEF SaveGraph, SaveFault, Return, Finalize
  <2> HIDE DEF p, q
  <2>4. QED
    BY <1>1, <1>4, <1>5, <2>1, <2>2, <2>3
<1>8. CASE SwapFinalized(t) \/ NotTerminal(t) \/ ReleaseGate(t)
  <2> DEFINE p == [f EXCEPT !.pc = "check"]
             q == [f EXCEPT !.pc = "ungate"]
  <2>1. /\ f.pc \in {"gate", "check", "ungate"}
        /\ Step(t, Finalized(t)) \/ Step(t, p) \/ Step(t, q)
    BY <1>8 DEF SwapFinalized, NotTerminal, ReleaseGate, At, Goto
  <2>2. /\ p.event = f.event /\ p.todo = f.todo /\ p.node = f.node /\ p.op = f.op
        /\ p.pc = "check" /\ p.after = f.after
        /\ q.event = f.event /\ q.todo = f.todo /\ q.node = f.node /\ q.op = f.op
        /\ q.pc = "ungate" /\ q.after = f.after
    BY <1>1 DEF Frame
  <2> HIDE DEF p, q
  <2>3. Claims(f) \subseteq Claims(p) /\ Claims(f) \subseteq Claims(q)
    BY <1>1, <2>1, <2>2 DEF Claims, Submits, Refused
  <2>4. QED
    BY <1>5, <1>6, <2>1, <2>2, <2>3
<1>9. CASE Acknowledge(t) \/ Redelivery(t) \/ DeliveriesExhausted(t)
  <2>1. Step(t, Resting("idle")) /\ f.pc \in {"ack", "nak"}
    BY <1>9 DEF Acknowledge, Redelivery, DeliveriesExhausted, At
  <2>2. Claims(f) = {} /\ Resting("idle").pc = "idle"
    BY <1>3, <2>1 DEF Submits, Refused, Resting
  <2>3. QED
    BY <1>5, <2>1, <2>2
<1>10. CASE PublishDagComplete(t)
  <2>1. /\ f.pc = "check"
        /\ task' = [u \in Task |-> IF u \in {DagTimer, StallTimer} THEN Resting("off")
                                   ELSE IF u = t THEN Finalized(t) ELSE task[u]]
    BY <1>10 DEF PublishDagComplete, At
  <2>2. ASSUME NEW u \in Task PROVE Goes(u, task[u], task'[u])
    <3>1. CASE u = t
      <4>1. task'[u] = Finalized(t)
        BY <1>2, <2>1, <3>1, Distinct
      <4>2. QED
        BY <1>6, <2>1, <3>1, <4>1 DEF Goes
    <3>2. CASE u \in {DagTimer, StallTimer}
      <4>1. task[u].pc \in {"off", "idle"}
        BY <3>2, SteadyTasks, Distinct
      <4>2. Claims(task[u]) = {}
        BY <1>1, <4>1, NoClaims DEF Submits, Refused
      <4>3. QED
        BY <3>2, <4>2, Distinct DEF Goes
    <3>3. CASE u # t /\ u \notin {DagTimer, StallTimer}
      BY <2>1, <3>3 DEF Goes
    <3>4. QED
      BY <3>1, <3>2, <3>3
  <2>3. QED
    BY <2>2
<1>11. QED
  BY <1>7, <1>8, <1>9, <1>10

LEMMA AllGo ==
  ASSUME Steady, SteadyInv, [Next]_vars
  PROVE  \/ \A u \in Task : Goes(u, task[u], task'[u])
         \/ CompleteNode(Listener) \/ ClaimFailure(Listener)
<1>1. ASSUME UNCHANGED task PROVE \A u \in Task : Goes(u, task[u], task'[u])
  BY <1>1 DEF Goes
<1>2. CASE UNCHANGED vars \/ Environment
  BY <1>1, <1>2 DEF vars, Environment, ExecutionCompletes, ExecutionFails, WatcherExits,
     DeadlinePasses, ProgressGoesStale
<1>3. ASSUME NEW t \in Task, HandlerStart(t) PROVE \A u \in Task : Goes(u, task[u], task'[u])
  BY <1>3, StartGoes
<1>4. ASSUME NEW t \in Task, HandlerStep(t)
      PROVE  \/ \A u \in Task : Goes(u, task[u], task'[u])
             \/ CompleteNode(Listener) \/ ClaimFailure(Listener)
  <2>1. /\ ~RetryAfterBackoff(t) /\ ~MarkRetryRunning(t)
        /\ ~VictimsFailed(t) /\ ~CancelStatuses(t)
        /\ \A v \in Node \X TaskStatus : ~FailNextVictim(t, v) /\ ~CancelNextVictim(t, v)
    <3>1. task[t].pc \notin {"backoff", "running"}
      BY SteadyTasks DEF Retrying
    <3>2. task[t].pc = "victims" => t \notin {DagTimer, StallTimer, Canceller}
      BY SteadyTasks, Distinct
    <3>3. QED
      BY <3>1, <3>2 DEF RetryAfterBackoff, MarkRetryRunning, VictimsFailed, CancelStatuses,
         FailNextVictim, CancelNextVictim, At
  <2>2. CASE ClaimReady(t)
    <3>1. t = Submitter /\ task[t].pc = "claim"
      BY <2>2 DEF ClaimReady, At
    <3>2. Claims(task[t]) = {}
      BY <3>1, NoClaims DEF Submits, Refused, SteadyInv, Inv
    <3>3. PICK g : Step(t, g)
      BY <2>2 DEF ClaimReady
    <3>4. Goes(t, task[t], g)
      BY <3>1, <3>2, Distinct DEF Goes
    <3>5. QED
      BY <3>3, <3>4, GoesStep DEF SteadyInv
  <2>3. CASE CompleteNode(t)
    BY <2>3 DEF CompleteNode
  <2>4. CASE ClaimFailure(t)
    <3>1. task[t].pc = "failing" /\ task[t].op = "failed"
      BY <2>4 DEF ClaimFailure, At, SteadyInv, Inv, FrameInv, FrameOK
    <3>2. t = Listener
      BY <3>1, SteadyTasks, Distinct DEF SteadyInv, Inv, FrameInv, Place
    <3>3. QED
      BY <2>4, <3>2
  <2>5. QED
    BY <1>4, <2>1, <2>2, <2>3, <2>4, MessageGoes, SubmissionGoes, SentGoes, SkipGoes, EndGoes
       DEF HandlerStep, LocalStep
<1>5. QED
  BY <1>2, <1>3, <1>4 DEF Next

\* The bus: who adds to what the scheduler waits for, and who takes from it.
LEMMA EndsStep ==
  ASSUME Steady, SteadyInv, [Next]_vars, NEW n \in Node
  PROVE  \/ /\ Ends(n)' = Ends(n) /\ dispatched'[n] = dispatched[n]
            /\ outstanding'[n] <= outstanding[n]
         \/ \E t \in Task :
              /\ PublishTaskSubmit(t) /\ n = task[t].node
              /\ Ends(n)' = Ends(n) + 1 /\ dispatched'[n] = dispatched[n] + 1
         \/ /\ task[Listener].pc \in {"ack", "nak"} /\ task[Listener].event = n
            /\ Ends(n)' = Ends(n) - 1 /\ dispatched'[n] = dispatched[n]
            /\ outstanding'[n] = outstanding[n]
<1> DEFINE Same == /\ Ends(n)' = Ends(n) /\ dispatched'[n] = dispatched[n]
                   /\ outstanding'[n] <= outstanding[n]
<1> USE DEF SteadyInv, TypeInv, TypeOK
<1>1. ASSUME UNCHANGED busVars PROVE Same
  BY <1>1 DEF busVars, Ends
<1>2. ASSUME NEW t \in Task, PublishTaskSubmit(t), n # task[t].node PROVE Same
  BY <1>2 DEF PublishTaskSubmit, Ends
<1>3. ASSUME NEW t \in Task, PublishTaskSubmit(t), n = task[t].node
      PROVE  Ends(n)' = Ends(n) + 1 /\ dispatched'[n] = dispatched[n] + 1
  BY <1>3 DEF PublishTaskSubmit, Ends
<1>4. ASSUME NEW t \in Task, Acknowledge(t) \/ DeliveriesExhausted(t)
      PROVE  Same \/ /\ task[Listener].pc \in {"ack", "nak"} /\ task[Listener].event = n
                     /\ Ends(n)' = Ends(n) - 1 /\ dispatched'[n] = dispatched[n]
                     /\ outstanding'[n] = outstanding[n]
  <2> DEFINE e == task[Listener].event
  <2>1. /\ UNCHANGED <<dispatched, outstanding>> /\ Consume(e)
        /\ task[Listener].pc \in {"ack", "nak"}
    BY <1>4 DEF Acknowledge, DeliveriesExhausted, At
  <2>2. e \in Node
    BY <2>1, ListenerHandles DEF At
  <2>3. CASE n # e
    BY <2>1, <2>2, <2>3 DEF Consume, Ends
  <2>4. CASE n = e
    BY <2>1, <2>2, <2>4 DEF Consume, Ends
  <2>5. QED
    BY <2>3, <2>4
<1>5. ASSUME NEW m \in Node, ExecutionCompletes(m) \/ ExecutionFails(m) PROVE Same
  BY <1>5, SMTT(30) DEF ExecutionCompletes, ExecutionFails, Ends
<1>6. ASSUME NEW m \in Node, WatcherExits(m) \/ \E t \in Task : IdleTimeout(t, m) PROVE Same
  BY <1>1, <1>6 DEF WatcherExits, IdleTimeout
<1>7. ASSUME NEW t \in Task, CompleteNode(t) \/ ClaimFailure(t) \/ SubmissionError(t) PROVE Same
  BY <1>1, <1>7 DEF CompleteNode, ClaimFailure, SubmissionError
<1>8. ASSUME NEW t \in Task, NEW v \in Node \X TaskStatus
      PROVE  ~FailNextVictim(t, v) /\ ~CancelNextVictim(t, v)
  BY SteadyTasks, Distinct DEF FailNextVictim, CancelNextVictim, At
<1>9. ASSUME NEW t \in Task,
             \/ SubmitGraph(t) \/ (\E m \in Node : OnNodeCompleted(t, m))
             \/ DagTimeout(t) \/ StallPoll(t) \/ TimerExits(t) \/ Cancel(t)
      PROVE  Same
  BY <1>1, <1>9 DEF SubmitGraph, OnNodeCompleted, DagTimeout, StallPoll, TimerExits, Cancel
<1>10. ASSUME NEW t \in Task, LocalStep(t), ~Acknowledge(t), ~DeliveriesExhausted(t)
       PROVE  Same
  BY <1>1, <1>10
     DEF LocalStep, ClaimReady, SubmittedAll, Peek, OnNodeFailed, TryConsumeBudget,
         SubmissionFault, CollectDownstream, SkipCollected, ConfirmFailed, RetryAfterBackoff,
         MarkRetryRunning, SaveGraph, SaveFault, SwapFinalized, PublishDagComplete, NotTerminal,
         ReleaseGate, VictimsFailed, CancelStatuses, Redelivery
<1>11. ASSUME DeadlinePasses \/ ProgressGoesStale \/ UNCHANGED vars PROVE Same
  BY <1>1, <1>11 DEF DeadlinePasses, ProgressGoesStale, vars
<1> HIDE DEF Same
<1>12. QED
  BY <1>2, <1>3, <1>4, <1>5, <1>6, <1>7, <1>8, <1>9, <1>10, <1>11
     DEF Next, Environment, HandlerStart, HandlerStep, Same

\* A node that was sent runs or is terminal, and a terminal one stays so.
LEMMA SentNodes ==
  ASSUME Steady, SteadyInv, NEW n \in Node, dispatched[n] > 0
  PROVE  status[n] \in Terminal \cup {"Running"}
<1>1. status[n] # "Pending"
  BY SteadyTasks, Distinct DEF SteadyInv, Inv, ClaimInv, PendingInv, InStatus
<1>2. QED
  BY <1>1 DEF SteadyInv, TypeInv, TypeOK, TaskStatus, Terminal

LEMMA SettledStays ==
  ASSUME Steady, SteadyInv, [Next]_vars, NEW n \in Node, status[n] \in Terminal
  PROVE  status'[n] = status[n]
BY TerminalStep DEF Steady, Unrevived, Undisturbed, SteadyInv

\* A node that is submitted runs and was not sent before.
LEMMA PublishClaimed ==
  ASSUME Steady, SteadyInv, NEW t \in Task, PublishTaskSubmit(t)
  PROVE  LET n == task[t].node
         IN  n \in Node /\ n \in Claims(task[t]) /\ status[n] = "Running" /\ dispatched[n] = 0
<1>1. Submits(task[t]) /\ (task[t].op = "failed" => Retrying(task[t]))
  BY PublishFrame DEF SteadyInv, Inv
<1>2. task[t].node \in Claims(task[t])
  BY <1>1, SteadyTasks DEF Claims
<1>3. status[task[t].node] = "Running" /\ dispatched[task[t].node] = 0
  BY <1>2 DEF SteadyInv, RunningInv, Steady, Inv, ClaimInv, HeldInv
<1>4. task[t].node \in Node
  BY <1>2, HeldAreNodes DEF SteadyInv, Inv
<1>5. QED
  BY <1>2, <1>3, <1>4

LEMMA ExecutionNext ==
  ASSUME Steady, SteadyInv, ExecutionInv, HandledInv, [Next]_vars
  PROVE  ExecutionInv'
<1> SUFFICES ASSUME NEW n \in Node
             PROVE  /\ Ends(n)' <= dispatched'[n]
                    /\ outstanding'[n] > 0 => status'[n] = "Running"
                    /\ status'[n] = "Running" /\ dispatched'[n] > 0 => Ends(n)' > 0
  BY DEF ExecutionInv
<1>1. /\ outstanding[n] \in Nat /\ completions[n] \in Nat /\ failures[n] \in Nat
      /\ dispatched[n] \in {0, 1}
      /\ dispatched[n] = 0 => outstanding[n] = 0 /\ completions[n] = 0 /\ failures[n] = 0
      /\ Ends(n) <= dispatched[n]
      /\ outstanding[n] > 0 => status[n] = "Running"
      /\ status[n] = "Running" /\ dispatched[n] > 0 => Ends(n) > 0
      /\ Ends(n) = outstanding[n] + completions[n] + failures[n]
      /\ outstanding'[n] \in Nat
  <2>1. TypeInv'
    BY NextType DEF SteadyInv
  <2>2. QED
    BY <2>1, SteadyTasks DEF SteadyInv, TypeInv, TypeOK, Inv, HistoryInv, ExecutionInv, Ends
\* A node whose execution is waited for has no report yet.
<1>2. outstanding[n] > 0 => status'[n] = "Running"
  <2> SUFFICES ASSUME outstanding[n] > 0 PROVE status'[n] = "Running"
    OBVIOUS
  <2>1. dispatched[n] > 0 /\ status[n] = "Running" /\ completions[n] = 0 /\ failures[n] = 0
    BY <1>1
  <2>2. ~Reported(n)
    BY <2>1 DEF Reported
  <2>3. QED
    BY <2>1, <2>2, RunningStays
<1>3. status'[n] = "Running" /\ dispatched[n] > 0 => status[n] = "Running"
  BY SentNodes, SettledStays DEF Terminal
<1>4. CASE /\ Ends(n)' = Ends(n) /\ dispatched'[n] = dispatched[n]
           /\ outstanding'[n] <= outstanding[n]
  BY <1>1, <1>2, <1>3, <1>4
<1>5. ASSUME NEW t \in Task, PublishTaskSubmit(t), n = task[t].node,
             Ends(n)' = Ends(n) + 1, dispatched'[n] = dispatched[n] + 1
      PROVE  /\ Ends(n)' <= dispatched'[n]
             /\ outstanding'[n] > 0 => status'[n] = "Running"
             /\ status'[n] = "Running" /\ dispatched'[n] > 0 => Ends(n)' > 0
  <2>1. status[n] = "Running" /\ dispatched[n] = 0
    BY <1>5, PublishClaimed
  <2>2. UNCHANGED status
    BY <1>5 DEF PublishTaskSubmit, graphVars
  <2>3. QED
    BY <1>1, <1>5, <2>1, <2>2
<1>6. CASE /\ task[Listener].pc \in {"ack", "nak"} /\ task[Listener].event = n
           /\ Ends(n)' = Ends(n) - 1 /\ dispatched'[n] = dispatched[n]
           /\ outstanding'[n] = outstanding[n]
  <2>1. status[n] \in Terminal
    BY <1>6 DEF HandledInv
  <2>2. status'[n] \in Terminal
    BY <2>1, SettledStays
  <2>3. status'[n] # "Running" /\ status[n] # "Running"
    BY <2>1, <2>2 DEF Terminal
  <2>4. QED
    BY <1>1, <1>6, <2>3
<1>7. QED
  BY <1>4, <1>5, <1>6, EndsStep

LEMMA HandledNext ==
  ASSUME Steady, SteadyInv, HandledInv, [Next]_vars
  PROVE  HandledInv'
<1> DEFINE f == task[Listener]
           g == task'[Listener]
<1> SUFFICES ASSUME g.pc \notin {"idle", "complete", "failing"}
             PROVE  status'[g.event] \in Terminal
  BY DEF HandledInv
<1>0. /\ f \in Frame
      /\ f.pc # "idle" => f.event \in Node /\ dispatched[f.event] > 0
  BY ListenerHandles, Distinct DEF At, SteadyInv, TypeInv, TypeOK
<1>1. CASE Goes(Listener, f, g)
  <2>1. /\ f.pc \notin {"idle", "complete", "failing"} /\ g.event = f.event
    BY <1>1 DEF Goes
  <2>2. status[f.event] \in Terminal
    BY <2>1 DEF HandledInv
  <2>3. QED
    BY <1>0, <2>1, <2>2, SettledStays
<1>2. CASE CompleteNode(Listener)
  <2> DEFINE e == f.event
  <2>1. /\ At(Listener, "complete") /\ e \in Node /\ TypeInv
        /\ ~CompletionIsLate(e) => e \notin Dependents({e})
    BY <1>2, CompletingNode, Distinct DEF SteadyInv, Inv, BranchInv, CompleteNode
  <2>2. CASE CompletionIsLate(e)
    <3>1. Goto(Listener, "ack") /\ UNCHANGED status
      BY <1>2, <2>2 DEF CompleteNode
    <3>2. g.event = e
      BY <1>0, <2>1, <3>1, Distinct DEF Goto, Step, TypeInv, TypeOK, Frame
    <3>3. QED
      BY <2>2, <3>1, <3>2 DEF CompletionIsLate
  <2>3. CASE ~CompletionIsLate(e)
    <3>1. PICK R \in SUBSET Node, P \in SUBSET Node, C \in SUBSET Node :
             Completes(Listener, e, R, P, C)
      BY <1>2, <2>1, <2>3, CompletedGraph, Distinct
    <3>2. /\ Step(Listener, [f EXCEPT !.pc = "next", !.todo = C])
          /\ status'[e] = "Completed"
      BY <2>1, <3>1 DEF Completes
    <3>3. g.event = e
      BY <1>0, <2>1, <3>2, Distinct DEF Step, TypeInv, TypeOK, Frame
    <3>4. QED
      BY <3>2, <3>3 DEF Terminal
  <2>4. QED
    BY <2>2, <2>3
<1>3. CASE ClaimFailure(Listener)
  <2> DEFINE e == f.event
  <2>1. f.pc = "failing" /\ f.op = "failed"
    BY <1>3, Distinct DEF ClaimFailure, At, SteadyInv, Inv, FrameInv, FrameOK
  <2>2. f.node = e /\ e \in Node /\ dispatched[e] > 0
    BY <2>1, ListenerHandles DEF At
  <2>3. ~MayRetry(e)
    BY <2>2 DEF MayRetry, SteadyInv, TypeInv, TypeOK, Steady, Undisturbed, NoRetries
  <2>4. CASE FailureIsClaimed(e)
    <3>1. Goto(Listener, "confirm") /\ status' = WithStatus(status, {e}, "Failed")
      BY <1>3, <2>2, <2>3, <2>4 DEF ClaimFailure
    <3>2. g.event = e
      BY <1>0, <3>1, Distinct DEF Goto, Step, SteadyInv, TypeInv, TypeOK, Frame
    <3>3. QED
      BY <2>2, <3>1, <3>2 DEF WithStatus, Terminal
  <2>5. CASE ~FailureIsClaimed(e)
    <3>1. Step(Listener, Returned(Listener, f)) /\ UNCHANGED status
      BY <1>3, <2>2, <2>5 DEF ClaimFailure, Return
    <3>2. Returned(Listener, f).event = e
      BY <1>0 DEF Returned, Frame
    <3>3. g.event = e
      BY <3>1, <3>2, Distinct DEF Step, SteadyInv, TypeInv, TypeOK
    <3>4. status[e] \in Terminal
      BY <2>2, <2>5, SentNodes DEF FailureIsClaimed
    <3>5. QED
      BY <3>1, <3>3, <3>4
  <2>6. QED
    BY <2>4, <2>5
<1>4. QED
  BY <1>1, <1>2, <1>3, AllGo, Distinct

\* A node that begins to run is claimed.
LEMMA NewlyRunning ==
  ASSUME Steady, SteadyInv, [Next]_vars, NEW n \in Node,
         status[n] # "Running", status'[n] = "Running"
  PROVE  \E u \in Task : n \in Claims(task'[u])
<1>0. TypeInv /\ FrameInv /\ HistoryInv /\ TimersInv /\ ClaimInv /\ StartedInv
  BY DEF SteadyInv, Inv, BranchInv
<1>1. ASSUME NEW t \in Task, NEW C \in SUBSET Node, At(t, "claim") \/ At(t, "complete"),
             Step(t, [task[t] EXCEPT !.pc = "next", !.todo = C]), n \in C
      PROVE  \E u \in Task : n \in Claims(task'[u])
  <2>1. PICK g : Step(t, g) /\ Claims(g) = C
    BY <1>0, <1>1, ClaimFrame
  <2>2. task'[t] = g
    BY <1>0, <2>1 DEF Step, TypeInv, TypeOK
  <2>3. QED
    BY <1>1, <2>1, <2>2
<1>2. ASSUME NEW t \in Task, ClaimReady(t) PROVE \E u \in Task : n \in Claims(task'[u])
  <2>1. PICK unmet \in SUBSET (ReadyTasks(status) \cap Conditional) :
           /\ status' = WithStatus(SkipBelow(WithStatus(status, unmet, "Skipped"), unmet),
                                   ReadyTasks(status) \ unmet, "Running")
           /\ Step(t, [task[t] EXCEPT !.pc = "next", !.todo = ReadyTasks(status) \ unmet])
           /\ At(t, "claim")
    BY <1>2 DEF ClaimReady
  <2>2. ReadyTasks(status) \ unmet \in SUBSET Node
    BY DEF ReadyTasks, InStatus
  <2>3. n \in ReadyTasks(status) \ unmet
    BY <2>1 DEF WithStatus, SkipBelow
  <2>4. QED
    BY <1>1, <2>1, <2>2, <2>3
<1>3. ASSUME NEW t \in Task, CompleteNode(t) PROVE \E u \in Task : n \in Claims(task'[u])
  <2> DEFINE e == task[t].event
  <2>1. /\ t = Listener /\ e \in Node /\ At(t, "complete")
        /\ ~CompletionIsLate(e) => e \notin Dependents({e})
    BY <1>0, <1>3, CompletingNode
  <2>2. ~CompletionIsLate(e)
    BY <1>3 DEF CompleteNode
  <2>3. PICK R \in SUBSET Node, P \in SUBSET Node, C \in SUBSET Node : Completes(t, e, R, P, C)
    BY <1>0, <1>3, <2>1, <2>2, CompletedGraph
  <2>4. n \in C /\ Step(t, [task[t] EXCEPT !.pc = "next", !.todo = C])
    BY <2>3 DEF Completes
  <2>5. QED
    BY <1>1, <2>1, <2>4
<1>4. ASSUME NEW t \in Task, SubmissionError(t) \/ SkipCollected(t) \/ ClaimFailure(t)
                               \/ ConfirmFailed(t)
      PROVE  status'[n] # "Running"
  BY <1>4 DEF SubmissionError, SkipCollected, ClaimFailure, ConfirmFailed, WithStatus
<1>5. ASSUME NEW t \in Task, PublishTaskSubmit(t) \/ CollectDownstream(t) PROVE FALSE
  BY <1>5 DEF PublishTaskSubmit, CollectDownstream, graphVars
<1>6. ASSUME NEW t \in Task, MarkRetryRunning(t) PROVE FALSE
  BY <1>0, <1>6, MarkRetryFrame, SteadyTasks
<1>7. ASSUME NEW t \in Task, VictimsFailed(t) \/ CancelStatuses(t) PROVE FALSE
  BY <1>7, SteadyTasks, Distinct DEF VictimsFailed, CancelStatuses, At
<1>8. QED
  BY <1>0, <1>2, <1>3, <1>4, <1>5, <1>6, <1>7, CalmOrNot

LEMMA ClaimedNext ==
  ASSUME Steady, SteadyInv, SentOrClaimed, [Next]_vars
  PROVE  SentOrClaimed'
<1> SUFFICES ASSUME NEW n \in Node, status'[n] = "Running", dispatched'[n] = 0
             PROVE  \E u \in Task : n \in Claims(task'[u])
  BY DEF SentOrClaimed
<1>1. dispatched[n] = 0
  BY EndsStep, SteadyTasks
<1>2. CASE status[n] # "Running"
  BY <1>2, NewlyRunning
<1>3. CASE status[n] = "Running"
  <2>1. PICK u \in Task : n \in Claims(task[u])
    BY <1>1, <1>3 DEF SentOrClaimed
  <2>2. CASE Goes(u, task[u], task'[u])
    BY <2>1, <2>2 DEF Goes
  <2>3. CASE CompleteNode(Listener) \/ ClaimFailure(Listener)
    <3>1. task[Listener].pc \in {"complete", "failing"}
      BY <2>3 DEF CompleteNode, ClaimFailure, At
    <3>2. Claims(task[Listener]) = {}
      BY <3>1, NoClaims, Distinct DEF Submits, Refused, SteadyInv, Inv
    <3>3. task'[u] = task[u]
      BY <2>1, <2>3, <3>2 DEF CompleteNode, ClaimFailure, Goto, Return, Step, SteadyInv, TypeInv, TypeOK
    <3>4. QED
      BY <2>1, <3>3
  <2>4. QED
    BY <2>2, <2>3, AllGo
<1>4. QED
  BY <1>2, <1>3

\* What a DAG that nothing disturbs keeps.
CourseInv == SteadyInv /\ ExecutionInv /\ HandledInv /\ SentOrClaimed

LEMMA CourseHolds == ASSUME Steady PROVE Spec => []CourseInv
<1>1. Regular
  BY DEF Steady, Undisturbed, Regular
<1>2. Init => ClockInv /\ ExecutionInv /\ HandledInv /\ SentOrClaimed
  <2> SUFFICES ASSUME Init PROVE ClockInv /\ ExecutionInv /\ HandledInv /\ SentOrClaimed
    OBVIOUS
  <2>1. task[Listener] = Resting("idle")
    BY Distinct DEF Init
  <2>2. task[Listener].pc = "idle"
    BY <2>1, RestingIsCalm
  <2>3. QED
    BY <2>2 DEF Init, ClockInv, ExecutionInv, HandledInv, SentOrClaimed, Ends
<1>3. SteadyInv /\ ExecutionInv /\ HandledInv /\ SentOrClaimed /\ [Next]_vars
        => ExecutionInv' /\ HandledInv' /\ SentOrClaimed'
  BY ExecutionNext, HandledNext, ClaimedNext
<1>4. QED
  BY <1>1, <1>2, <1>3, InvHolds, RunningHolds, ClockNext, TypeInvariant, PTL
     DEF Spec, CourseInv, SteadyInv

-----------------------------------------------------------------------------
(***************************************************************************)
(* What the task scheduler and the agents have of such a DAG.  A task id   *)
(* in the dedup set is that of a node that runs, or is being released; so  *)
(* no submission is a duplicate.                                           *)
(***************************************************************************)
SeenInv == \A n \in seen : dispatched[n] > 0 /\ (n \in releasing \/ status[n] = "Running")

DeliveryInv == dropped = {} /\ \A m \in stream : m.task \in seen => TSP!C.item = {m}

\* What was launched and has no entry in processing yet.
Pushed == UNION {IF worker[w].pc = "push" THEN worker[w].item ELSE {} : w \in TSP!Worker}

\* An entry of processing is one of a node that runs; an agent at work has an
\* entry, or a worker about to enter it.
AgentInv ==
    /\ \A t \in Task : stopping[t] = 0
    /\ \A m \in processing : dispatched[m.task] > 0 /\ status[m.task] = "Running"
    /\ \A m \in Pushed : sessions[m.task] > 0
    /\ \A n \in Node : sessions[n] > 0 => \E m \in processing \cup Pushed : m.task = n

FlowInv == SeenInv /\ DeliveryInv /\ AgentInv

\* What is proved of both schedulers.
BothInv == TSP!PlaceInv /\ DagInv /\ RealInv /\ CourseInv

\* A node with an agent at work, or a submission on its way to one, runs, and
\* has no report.
LEMMA WaitedFor ==
  ASSUME Steady, BothInv, NEW n \in Node, sessions[n] > 0 \/ Of(Live, n) # {}
  PROVE  /\ dispatched[n] > 0 /\ status[n] = "Running"
         /\ completions[n] = 0 /\ failures[n] = 0
         /\ \A m, k \in Of(Live, n) : m = k
         /\ sessions[n] > 0 => sessions[n] = 1 /\ Of(Live, n) = {}
<1>1. /\ sessions[n] \in Nat /\ outstanding[n] = Backed(n)
      /\ completions[n] \in Nat /\ failures[n] \in Nat /\ outstanding[n] \in Nat
      /\ dispatched[n] \in {0, 1} /\ Ends(n) <= dispatched[n]
      /\ outstanding[n] > 0 => status[n] = "Running"
  BY SteadyTasks DEF BothInv, RealInv, BackedInv, DagInv, TypeInv, TypeOK, CourseInv, ExecutionInv
<1>2. /\ IsFiniteSet(Of(Live, n)) /\ Cardinality(Of(Live, n)) \in Nat
      /\ IsFiniteSet(Of(dropped, n)) /\ Cardinality(Of(dropped, n)) \in Nat
  BY Finite DEF BothInv, RealInv
<1>3. Of(Live, n) # {} => Cardinality(Of(Live, n)) > 0
  BY <1>2, FS_EmptySet
<1>4. /\ outstanding[n] = 1 /\ dispatched[n] = 1 /\ completions[n] = 0 /\ failures[n] = 0
      /\ Cardinality(Of(Live, n)) <= 1
      /\ sessions[n] > 0 => sessions[n] = 1 /\ Cardinality(Of(Live, n)) = 0
  <2>1. PICK l \in Nat, d \in Nat : l = Cardinality(Of(Live, n)) /\ d = Cardinality(Of(dropped, n))
    BY <1>2
  <2>2. /\ outstanding[n] = sessions[n] + l + d
        /\ outstanding[n] + completions[n] + failures[n] <= dispatched[n]
        /\ sessions[n] > 0 \/ l > 0
    BY <1>1, <1>3, <2>1 DEF Backed, Ends
  <2>3. QED
    BY <1>1, <2>1, <2>2
<1>5. ASSUME NEW m \in Of(Live, n), NEW k \in Of(Live, n) PROVE m = k
  <2>1. Cardinality(Of(Live, n)) = 1
    BY <1>2, <1>3, <1>4, <1>5
  <2>2. PICK x : Of(Live, n) = {x}
    BY <1>2, <2>1, FS_Singleton
  <2>3. QED
    BY <2>2
<1>6. sessions[n] > 0 => Of(Live, n) = {}
  BY <1>3, <1>4
<1>7. QED
  BY <1>1, <1>4, <1>5, <1>6

\* A step after which nothing was published, accepted or released: what was
\* pushed may have got its entry in processing.
LEMMA FlowKept ==
  ASSUME Steady, BothInv, FlowInv,
         UNCHANGED <<seen, releasing, dropped, sessions, stopping>>,
         stream' \subseteq stream, TSP!C'.item = TSP!C.item \/ stream' \cap TSP!C.item = {},
         processing \subseteq processing', processing' \subseteq processing \cup Pushed,
         Pushed' \subseteq Pushed, Pushed \subseteq processing' \cup Pushed',
         \A n \in Node : dispatched[n] > 0 /\ status[n] = "Running"
                           => dispatched'[n] > 0 /\ status'[n] = "Running",
         \A n \in Node : dispatched[n] > 0 => dispatched'[n] > 0
  PROVE  FlowInv'
<1>1. TSP!TypeInv
  BY DEF BothInv, TSP!PlaceInv
<1>2. SeenInv'
  BY <1>1 DEF FlowInv, SeenInv, TSP!TypeInv
<1>3. DeliveryInv'
  BY DEF FlowInv, DeliveryInv
<1>4. ASSUME NEW m \in processing' PROVE dispatched'[m.task] > 0 /\ status'[m.task] = "Running"
  <2>1. m \in TSP!Submission /\ m.task \in Node
    <3>1. Pushed \subseteq OnItsWay
      BY HeldNow, Frames DEF Pushed, BothInv, OnItsWay
    <3>2. m \in TSP!Submission
      BY <1>1, <3>1, HeldIs DEF BothInv, TSP!TypeInv
    <3>3. QED
      BY <3>2 DEF TSP!Submission
  <2>2. CASE m \in processing
    BY <2>1, <2>2 DEF FlowInv, AgentInv
  <2>3. CASE m \in Pushed
    BY <2>1, <2>3, WaitedFor DEF FlowInv, AgentInv
  <2>4. QED
    BY <2>2, <2>3
<1>5. AgentInv'
  BY <1>4 DEF FlowInv, AgentInv
<1>6. QED
  BY <1>2, <1>3, <1>5 DEF FlowInv

LEMMA PushedKept == ASSUME UNCHANGED worker PROVE Pushed' = Pushed /\ TSP!C' = TSP!C
BY DEF Pushed, TSP!C

\* The task of a node that ended is released: its agent is gone, and there is
\* no submission of it left.
LEMMA ReleaseFlow ==
  ASSUME Steady, BothInv, FlowInv, NEW e \in Node, MarkCompleted(e), UNCHANGED agentVars,
         completions[e] > 0 \/ failures[e] > 0,
         \A n \in Node : n # e /\ status[n] = "Running" /\ dispatched[n] > 0 => status'[n] = "Running",
         UNCHANGED dispatched
  PROVE  FlowInv'
<1>1. TSP!TypeInv
  BY DEF BothInv, TSP!PlaceInv
<1>2. completions[e] \in Nat /\ failures[e] \in Nat /\ sessions[e] \in Nat
  BY DEF BothInv, DagInv, TypeInv, TypeOK, RealInv, BackedInv
<1>3. ~(sessions[e] > 0)
  BY <1>2, WaitedFor
<1>4. /\ UNCHANGED <<stream, dropped, worker, sessions, stopping>>
      /\ seen' \subseteq seen /\ releasing \subseteq releasing'
      /\ processing' \subseteq processing /\ \A m \in processing' : m.task # e
      /\ \A m \in processing : m.task # e => m \in processing'
      /\ e \in seen' => e \in releasing'
  BY DEF MarkCompleted, TS!ReleaseProcessing, TS!ReleaseUnlaunched, TS!EntriesOf, taskVars, agentVars
<1>5. Pushed' = Pushed /\ TSP!C' = TSP!C
  BY <1>4, PushedKept
<1>6. SeenInv'
  BY <1>1, <1>4 DEF FlowInv, SeenInv, TSP!TypeInv
<1>7. DeliveryInv'
  BY <1>4, <1>5 DEF FlowInv, DeliveryInv
<1>8. \A m \in processing : m.task \in Node
  BY <1>1 DEF TSP!TypeInv, TSP!Submission
<1>9. AgentInv'
  BY <1>3, <1>4, <1>5, <1>8 DEF FlowInv, AgentInv
<1>10. QED
  BY <1>6, <1>7, <1>9 DEF FlowInv

\* A node is submitted: its id is not in the dedup set.
LEMMA DispatchFlow ==
  ASSUME Steady, BothInv, FlowInv, NEW t \in Task, Dispatch(t)
  PROVE  FlowInv'
<1>1. PICK n \in Node : n = task[t].node /\ dispatched[n] = 0
  BY PublishClaimed DEF Dispatch, BothInv, CourseInv
<1>2. /\ UNCHANGED <<seen, releasing, processing, dropped, worker, sessions, stopping, status>>
      /\ stream' = stream \cup {New(n)}
      /\ dispatched' = [dispatched EXCEPT ![n] = @ + 1]
  BY <1>1 DEF Dispatch, PublishTaskSubmit, TS!Submit, New, graphVars, agentVars
<1>3. Pushed' = Pushed /\ TSP!C' = TSP!C
  BY <1>2, PushedKept
<1>4. dispatched \in [Node -> Nat] /\ TSP!TypeInv
  BY DEF BothInv, DagInv, TypeInv, TypeOK, TSP!PlaceInv
<1>5. \A x \in Node : dispatched[x] > 0 => dispatched'[x] > 0
  BY <1>2, <1>4
<1>6. n \notin seen /\ New(n).task = n
  BY <1>1 DEF FlowInv, SeenInv, New
<1>7. SeenInv'
  BY <1>2, <1>4, <1>5 DEF FlowInv, SeenInv, TSP!TypeInv
<1>8. DeliveryInv'
  BY <1>2, <1>3, <1>6 DEF FlowInv, DeliveryInv
<1>9. \A m \in processing : m.task \in Node
  BY <1>4 DEF TSP!TypeInv, TSP!Submission
<1>10. AgentInv'
  BY <1>2, <1>3, <1>5, <1>9 DEF FlowInv, AgentInv
<1>11. QED
  BY <1>7, <1>8, <1>10 DEF FlowInv

LEMMA LaunchFlow ==
  ASSUME Steady, BothInv, FlowInv, NEW w \in TSP!Worker, Launch(w)
  PROVE  FlowInv'
<1>1. TSP!LaunchAgents(w) /\ TSP!FramesOK /\ worker \in [TSP!Worker -> TSP!Frame]
  BY SameMoves, Frames DEF Launch, BothInv, TSP!PlaceInv
<1>2. PICK m : worker[w].item = {m} /\ worker[w].pc = "launch"
  BY <1>1, Frames DEF TSP!LaunchAgents, TSP!At, TSP!FramesOK, BothInv
<1>3. /\ worker'[w].pc = "push" /\ worker'[w].item = {m}
      /\ \A v \in TSP!Worker \ {w} : worker'[v] = worker[v]
  BY <1>1, <1>2 DEF TSP!LaunchAgents, TSP!Goto, TSP!Frame
<1>4. TSP!C'.item = TSP!C.item
  BY <1>2, <1>3, Frames DEF TSP!C, TSP!Consumer, BothInv
<1>5. /\ UNCHANGED <<stream, seen, releasing, processing, dropped, stopping, status, dispatched>>
      /\ sessions' = [n \in Node |-> IF m.task = n THEN sessions[n] + 1 ELSE sessions[n]]
  BY <1>2 DEF Launch, TS!LaunchAgents, TS!InHand, vars, graphVars, busVars
<1>6. Pushed' = Pushed \cup {m}
  BY <1>2, <1>3 DEF Pushed
<1>7. sessions \in [Node -> Nat]
  BY DEF BothInv, RealInv, BackedInv
<1>8. ASSUME NEW k \in Pushed' PROVE k.task \in Node
  <2>1. k \in TSP!Held
    BY <1>2, <1>6 DEF Pushed, TSP!Held, TSP!InHand
  <2>2. QED
    BY <2>1, HeldIs DEF OnItsWay, TSP!Submission, BothInv
<1>9. AgentInv'
  BY <1>5, <1>6, <1>7, <1>8 DEF FlowInv, AgentInv
<1>10. SeenInv' /\ DeliveryInv'
  BY <1>4, <1>5 DEF FlowInv, SeenInv, DeliveryInv
<1>11. QED
  BY <1>9, <1>10 DEF FlowInv

\* A delivery: the submission is the only one of its task, whose id is not in
\* the dedup set.
LEMMA HandleFlow ==
  ASSUME Steady, BothInv, FlowInv, NEW m \in TSP!Submission, TSP!HandleNatsTask(m),
         UNCHANGED <<vars, agentVars>>
  PROVE  FlowInv'
<1>1. TSP!C.pc = "idle" /\ TSP!C.item = {} /\ m \in stream
  BY Frames DEF TSP!HandleNatsTask, TSP!At, BothInv, TSP!PlaceInv, TSP!FramesOK
<1>2. ASSUME NEW k \in stream PROVE k.task \in Node /\ k \in Of(Live, k.task)
  <2>1. k \in Live
    BY <1>1 DEF BothInv, RealInv, LaunchInv, Live, OnItsWay
  <2>2. QED
    BY <2>1, HeldIs DEF Of, BothInv, OnItsWay, TSP!Submission
<1>3. m.task \notin seen
  BY <1>1 DEF FlowInv, DeliveryInv
<1>4. /\ worker' = [worker EXCEPT ![TSP!Consumer] = [@ EXCEPT !.pc = "acquire", !.item = {m}]]
      /\ UNCHANGED <<dropped, stream, releasing, processing, status, dispatched, sessions, stopping>>
      /\ m.task \in seen' /\ seen' \subseteq seen \cup {m.task}
  BY <1>3 DEF TSP!HandleNatsTask, TSP!AlreadySeen, TSP!InsertSeen, vars, graphVars, busVars, agentVars
<1>5. /\ worker'["consumer"].pc = "acquire" /\ TSP!C'.item = {m}
      /\ worker'["background"] = worker["background"] /\ worker["consumer"].pc = "idle"
  BY <1>1, <1>4, Frames DEF TSP!C, TSP!Consumer, TSP!Frame, BothInv
<1>6. Pushed' = Pushed
  BY <1>5, Frames DEF Pushed, BothInv
<1>7. dispatched[m.task] > 0 /\ status[m.task] = "Running"
  BY <1>1, <1>2, WaitedFor
<1>8. SeenInv'
  BY <1>4, <1>7 DEF FlowInv, SeenInv
<1>9. \A k \in stream : k.task = m.task => k = m
  BY <1>1, <1>2, WaitedFor
<1>10. \A k \in stream : k.task \notin seen
  BY <1>1 DEF FlowInv, DeliveryInv
<1>11. DeliveryInv'
  BY <1>4, <1>5, <1>9, <1>10 DEF FlowInv, DeliveryInv
<1>12. AgentInv'
  BY <1>4, <1>6 DEF FlowInv, AgentInv
<1>13. QED
  BY <1>8, <1>11, <1>12 DEF FlowInv

\* A step of a worker moves no other worker, and what it had pushed gets its
\* entry.
LEMMA WorkerFlow ==
  ASSUME Steady, BothInv, TSP!PlaceInv', FlowInv, NEW w \in TSP!Worker, UNCHANGED <<vars, agentVars>>,
         \/ TSP!TryAcquirePermit(w) \/ TSP!CheckAgentAvailability(w) \/ TSP!PushProcessing(w)
         \/ TSP!QueueTask(w) \/ TSP!SaveToDisk(w) \/ TSP!Acknowledge(w)
         \/ TSP!DrainPending(w) \/ TSP!PutBack(w)
         \/ \E m \in TSP!Submission : TSP!NextPending(w, m)
  PROVE  FlowInv'
<1>1. worker \in [TSP!Worker -> TSP!Frame] /\ TSP!Worker = {"consumer", "background"}
  BY Frames DEF BothInv
<1>2. Quiet
  BY <1>1, ConsumerQuiet, BackQuiet DEF BothInv, RealInv, TSP!Consumer, TSP!Background
<1>3. \A v \in TSP!Worker \ {w} : worker'[v] = worker[v]
  BY <1>1 DEF TSP!TryAcquirePermit, TSP!CheckAgentAvailability, TSP!PushProcessing, TSP!QueueTask,
              TSP!SaveToDisk, TSP!Acknowledge, TSP!DrainPending, TSP!PutBack, TSP!NextPending,
              TSP!NotNow, TSP!Goto
<1>4. UNCHANGED <<seen, releasing>>
  BY DEF TSP!TryAcquirePermit, TSP!CheckAgentAvailability, TSP!PushProcessing, TSP!QueueTask,
         TSP!SaveToDisk, TSP!Acknowledge, TSP!DrainPending, TSP!PutBack, TSP!NextPending
<1>5. Pushed' \subseteq Pushed
  BY <1>2 DEF Quiet, Pushed
<1>6. CASE TSP!PushProcessing(w)
  <2>1. processing' = processing \cup worker[w].item
    BY <1>6 DEF TSP!PushProcessing, TSP!InHand
  <2>2. worker[w].item \subseteq Pushed
    BY <1>6 DEF TSP!PushProcessing, TSP!At, Pushed
  <2>3. Pushed \subseteq worker[w].item \cup Pushed'
    BY <1>3 DEF Pushed
  <2>4. QED
    BY <1>2, <1>4, <1>5, <2>1, <2>2, <2>3, FlowKept DEF Quiet, vars, graphVars, busVars, agentVars
<1>7. CASE ~TSP!PushProcessing(w)
  <2>1. processing' = processing
    BY <1>7 DEF TSP!TryAcquirePermit, TSP!CheckAgentAvailability, TSP!QueueTask,
         TSP!SaveToDisk, TSP!Acknowledge, TSP!DrainPending, TSP!PutBack, TSP!NextPending
  <2>2. worker[w].pc # "push"
    BY <1>7 DEF TSP!TryAcquirePermit, TSP!CheckAgentAvailability, TSP!QueueTask,
         TSP!SaveToDisk, TSP!Acknowledge, TSP!DrainPending, TSP!PutBack, TSP!NextPending, TSP!At
  <2>3. Pushed \subseteq Pushed'
    BY <1>3, <2>2 DEF Pushed
  <2>4. QED
    BY <1>2, <1>4, <1>5, <2>1, <2>3, FlowKept DEF Quiet, vars, graphVars, busVars, agentVars
<1>8. QED
  BY <1>6, <1>7

\* An agent ends: it was the only one at work on its node, and it has its entry.
LEMMA SessionFlow ==
  ASSUME Steady, BothInv, FlowInv, NEW n \in Node, SessionEnds(n)
  PROVE  FlowInv'
<1>1. sessions[n] = 1 /\ sessions \in [Node -> Nat]
  BY WaitedFor DEF SessionEnds, BothInv, RealInv, BackedInv
<1>2. /\ sessions' = [sessions EXCEPT ![n] = 0]
      /\ UNCHANGED <<taskVars, stopping, status, dispatched>>
  BY <1>1 DEF SessionEnds, ExecutionCompletes, ExecutionFails, graphVars
<1>3. Pushed' = Pushed /\ TSP!C' = TSP!C
  BY <1>2, PushedKept DEF taskVars
<1>4. \A m \in Pushed : m.task # n
  BY SameState DEF SessionEnds, TS!At, TS!InHand, Pushed
<1>5. AgentInv'
  BY <1>1, <1>2, <1>3, <1>4 DEF FlowInv, AgentInv, taskVars
<1>6. SeenInv' /\ DeliveryInv'
  BY <1>2, <1>3 DEF FlowInv, SeenInv, DeliveryInv, taskVars
<1>7. QED
  BY <1>5, <1>6 DEF FlowInv

\* A step that leaves the task scheduler and the agents alone.
LEMMA DagFlow ==
  ASSUME Steady, BothInv, FlowInv, [Next]_vars, UNCHANGED <<taskVars, agentVars>>,
         \A n \in Node : dispatched[n] > 0 /\ status[n] = "Running" => status'[n] = "Running"
  PROVE  FlowInv'
<1>1. \A n \in Node : dispatched[n] > 0 => dispatched'[n] > 0
  BY EndsStep DEF BothInv, CourseInv, DagInv, TypeInv, TypeOK
<1>2. Pushed' = Pushed /\ TSP!C' = TSP!C
  BY PushedKept DEF taskVars
<1>3. QED
  BY <1>1, <1>2, FlowKept DEF taskVars, agentVars

\* The listener takes a report: the task is released if the node ends with it.
LEMMA ReportFlow ==
  ASSUME Steady, BothInv, FlowInv, [Next]_vars, NEW t \in Task, NodeCompleted(t) \/ NodeFailed(t)
  PROVE  FlowInv'
<1>0. TypeInv /\ FrameInv /\ SteadyInv
  BY DEF BothInv, CourseInv, SteadyInv, Inv
<1>1. t = Listener
  <2>1. CASE NodeFailed(t)
    <3>1. task[t].pc = "failing" /\ task[t].op = "failed"
      BY <1>0, <2>1 DEF NodeFailed, ClaimFailure, At, FrameInv, FrameOK
    <3>2. QED
      BY <1>0, <3>1, SteadyTasks, Distinct DEF FrameInv, Place
  <2>2. QED
    BY <2>1 DEF NodeCompleted, CompleteNode
<1>2. PICK e : e = task[Listener].event
  OBVIOUS
<1>3. /\ e \in Node
      /\ completions[e] > 0 \/ failures[e] > 0
      /\ NodeFailed(t) => task[t].node = e
  BY <1>0, <1>1, <1>2, ListenerHandles, Distinct
     DEF NodeCompleted, NodeFailed, CompleteNode, ClaimFailure, At, FrameInv, FrameOK
<1>4. UNCHANGED <<agentVars, dispatched>>
  BY DEF NodeCompleted, NodeFailed, CompleteNode, ClaimFailure, busVars
<1>5. ASSUME NEW n \in Node, n # e, status[n] = "Running", dispatched[n] > 0
      PROVE  status'[n] = "Running"
  BY <1>0, <1>2, <1>5, RunningStays DEF Reported
<1>6. CASE MarkCompleted(e)
  BY <1>3, <1>4, <1>5, <1>6, ReleaseFlow
<1>7. CASE ~MarkCompleted(e)
  <2>1. UNCHANGED taskVars /\ (CompletionIsLate(e) \/ ~FailureIsClaimed(e) \/ MayRetry(e))
    BY <1>1, <1>2, <1>3, <1>7 DEF NodeCompleted, NodeFailed
  <2>2. ~MayRetry(e)
    BY <1>0, <1>3 DEF MayRetry, TypeInv, TypeOK, Steady, Undisturbed, NoRetries
  <2>3. status[e] # "Running"
    BY <2>1, <2>2 DEF CompletionIsLate, FailureIsClaimed, Terminal
  <2>4. QED
    BY <1>4, <1>5, <2>1, <2>3, DagFlow
<1>8. QED
  BY <1>6, <1>7

LEMMA FlowNext ==
  ASSUME Steady, BothInv, TSP!PlaceInv', FlowInv, [PipeNext]_pipeVars
  PROVE  FlowInv'
<1>0. [Next]_vars /\ SteadyInv
  BY PipeDagStep DEF BothInv, CourseInv
<1>1. CASE UNCHANGED pipeVars
  BY <1>0, <1>1, DagFlow DEF pipeVars, vars, graphVars
<1>2. ASSUME NEW t \in Task, DagStep(t) PROVE FlowInv'
  <2>1. CASE Dispatch(t)
    BY <2>1, DispatchFlow
  <2>2. CASE SubmissionFailed(t)
    <3>1. task[t].op # "failed"
      BY <1>0, <2>2, SubmissionErrorFrame, SteadyTasks DEF SubmissionFailed, SteadyInv, Inv
    <3>2. QED
      BY <1>0, <2>2, <3>1, RunsOn, DagFlow DEF SubmissionFailed
  <2>3. CASE NodeCompleted(t) \/ NodeFailed(t)
    BY <1>0, <2>3, ReportFlow
  <2>4. ASSUME NEW v \in Node \X TaskStatus, VictimCancelled(t, v) PROVE FALSE
    BY <1>0, <2>4, SteadyTasks, Distinct
       DEF VictimCancelled, FailNextVictim, CancelNextVictim, At
  <2>5. CASE /\ \/ LocalStep(t) \/ SubmitGraph(t) \/ TimerExits(t)
                \/ DagTimeout(t) \/ StallPoll(t) \/ Cancel(t)
                \/ \E n \in Node : OnNodeCompleted(t, n) \/ IdleTimeout(t, n)
             /\ UNCHANGED <<taskVars, agentVars>>
    BY <1>0, <2>5, RunsOn, DagFlow DEF HandlerStart
  <2>6. QED
    BY <1>2, <2>1, <2>2, <2>3, <2>4, <2>5 DEF DagStep
<1>3. ASSUME NEW t \in Task, AgentStopped(t) PROVE FALSE
  BY <1>3 DEF AgentStopped, FlowInv, AgentInv
<1>4. ASSUME NEW w \in TS!Worker, Launch(w) PROVE FlowInv'
  BY <1>4, LaunchFlow, SameState
<1>5. ASSUME NEW w \in TS!Worker, Schedule(w) PROVE FlowInv'
  <2>1. UNCHANGED <<vars, agentVars>> /\ w \in TSP!Worker
    BY <1>5, SameState DEF Schedule
  <2>2. ASSUME NEW n \in Node, TS!FreeSeen(n) PROVE FlowInv'
    <3>1. /\ UNCHANGED <<stream, processing, dropped, worker>>
          /\ seen' = seen \ {n} /\ releasing' = releasing \ {n}
      BY <2>2 DEF TS!FreeSeen
    <3>2. Pushed' = Pushed /\ TSP!C' = TSP!C
      BY <3>1, PushedKept
    <3>3. QED
      BY <2>1, <3>1, <3>2
         DEF FlowInv, SeenInv, DeliveryInv, AgentInv, vars, graphVars, busVars, agentVars
  <2>3. ASSUME NEW m \in TS!Submission, TS!HandleNatsTask(m) PROVE FlowInv'
    BY <2>1, <2>3, HandleFlow, SameMoves, SameState
  <2>4. CASE \/ TS!TryAcquirePermit(w) \/ TS!CheckAgentAvailability(w) \/ TS!PushProcessing(w)
             \/ TS!QueueTask(w) \/ TS!SaveToDisk(w) \/ TS!Acknowledge(w)
             \/ TS!DrainPending(w) \/ TS!PutBack(w)
             \/ \E m \in TS!Submission : TS!NextPending(w, m)
    BY <2>1, <2>4, WorkerFlow, SameMoves, SameState
  <2>5. QED
    BY <1>5, <2>2, <2>3, <2>4 DEF Schedule
<1>6. ASSUME NEW n \in Node, SessionEnds(n) PROVE FlowInv'
  BY <1>6, SessionFlow
<1>7. CASE /\ DeadlinePasses \/ ProgressGoesStale \/ \E n \in Node : WatcherExits(n)
           /\ UNCHANGED <<taskVars, agentVars>>
  BY <1>0, <1>7, DagFlow DEF DeadlinePasses, ProgressGoesStale, WatcherExits, graphVars
<1>8. QED
  BY <1>1, <1>2, <1>3, <1>4, <1>5, <1>6, <1>7 DEF PipeNext

LEMMA FlowInit == PipeInit => FlowInv
<1> SUFFICES ASSUME PipeInit PROVE FlowInv
  OBVIOUS
<1>1. /\ stream = {} /\ dropped = {} /\ seen = {} /\ processing = {}
      /\ worker = [w \in TS!Worker |-> TS!Idle]
      /\ sessions = [n \in Node |-> 0] /\ stopping = [t \in Task |-> 0]
  BY DEF PipeInit, TS!Init
<1>2. \A w \in TSP!Worker : worker[w].pc = "idle"
  BY <1>1, SameState DEF TS!Idle
<1>3. Pushed = {}
  BY <1>2 DEF Pushed
<1>4. QED
  BY <1>1, <1>3 DEF FlowInv, SeenInv, DeliveryInv, AgentInv

LEMMA BothHolds == ASSUME Steady PROVE PipeSpec => [](BothInv /\ FlowInv)
<1>1. PipeSpec => []CourseInv
  BY PipelineRunsDags, CourseHolds, PTL
<1>2. PipeSpec => []BothInv
  BY <1>1, RealHolds, TaskInvHolds, DagInvHolds, PTL DEF BothInv
<1>3. BothInv /\ BothInv' /\ FlowInv /\ [PipeNext]_pipeVars => FlowInv'
  BY FlowNext DEF BothInv
<1>4. QED
  BY <1>2, <1>3, FlowInit, PTL DEF PipeSpec

\* With nothing but completions and failures to move it, no node of a DAG is
\* left Running when everything has come to rest: its claim was sent, and its
\* execution was not lost on the way.
THEOREM NothingLeftRunning == ASSUME Steady PROVE PipeSpec => []RunningIsBacked
<1>1. BothInv /\ FlowInv => RunningIsBacked
  <2> SUFFICES ASSUME BothInv, FlowInv, PipelineAtRest, NEW n \in Node, status[n] = "Running"
               PROVE  FALSE
    BY DEF RunningIsBacked, InStatus
  <2>1. /\ SteadyInv /\ ExecutionInv /\ SentOrClaimed
        /\ sessions[n] = 0 /\ outstanding[n] = Backed(n) /\ dispatched[n] \in {0, 1}
    BY SteadyTasks DEF PipelineAtRest, BothInv, CourseInv, RealInv, BackedInv
  <2>2. dispatched[n] > 0
    <3>1. \A u \in Task : Claims(task[u]) = {}
      BY <2>1, NoClaims DEF PipelineAtRest, HandlersAtRest, SteadyInv, Inv, Submits, Refused
    <3>2. QED
      BY <2>1, <3>1 DEF SentOrClaimed
  <2>3. Of(Live, n) = {} /\ Of(dropped, n) = {}
    BY SameState DEF PipelineAtRest, FlowInv, DeliveryInv, Of, Live, OnItsWay
  <2>4. Backed(n) = 0
    BY <2>1, <2>3, FS_EmptySet DEF Backed
  <2>5. Ends(n) = 0
    BY <2>1, <2>4 DEF Ends, PipelineAtRest
  <2>6. QED
    BY <2>1, <2>2, <2>5 DEF ExecutionInv
<1>2. QED
  BY <1>1, BothHolds, PTL

\* And every permit is back, no entry is left in processing and no task id in the
\* dedup set.
THEOREM NothingLeftHeld == ASSUME Steady PROVE PipeSpec => []EverythingReleased
<1>1. BothInv /\ FlowInv /\ RunningIsBacked /\ TSP!Counted => EverythingReleased
  <2> SUFFICES ASSUME BothInv, FlowInv, RunningIsBacked, TSP!Counted, PipelineAtRest
               PROVE  permits = Limit /\ processing = {} /\ seen = {}
    BY DEF EverythingReleased
  <2>1. \A n \in Node : status[n] # "Running"
    BY DEF RunningIsBacked, InStatus
  <2>2. processing \subseteq TSP!Submission /\ seen \subseteq Node /\ permits \in Nat
    BY DEF BothInv, TSP!PlaceInv, TSP!TypeInv
  <2>3. processing = {}
    BY <2>1, <2>2 DEF FlowInv, AgentInv, TSP!Submission
  <2>4. seen = {}
    BY <2>1, <2>2 DEF FlowInv, SeenInv, PipelineAtRest
  <2>5. TSP!PermitHolders = {}
    <3>1. \A w \in TSP!Worker : worker[w].item = {}
      BY SameState DEF PipelineAtRest, TSP!Held, TSP!InHand
    <3>2. \A w \in TSP!Worker : worker[w].pc \notin {"check", "launch", "push"}
      BY <3>1, Frames DEF BothInv, TSP!PlaceInv, TSP!FramesOK
    <3>3. QED
      BY <3>2 DEF TSP!PermitHolders
  <2>6. permits = Limit
    BY <2>2, <2>3, <2>5, SameCount, FS_EmptySet, PipelineAssumption
       DEF TSP!Counted, TSP!PermitsConserved
  <2>7. QED
    BY <2>3, <2>4, <2>6
<1>2. QED
  BY <1>1, BothHolds, NothingLeftRunning, TaskInvHolds, PTL

\* Each agent at work has a permit of its own: that of its entry in processing,
\* or of the worker that launched it.
THEOREM LimitKept == ASSUME Steady PROVE PipeSpec => []AgentsWithinLimit
<1>1. BothInv /\ FlowInv /\ TSP!Counted => AgentsWithinLimit
  <2> SUFFICES ASSUME BothInv, FlowInv, TSP!Counted PROVE AgentsWithinLimit
    OBVIOUS
  <2> DEFINE P == {w \in TSP!Worker : worker[w].pc = "push"}
             E == processing \cup Pushed
  <2>1. /\ IsFiniteSet(processing) /\ IsFiniteSet(TSP!PermitHolders)
        /\ permits + Cardinality(TSP!PermitHolders) + Cardinality(processing) = Limit
        /\ permits \in Nat
    BY SameCount DEF TSP!Counted, TSP!PermitsConserved, BothInv, TSP!PlaceInv, TSP!TypeInv
  <2>2. IsFiniteSet(P) /\ Cardinality(P) <= Cardinality(TSP!PermitHolders)
    BY <2>1, FS_Subset DEF TSP!PermitHolders
  <2>3. IsFiniteSet(Pushed) /\ Cardinality(Pushed) <= Cardinality(P)
    <3> DEFINE hand == [w \in P |-> CHOOSE m : m \in worker[w].item]
    <3>1. \A w \in P : \E m : worker[w].item = {m}
      BY Frames DEF BothInv, TSP!PlaceInv, TSP!FramesOK
    <3>2. Pushed = UNION {worker[w].item : w \in P}
      BY DEF Pushed
    <3>3. \A w \in P : worker[w].item = {hand[w]}
      BY <3>1
    <3>4. hand \in [P -> {hand[w] : w \in P}]
      OBVIOUS
    <3> HIDE DEF hand, P
    <3>5. Pushed = {hand[w] : w \in P}
      BY <3>2, <3>3
    <3>6. hand \in Surjection(P, Pushed)
      BY <3>4, <3>5 DEF Surjection
    <3>7. QED
      BY <2>2, <3>6, FS_Surjection
  <2>4. /\ IsFiniteSet(E)
        /\ Cardinality(E) <= Cardinality(processing) + Cardinality(Pushed)
    <3>1. IsFiniteSet(processing \cap Pushed)
      BY <2>1, FS_Subset
    <3>2. Cardinality(processing \cap Pushed) \in Nat
      BY <3>1, FS_CardinalityType
    <3>3. Cardinality(processing) \in Nat /\ Cardinality(Pushed) \in Nat
      BY <2>1, <2>3, FS_CardinalityType
    <3>4. /\ IsFiniteSet(processing \cup Pushed)
          /\ Cardinality(processing \cup Pushed) = Cardinality(processing) + Cardinality(Pushed)
                                                    - Cardinality(processing \cap Pushed)
      BY <2>1, <2>3, FS_Union
    <3>5. QED
      BY <3>2, <3>3, <3>4
  <2>5. IsFiniteSet(AtWork) /\ Cardinality(AtWork) <= Cardinality(E)
    <3> DEFINE entry == [s \in AtWork |-> CHOOSE m \in E : m.task = s[1]]
    <3>1. ASSUME NEW s \in AtWork
          PROVE  s[1] \in Node /\ s = <<s[1], 1>> /\ \E m \in E : m.task = s[1]
      <4>1. s[1] \in Node /\ s[2] \in 1..MaxAgentCalls /\ s = <<s[1], s[2]>> /\ s[2] <= sessions[s[1]]
        BY DEF AtWork
      <4>2. sessions[s[1]] \in Nat
        BY <4>1 DEF BothInv, RealInv, BackedInv
      <4>3. sessions[s[1]] > 0
        BY <4>1, <4>2
      <4>4. sessions[s[1]] = 1
        BY <4>1, <4>3, WaitedFor
      <4>5. QED
        BY <4>1, <4>3, <4>4 DEF FlowInv, AgentInv
    <3>2. \A s \in AtWork : entry[s] \in E /\ entry[s].task = s[1]
      BY <3>1
    <3>3. entry \in Injection(AtWork, E)
      BY <3>1, <3>2 DEF Injection, IsInjective
    <3>4. QED
      BY <2>4, <3>3, FS_Injection
  <2>6. Stopped = {}
    BY DEF Stopped, FlowInv, AgentInv
  <2>7. /\ Cardinality(AtWork) \in Nat /\ Cardinality(E) \in Nat /\ Cardinality(Stopped) = 0
        /\ Cardinality(Pushed) \in Nat /\ Cardinality(P) \in Nat
        /\ Cardinality(processing) \in Nat /\ Cardinality(TSP!PermitHolders) \in Nat
    BY <2>1, <2>2, <2>3, <2>4, <2>5, <2>6, FS_CardinalityType, FS_EmptySet
  <2>8. QED
    BY <2>1, <2>2, <2>3, <2>4, <2>5, <2>7, PipelineAssumption DEF AgentsWithinLimit
<1>2. QED
  BY <1>1, BothHolds, TaskInvHolds, PTL
=============================================================================
