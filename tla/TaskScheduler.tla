---------------------------- MODULE TaskScheduler ----------------------------
(***************************************************************************)
(* The global task scheduler of crates/ergatai-collab/src/task_scheduler.rs*)
(*                                                                         *)
(* Task submissions arrive through a JetStream work queue, delivered at    *)
(* least once.  Two tokio tasks try to schedule them, the NATS consumer    *)
(* and the background loop that goes through pending_tasks; both hold no   *)
(* lock between the permit, the look at the agent, the launch and the      *)
(* entry in processing.  The DAG scheduler releases a task through         *)
(* mark_completed or cancel_running_task.                                  *)
(*                                                                         *)
(* A submission is a task id with the position of its message in the       *)
(* stream; plans, files and agent sessions are abstracted.                 *)
(***************************************************************************)
EXTENDS Naturals, FiniteSets

CONSTANTS
    TaskId,          \* task ids, which are node ids
    AgentOf,         \* [TaskId -> agents], target_agent
    Priority,        \* [TaskId -> Nat]
    Limit,           \* concurrency_limit
    SeenCap,         \* SEEN_IDS_CAP
    AnyTimeRelease,  \* a task may be released while its submission waits
    MaxSubmits,      \* bound: messages published
    MaxRedeliveries, \* bound: handled messages delivered again
    MaxFaults,       \* bound: failed launches
    MaxCrashes       \* bound: restarts of the process

ASSUME TaskSchedulerAssumption ==
    /\ Priority \in [TaskId -> Nat]
    /\ Limit \in Nat \ {0} /\ SeenCap \in Nat \ {0}
    /\ AnyTimeRelease \in BOOLEAN
    /\ {MaxSubmits, MaxRedeliveries, MaxFaults, MaxCrashes} \subseteq Nat

\* copy counts the deliveries of a message whose handler had already run.
Submission == [task : TaskId, seq : 1..MaxSubmits, copy : 0..(MaxRedeliveries + MaxFaults)]

Consumer == "consumer"
Background == "background"
Worker == {Consumer, Background}

VARIABLES
    stream,      \* messages of the work queue that are not acknowledged
    submits,     \* messages published so far
    seen,        \* seen_task_ids
    releasing,   \* tasks whose entries are gone and whose id is still in seen_task_ids
    pending,     \* pending_tasks
    processing,  \* the submissions with an entry in processing, one permit each
    permits,     \* available permits of the semaphore
    queueFile,   \* the submissions in the queue file
    worker,      \* the local state of the consumer and of the background loop
    launches,    \* how often each submission was launched
    dropped,     \* submissions acknowledged as duplicates
    redeliveries, faults, crashes

boundVars == <<redeliveries, faults, crashes>>
vars == <<stream, submits, seen, releasing, pending, processing, permits, queueFile, worker,
          launches, dropped, boundVars>>

\* item: the submission in hand; rest and remaining: the local vectors of
\* process_pending.
Frame == [pc : {"idle", "acquire", "check", "launch", "push", "queue", "next", "save", "ack"},
          item : SUBSET Submission, rest : SUBSET Submission, remaining : SUBSET Submission]

Idle == [pc |-> "idle", item |-> {}, rest |-> {}, remaining |-> {}]

At(w, pc) == worker[w].pc = pc
Goto(w, pc) == worker' = [worker EXCEPT ![w].pc = pc]

\* The submission of w in hand.
InHand(w) == worker[w].item
Held == UNION {InHand(w) \cup worker[w].rest \cup worker[w].remaining : w \in Worker}

\* The message that w handled stays in the stream, to be delivered again.
Redelivered(w) ==
    stream' = (stream \ InHand(w)) \cup {[m EXCEPT !.copy = @ + 1] : m \in InHand(w)}

\* The entries of processing that belong to task t.
EntriesOf(t) == {e \in processing : e.task = t}

Init ==
    /\ stream = {} /\ submits = 0
    /\ seen = {} /\ releasing = {}
    /\ pending = {} /\ processing = {}
    /\ permits = Limit
    /\ queueFile = {}
    /\ worker = [w \in Worker |-> Idle]
    /\ launches = [s \in 1..MaxSubmits |-> 0]
    /\ dropped = {}
    /\ redeliveries = 0 /\ faults = 0 /\ crashes = 0

-----------------------------------------------------------------------------
\* The DAG scheduler publishes a task_submit message.
Submit(t) ==
    /\ submits < MaxSubmits
    /\ submits' = submits + 1
    /\ stream' = stream \cup {[task |-> t, seq |-> submits + 1, copy |-> 0]}
    /\ UNCHANGED <<seen, releasing, pending, processing, permits, queueFile, worker, launches, dropped, boundVars>>

\* try_insert_seen: a set at its cap is cleared before the insertion.
InsertSeen(t) == (IF Cardinality(seen) >= SeenCap THEN {} ELSE seen) \cup {t}

\* Mutated form of AlreadySeen: only what runs counts.
AlreadyProcessing(t) == EntriesOf(t) # {}

AlreadySeen(t) == Cardinality(seen) < SeenCap /\ t \in seen

\* handle_nats_task, up to the dedup guard: a duplicate is acknowledged.
HandleNatsTask(m) ==
    /\ At(Consumer, "idle")
    /\ m \in stream
    /\ seen' = InsertSeen(m.task)
    /\ IF AlreadySeen(m.task)
       THEN dropped' = dropped \cup {m} /\ stream' = stream \ {m} /\ UNCHANGED worker
       ELSE /\ worker' = [worker EXCEPT ![Consumer] = [@ EXCEPT !.pc = "acquire", !.item = {m}]]
            /\ UNCHANGED <<dropped, stream>>
    /\ UNCHANGED <<submits, releasing, pending, processing, permits, queueFile, launches, boundVars>>

-----------------------------------------------------------------------------
(* process_pending, called by the background loop. *)

\* The queue is drained under the lock.
DrainPending(w) ==
    /\ w = Background /\ At(w, "idle")
    /\ pending # {}
    /\ worker' = [worker EXCEPT ![w] = [@ EXCEPT !.pc = "next", !.rest = pending]]
    /\ pending' = {}
    /\ UNCHANGED <<stream, submits, seen, releasing, processing, permits, queueFile, launches, dropped, boundVars>>

\* Higher priority first, then older first.
Precedes(x, y) ==
    \/ Priority[x.task] > Priority[y.task]
    \/ Priority[x.task] = Priority[y.task] /\ x.seq <= y.seq

NextPending(w, m) ==
    /\ At(w, "next") /\ m \in worker[w].rest
    /\ \A other \in worker[w].rest : Precedes(m, other)
    /\ worker' = [worker EXCEPT ![w] = [@ EXCEPT !.pc = "acquire", !.item = {m},
                                                  !.rest = worker[w].rest \ {m}]]
    /\ UNCHANGED <<stream, submits, seen, releasing, pending, processing, permits, queueFile, launches,
                   dropped, boundVars>>

\* Mutated form of PutBack: what could not be scheduled is forgotten.
PutBackNothing(w) ==
    /\ At(w, "next") /\ worker[w].rest = {}
    /\ worker' = [worker EXCEPT ![w] = [@ EXCEPT !.pc = "save", !.remaining = {}]]
    /\ UNCHANGED <<stream, submits, seen, releasing, pending, processing, permits, queueFile, launches,
                   dropped, boundVars>>

\* What could not be scheduled goes back to the queue.
PutBack(w) ==
    /\ At(w, "next") /\ worker[w].rest = {}
    /\ pending' = pending \cup worker[w].remaining
    /\ worker' = [worker EXCEPT ![w] = [@ EXCEPT !.pc = "save", !.remaining = {}]]
    /\ UNCHANGED <<stream, submits, seen, releasing, processing, permits, queueFile, launches, dropped, boundVars>>

-----------------------------------------------------------------------------
(* try_schedule_task and launch_task, by either worker. *)

\* A submission that cannot run now: the consumer queues it, process_pending
\* keeps it for the end of its pass.
NotNow(w) ==
    worker' = [worker EXCEPT ![w] =
        IF w = Consumer THEN [@ EXCEPT !.pc = "queue"]
        ELSE [@ EXCEPT !.pc = "next", !.item = {},
                       !.remaining = worker[w].remaining \cup InHand(w)]]

\* Mutated form of TryAcquirePermit: the permit is dropped as soon as it is acquired.
TryAcquireAndDrop(w) ==
    /\ At(w, "acquire")
    /\ IF permits = 0 THEN NotNow(w) ELSE Goto(w, "check")
    /\ UNCHANGED <<stream, submits, seen, releasing, pending, processing, permits, queueFile, launches,
                   dropped, boundVars>>

TryAcquirePermit(w) ==
    /\ At(w, "acquire")
    /\ IF permits = 0 THEN NotNow(w) /\ UNCHANGED permits
                      ELSE Goto(w, "check") /\ permits' = permits - 1
    /\ UNCHANGED <<stream, submits, seen, releasing, pending, processing, queueFile, launches, dropped, boundVars>>

AgentIsBusy(m) == \E e \in processing : AgentOf[e.task] = AgentOf[m.task]

\* The strategy is WaitForAgent: a busy agent means the permit is dropped.
CheckAgentAvailability(w) ==
    /\ At(w, "check")
    /\ IF \E m \in InHand(w) : AgentIsBusy(m)
       THEN NotNow(w) /\ permits' = permits + 1
       ELSE Goto(w, "launch") /\ UNCHANGED permits
    /\ UNCHANGED <<stream, submits, seen, releasing, pending, processing, queueFile, launches, dropped, boundVars>>

LaunchAgents(w) ==
    /\ At(w, "launch")
    /\ launches' = [s \in 1..MaxSubmits |->
                       IF \E m \in InHand(w) : m.seq = s THEN launches[s] + 1 ELSE launches[s]]
    /\ Goto(w, "push")
    /\ UNCHANGED <<stream, submits, seen, releasing, pending, processing, permits, queueFile, dropped, boundVars>>

\* launch_agents fails: the permit is dropped, the consumer leaves the message
\* in the stream for redelivery, process_pending keeps the task.
LaunchFault(w) ==
    /\ At(w, "launch")
    /\ faults < MaxFaults
    /\ faults' = faults + 1
    /\ permits' = permits + 1
    /\ IF w = Consumer THEN worker' = [worker EXCEPT ![w] = Idle] /\ Redelivered(w)
                       ELSE NotNow(w) /\ UNCHANGED stream
    /\ UNCHANGED <<submits, seen, releasing, pending, processing, queueFile, launches, dropped,
                   redeliveries, crashes>>

PushProcessing(w) ==
    /\ At(w, "push")
    /\ processing' = processing \cup InHand(w)
    /\ worker' = [worker EXCEPT ![w] = IF w = Consumer THEN [@ EXCEPT !.pc = "ack"]
                                       ELSE [@ EXCEPT !.pc = "next", !.item = {}]]
    /\ UNCHANGED <<stream, submits, seen, releasing, pending, permits, queueFile, launches, dropped, boundVars>>

QueueTask(w) ==
    /\ At(w, "queue")
    /\ pending' = pending \cup InHand(w)
    /\ Goto(w, "save")
    /\ UNCHANGED <<stream, submits, seen, releasing, processing, permits, queueFile, launches, dropped, boundVars>>

\* save_to_disk.
SaveToDisk(w) ==
    /\ At(w, "save")
    /\ queueFile' = pending
    /\ worker' = [worker EXCEPT ![w] = IF w = Consumer THEN [@ EXCEPT !.pc = "ack"] ELSE Idle]
    /\ UNCHANGED <<stream, submits, seen, releasing, pending, processing, permits, launches, dropped, boundVars>>

\* The queue file cannot be written: the consumer leaves the message in the
\* stream, the background loop ends its pass; the queue itself is kept.
SaveFault(w) ==
    /\ At(w, "save")
    /\ faults < MaxFaults
    /\ faults' = faults + 1
    /\ worker' = [worker EXCEPT ![w] = Idle]
    /\ IF w = Consumer THEN Redelivered(w) ELSE UNCHANGED stream
    /\ UNCHANGED <<submits, seen, releasing, pending, processing, permits, queueFile,
                   launches, dropped, redeliveries, crashes>>

\* The message is acknowledged.
Acknowledge(w) ==
    /\ w = Consumer /\ At(w, "ack")
    /\ stream' = stream \ InHand(w)
    /\ worker' = [worker EXCEPT ![w] = Idle]
    /\ UNCHANGED <<submits, seen, releasing, pending, processing, permits, queueFile, launches, dropped, boundVars>>

\* The acknowledgement is lost or comes after ack_wait: the message stays.
LateAcknowledge(w) ==
    /\ w = Consumer /\ At(w, "ack")
    /\ redeliveries < MaxRedeliveries
    /\ redeliveries' = redeliveries + 1
    /\ Redelivered(w)
    /\ worker' = [worker EXCEPT ![w] = Idle]
    /\ UNCHANGED <<submits, seen, releasing, pending, processing, permits, queueFile, launches,
                   dropped, faults, crashes>>

-----------------------------------------------------------------------------
(* mark_completed, and cancel_running_task, which stops the agent besides:   *)
(* first the entries of the task leave processing, then its id leaves the    *)
(* dedup set.  A submission in pending_tasks stays there.                    *)

\* Mutated form of ReleaseProcessing: the permits are not returned.
ReleaseKeepingPermits(t) ==
    /\ EntriesOf(t) # {}
    /\ processing' = processing \ EntriesOf(t)
    /\ releasing' = releasing \cup {t}
    /\ UNCHANGED <<stream, submits, seen, pending, permits, queueFile, worker, launches,
                   dropped, boundVars>>

\* Mutated form of ReleaseProcessing: the task id is never freed.
ReleaseKeepingSeen(t) ==
    /\ EntriesOf(t) # {}
    /\ processing' = processing \ EntriesOf(t)
    /\ permits' = permits + Cardinality(EntriesOf(t))
    /\ UNCHANGED <<stream, submits, seen, releasing, pending, queueFile, worker, launches,
                   dropped, boundVars>>

ReleaseProcessing(t) ==
    /\ EntriesOf(t) # {}
    /\ processing' = processing \ EntriesOf(t)
    /\ permits' = permits + Cardinality(EntriesOf(t))
    /\ releasing' = releasing \cup {t}
    /\ UNCHANGED <<stream, submits, seen, pending, queueFile, worker, launches, dropped, boundVars>>

FreeSeen(t) ==
    /\ t \in releasing
    /\ seen' = seen \ {t}
    /\ releasing' = releasing \ {t}
    /\ UNCHANGED <<stream, submits, pending, processing, permits, queueFile, worker, launches,
                   dropped, boundVars>>

\* A release that finds no entry only frees the task id.
ReleaseUnlaunched(t) ==
    /\ AnyTimeRelease /\ EntriesOf(t) = {} /\ t \in seen
    /\ seen' = seen \ {t}
    /\ UNCHANGED <<stream, submits, releasing, pending, processing, permits, queueFile, worker,
                   launches, dropped, boundVars>>

\* cancel_task, of a task that waits in the queue.
CancelTask(t) ==
    /\ AnyTimeRelease
    /\ \E m \in pending : m.task = t
    /\ pending' = {m \in pending : m.task # t}
    /\ queueFile' = pending'
    /\ UNCHANGED <<stream, submits, seen, releasing, processing, permits, worker, launches, dropped, boundVars>>

\* The process restarts.  The queue file is there, but nothing on the NATS path
\* calls load_from_disk.
Crash ==
    /\ crashes < MaxCrashes
    /\ crashes' = crashes + 1
    /\ seen' = {} /\ releasing' = {} /\ pending' = {} /\ processing' = {}
    /\ permits' = Limit
    /\ worker' = [w \in Worker |-> Idle]
    /\ UNCHANGED <<stream, submits, queueFile, launches, dropped, redeliveries, faults>>

WorkerStep(w) ==
    \/ TryAcquirePermit(w) \/ CheckAgentAvailability(w)
    \/ LaunchAgents(w) \/ LaunchFault(w) \/ PushProcessing(w)
    \/ QueueTask(w) \/ SaveToDisk(w) \/ SaveFault(w) \/ Acknowledge(w) \/ LateAcknowledge(w)
    \/ DrainPending(w) \/ PutBack(w)
    \/ \E m \in Submission : NextPending(w, m)

Next ==
    \/ \E t \in TaskId : Submit(t) \/ ReleaseProcessing(t) \/ FreeSeen(t)
                         \/ ReleaseUnlaunched(t) \/ CancelTask(t)
    \/ \E m \in Submission : HandleNatsTask(m)
    \/ \E w \in Worker : WorkerStep(w)
    \/ Crash

Spec == Init /\ [][Next]_vars

\* The consumer and the background loop go on, and a task that runs is released.
Fairness ==
    /\ \A w \in Worker : WF_vars(WorkerStep(w))
    /\ WF_vars(\E m \in Submission : HandleNatsTask(m))
    /\ \A t \in TaskId : WF_vars(ReleaseProcessing(t)) /\ WF_vars(FreeSeen(t))

FairSpec == Spec /\ Fairness

-----------------------------------------------------------------------------
(* Correctness. *)

TypeOK ==
    /\ stream \subseteq Submission /\ pending \subseteq Submission
    /\ processing \subseteq Submission /\ queueFile \subseteq Submission
    /\ dropped \subseteq Submission
    /\ seen \subseteq TaskId /\ releasing \subseteq TaskId
    /\ submits \in 0..MaxSubmits
    /\ permits \in 0..Limit
    /\ worker \in [Worker -> Frame]
    /\ launches \in [1..MaxSubmits -> Nat]
    /\ redeliveries \in 0..MaxRedeliveries /\ faults \in 0..MaxFaults
    /\ crashes \in 0..MaxCrashes

\* The workers that hold a permit they have not stored in processing.
PermitHolders == {w \in Worker : worker[w].pc \in {"check", "launch", "push"}}

\* Permits are neither leaked nor released twice, on any path through a busy
\* agent, a failed launch, a release or a duplicate.
PermitsConserved == permits + Cardinality(PermitHolders) + Cardinality(processing) = Limit

\* A task has at most one submission on its way to an agent or with one: the
\* dedup set covers every submission that was accepted and not released.
OneLiveSubmission ==
    \A x, y \in Held \cup pending \cup processing : x.task = y.task => x = y

\* A submission that was published is in the stream, in the queue, in hand or
\* was launched; only one that was recognised as a duplicate is let go.
NothingIsLost ==
    \A s \in 1..submits :
        \/ launches[s] > 0
        \/ \E m \in stream \cup pending \cup Held \cup dropped : m.seq = s

\* A submission is dropped as a duplicate only while another one of its task is
\* on its way, running or being released, or when it was launched itself.
DroppedOnlyIfServed ==
    [][\A m \in dropped' \ dropped :
          \/ launches[m.seq] > 0
          \/ m.task \in releasing
          \/ \E k \in Held \cup pending \cup processing : k.task = m.task]_vars

\* What waits in the queue is launched in the end.
QueuedIsLaunched ==
    \A s \in 1..MaxSubmits :
        (\E m \in pending : m.seq = s) ~> launches[s] > 0
=============================================================================
