-------------------------- MODULE DagStatus_proofs --------------------------
(***************************************************************************)
(* Proofs about the statuses of DagScheduler: how often a node is sent,    *)
(* that one branch runs, that a failure reaches what depends on it, that a *)
(* terminal node stays terminal, and that the scheduler implements         *)
(* DagLifecycle.                                                           *)
(***************************************************************************)
EXTENDS DagScheduler_proofs, FiniteSetTheorems

-----------------------------------------------------------------------------
(***************************************************************************)
(* The premises.  They are those of the runs: the code does not keep these *)
(* properties in every instance.  A retry that an idle watcher grants is   *)
(* not told from one the listener grants, and MarkRetryRunning writes over *)
(* whatever happened during the backoff.  The stall watcher fails nodes    *)
(* that are claimed and not yet submitted, which a transient error then    *)
(* brings back to Pending.                                                 *)
(***************************************************************************)
NoRetries == \A n \in Node : MaxRetries[n] = 0

\* Only the listener grants retries; the stall watcher meets no transient error.
Regular ==
    /\ NoRetries \/ Watcher = {}
    /\ ~HasStallTimeout \/ (NoRetries /\ MaxFaults = 0)

-----------------------------------------------------------------------------
(***************************************************************************)
(* What a task holds.  Its claims are the nodes it made Running and is to  *)
(* submit for the first time; a retry is the node on_node_failed took back *)
(* and has not submitted again.                                            *)
(***************************************************************************)
Refused(f) ==
    \/ f.pc = "suberr"
    \/ f.pc \in {"gate", "check", "ungate"} /\ f.after = "suberr"

Submits(f) == f.pc \in {"consume", "publish"} \/ Refused(f)

Retrying(f) == f.pc \in {"backoff", "peek", "running"} \/ (Submits(f) /\ f.op = "failed")

Claims(f) == f.todo \cup (IF Submits(f) /\ f.op # "failed" THEN {f.node} ELSE {})

\* The frames a handler really has.
FrameOK(f) ==
    /\ f.todo # {} \/ f.pc = "next" => f.op \in {"submit", "completed"}
    /\ f.todo # {} => f.pc \in {"next", "scan", "mark"} \/ Submits(f)
    /\ f.pc \in {"scan", "mark"} \/ Submits(f) => f.op \in {"submit", "completed", "failed"}
    /\ Submits(f) => f.node \in Node \ f.todo
    /\ f.pc \in {"failing", "confirm", "backoff", "peek", "running"} => f.op = "failed"
    /\ f.pc \in {"fail", "failing", "confirm", "scan", "mark", "backoff", "peek", "running"}
         => f.node \in Node
    /\ f.pc = "complete" => f.op = "completed"
    /\ f.pc = "claim" => f.op = "submit"
    /\ MaxFaults = 0 /\ Refused(f) => f.err = "permanent"
    /\ Retrying(f) => ~NoRetries

\* Which of them each task has.
Place(u, f) ==
    /\ u = Listener => /\ f.op \in {"none", "completed", "failed"}
                       /\ f.op = "failed" => f.node = f.event
    /\ u = Submitter => /\ f.op \in {"none", "submit"} /\ f.pc \notin {"fail", "victims"}
                        /\ f.pc = "idle" => f.op = "none"
    /\ u = DagTimer => /\ f.pc \in {"off", "idle", "victims", "fail", "gate", "check", "ungate"}
                       /\ f.after = "return" /\ f.op \in {"none", "failed"}
                       /\ f.pc \notin {"off", "idle"} => deadlinePassed
    /\ u = StallTimer => f.op \in {"none", "failed"} /\ (~HasStallTimeout => f.pc = "off")
    /\ u = Canceller => /\ f.pc \in {"off", "idle", "victims", "save", "gate", "check", "ungate"}
                        /\ f.after = "return" /\ f.op \in {"none", "cancel"}
                        /\ ~Cancellable => f.pc = "off"
    /\ u \in Watcher => f.op \in {"none", "failed"}

FrameInv == \A u \in Task : FrameOK(task[u]) /\ Place(u, task[u])

(***************************************************************************)
(* A move of u from frame f to frame g that claims nothing, grants no      *)
(* retry, and neither fails a node nor skips one.                          *)
(***************************************************************************)
Calm(u, f, g) ==
    /\ Claims(g) \subseteq Claims(f)
    /\ Retrying(g) => Retrying(f) /\ g.node = f.node /\ f.pc # "running"
    /\ Retrying(f) /\ status[f.node] = "Pending" => Retrying(g) /\ g.node = f.node
    /\ g.pc \notin {"confirm", "scan", "mark"}
    /\ f.pc \in {"confirm", "scan", "mark"} => IsComplete(status)
    /\ g.pc \in {"fail", "failing"}
         => \/ f.pc \in {"fail", "failing"} /\ g.node = f.node
            \/ u = DagTimer \/ HasStallTimeout \/ dispatched[g.node] > 0
    /\ u = Submitter /\ g.pc \in {"idle", "claim"} => f.pc \in {"idle", "claim"}
    /\ u = Submitter /\ g.pc = "idle" => f.pc = "idle"
    /\ f.pc = "off" => g.pc = "off" \/ task'[Submitter].pc # "idle"
    /\ u = Listener /\ f.pc = "idle" /\ g.pc # "idle" => \E n \in Node : dispatched[n] > 0
    /\ u = Canceller /\ f.pc \in {"idle", "victims"}
         => g.pc \in {"idle", "victims"} \/ IsComplete(status')

\* Each task either stays where it is or makes such a move to such a frame.
CalmMove ==
    \A u \in Task :
        task'[u] = task[u]
          \/ /\ FrameOK(task'[u]) /\ Place(u, task'[u])
             /\ Calm(u, task[u], task'[u])

-----------------------------------------------------------------------------
\* A node whose executions or messages exist was sent, and so was one whose
\* watcher runs.
HistoryInv ==
    \A n \in Node : dispatched[n] = 0 =>
        /\ outstanding[n] = 0 /\ completions[n] = 0 /\ failures[n] = 0
        /\ n \notin armed /\ stray[n] = 0

\* The DAG-level watchers are not there before submit_graph arms them.
TimersInv == At(Submitter, "idle") => At(DagTimer, "off") /\ At(StallTimer, "off")

LEMMA Distinct ==
  /\ Listener \in Task /\ Submitter \in Task /\ DagTimer \in Task /\ StallTimer \in Task
  /\ Canceller \in Task
  /\ Listener # Submitter /\ Listener # DagTimer /\ Listener # StallTimer /\ Listener # Canceller
  /\ Submitter # DagTimer /\ Submitter # StallTimer /\ Submitter # Canceller
  /\ DagTimer # StallTimer /\ DagTimer # Canceller /\ StallTimer # Canceller
  /\ \A u \in Watcher : u \notin {Listener, Submitter, DagTimer, StallTimer, Canceller}
BY SchedulerAssumption DEF Task, Listener, Submitter, DagTimer, StallTimer, Canceller

\* A handler that returns holds nothing.
LEMMA ReturnedIsCalm ==
  ASSUME NEW t \in Task, NEW f \in Frame, Place(t, f), f.todo = {}, f.pc \notin {"off", "idle"}
  PROVE  /\ FrameOK(Returned(t, f)) /\ Place(t, Returned(t, f))
         /\ Claims(Returned(t, f)) = {} /\ ~Retrying(Returned(t, f))
         /\ Returned(t, f).pc \in {"ack", "nak", "victims", "idle", "off"}
         /\ t = Submitter => Returned(t, f).pc = "off"
         /\ t = Canceller => Returned(t, f).pc = "off"
<1> DEFINE g == Returned(t, f)
<1>1. CASE t = Listener
  <2>1. /\ g.pc \in {"ack", "nak"} /\ g.todo = {} /\ g.op = f.op /\ g.event = f.event
        /\ g.node = f.node
    BY <1>1 DEF Returned, Frame
  <2> HIDE DEF g
  <2>2. FrameOK(g) /\ Claims(g) = {} /\ ~Retrying(g)
    BY <2>1 DEF FrameOK, Claims, Retrying, Submits, Refused
  <2>3. Place(t, g)
    BY <1>1, <2>1, Distinct DEF Place
  <2>4. QED
    BY <1>1, <2>1, <2>2, <2>3, Distinct DEF g
<1>2. CASE t \in {DagTimer, StallTimer}
  <2>1. /\ g.pc = "victims" /\ g.todo = {} /\ g.op = f.op /\ g.after = f.after
    BY <1>2, Distinct DEF Returned, Frame
  <2> HIDE DEF g
  <2>2. FrameOK(g) /\ Claims(g) = {} /\ ~Retrying(g)
    BY <2>1 DEF FrameOK, Claims, Retrying, Submits, Refused
  <2>3. Place(t, g)
    BY <1>2, <2>1, Distinct DEF Place
  <2>4. QED
    BY <1>2, <2>1, <2>2, <2>3, Distinct DEF g
<1>3. CASE t \notin {Listener, DagTimer, StallTimer}
  <2>1. /\ g.pc = (IF t \in Watcher THEN "idle" ELSE "off") /\ g.todo = {} /\ g.op = "none"
        /\ g.after = "return"
    BY <1>3 DEF Returned, Resting
  <2> HIDE DEF g
  <2>2. FrameOK(g) /\ Claims(g) = {} /\ ~Retrying(g)
    BY <2>1 DEF FrameOK, Claims, Retrying, Submits, Refused
  <2>3. Place(t, g)
    BY <1>3, <2>1, Distinct DEF Place
  <2>4. QED
    BY <1>3, <2>1, <2>2, <2>3, Distinct DEF g
<1>4. QED
  BY <1>1, <1>2, <1>3

\* A task at rest holds nothing.
LEMMA RestingIsCalm ==
  ASSUME NEW pc \in {"idle", "off"}
  PROVE  /\ FrameOK(Resting(pc)) /\ Claims(Resting(pc)) = {} /\ ~Retrying(Resting(pc))
         /\ Resting(pc).pc = pc /\ Resting(pc).op = "none" /\ Resting(pc).after = "return"
<1> DEFINE g == Resting(pc)
<1>1. /\ g.pc = pc /\ g.todo = {} /\ g.op = "none" /\ g.after = "return"
  BY DEF Resting
<1> HIDE DEF g
<1>2. FrameOK(g) /\ Claims(g) = {} /\ ~Retrying(g)
  BY <1>1 DEF FrameOK, Claims, Retrying, Submits, Refused
<1>3. QED
  BY <1>1, <1>2 DEF g

\* What a step of t to frame g has to show for a calm move.
LEMMA CalmStep ==
  ASSUME TypeInv, NEW t \in Task, NEW g, Step(t, g), FrameOK(g), Place(t, g), Calm(t, task[t], g)
  PROVE  CalmMove
BY DEF CalmMove, Step, TypeInv, TypeOK

-----------------------------------------------------------------------------
(* The calm steps. *)

\* submit_graph begins.
LEMMA CalmSubmitGraph ==
  ASSUME TypeInv, FrameInv, TimersInv, NEW t \in Task, SubmitGraph(t)
  PROVE  CalmMove
<1> DEFINE f == task[t]
           g == [f EXCEPT !.pc = "claim", !.op = "submit"]
<1>1. /\ f \in Frame /\ FrameOK(f) /\ Place(t, f) /\ f.pc = "idle" /\ t = Submitter
  BY DEF SubmitGraph, At, FrameInv, TypeInv, TypeOK
<1>2. f.todo = {}
  BY <1>1 DEF FrameOK, Submits, Refused
<1>3. CASE deadlinePassed
  <2>1. Step(t, Resting("off"))
    BY <1>3 DEF SubmitGraph
  <2>2. Place(t, Resting("off"))
    BY <1>1, RestingIsCalm, Distinct DEF Place
  <2>3. Calm(t, f, Resting("off"))
    BY <1>1, RestingIsCalm, Distinct DEF Calm, Retrying, Submits, Refused
  <2>4. QED
    BY <2>1, <2>2, <2>3, RestingIsCalm, CalmStep
<1>4. CASE ~deadlinePassed
  <2>1. task' = [u \in Task |->
            IF u = t THEN g
            ELSE IF (u = DagTimer /\ HasDagTimeout) \/ (u = StallTimer /\ HasStallTimeout)
            THEN Resting("idle") ELSE task[u]]
    BY <1>4 DEF SubmitGraph
  <2>2. /\ g.pc = "claim" /\ g.op = "submit" /\ g.todo = {}
    BY <1>1, <1>2 DEF Frame
  <2>3. task[DagTimer].pc = "off" /\ task[StallTimer].pc = "off"
    BY <1>1 DEF TimersInv, At
  <2> HIDE DEF g
  <2>4. FrameOK(g) /\ Place(t, g)
    <3>1. FrameOK(g)
      BY <2>2 DEF FrameOK, Retrying, Submits, Refused
    <3>2. QED
      BY <1>1, <2>2, <3>1, Distinct DEF Place
  <2>5. Calm(t, f, g)
    BY <1>1, <2>2, Distinct DEF Calm, Claims, Retrying, Submits, Refused
  <2>6. task'[Submitter].pc = "claim"
    BY <1>1, <2>1, <2>2, Distinct
  <2>7. ASSUME NEW u \in {DagTimer, StallTimer}, u = StallTimer => HasStallTimeout
        PROVE  Place(u, Resting("idle")) /\ Calm(u, task[u], Resting("idle"))
    <3>1. Place(u, Resting("idle"))
      BY <2>7, RestingIsCalm, Distinct DEF Place
    <3>2. Calm(u, task[u], Resting("idle"))
      BY <2>3, <2>7, <2>6, RestingIsCalm, Distinct DEF Calm, Retrying, Submits, Refused
    <3>3. QED
      BY <3>1, <3>2
  <2>8. ASSUME NEW u \in Task
        PROVE  task'[u] = task[u]
                 \/ (FrameOK(task'[u]) /\ Place(u, task'[u]) /\ Calm(u, task[u], task'[u]))
    <3>1. CASE u = t
      BY <2>1, <2>4, <2>5, <3>1
    <3>2. CASE u # t /\ task'[u] = Resting("idle") /\ u \in {DagTimer, StallTimer}
                 /\ (u = StallTimer => HasStallTimeout)
      BY <2>7, <3>2, RestingIsCalm
    <3>3. u = t \/ task'[u] = task[u]
            \/ (task'[u] = Resting("idle") /\ (u = DagTimer \/ (u = StallTimer /\ HasStallTimeout)))
      BY <2>1
    <3>4. QED
      BY <3>1, <3>2, <3>3, Distinct
  <2>9. QED
    BY <2>8 DEF CalmMove
<1>5. QED
  BY <1>3, <1>4

\* The listener takes a message.
LEMMA CalmMessage ==
  ASSUME TypeInv, FrameInv, HistoryInv, NEW t \in Task, NEW n \in Node,
         OnNodeCompleted(t, n) \/ OnNodeFailed(t, n)
  PROVE  CalmMove
<1> DEFINE f == task[t]
<1>1. f \in Frame /\ FrameOK(f) /\ Place(t, f) /\ UNCHANGED dispatched
  BY DEF FrameInv, TypeInv, TypeOK, OnNodeCompleted, OnNodeFailed, busVars
<1>2. f.pc \in {"idle", "fail"} /\ f.todo = {} /\ (f.pc = "idle" => t = Listener)
  BY <1>1 DEF FrameOK, Submits, Refused, OnNodeCompleted, OnNodeFailed, At
<1>3. ~Retrying(f) /\ Claims(f) = {}
  BY <1>2 DEF Retrying, Claims, Submits, Refused
<1>4. f.pc = "idle" => dispatched[n] > 0
  BY <1>2, SMTT(30)
     DEF OnNodeCompleted, OnNodeFailed, At, HistoryInv, TypeInv, TypeOK, TasksOK, ListenerFrame
<1>5. CASE OnNodeCompleted(t, n)
  <2> DEFINE g == [f EXCEPT !.pc = "complete", !.op = "completed", !.event = n,
                            !.late = deadlinePassed]
  <2>1. Step(t, g) /\ t = Listener /\ f.pc = "idle"
    BY <1>5 DEF OnNodeCompleted, At
  <2>2. g.pc = "complete" /\ g.op = "completed" /\ g.todo = {}
    BY <1>1, <1>2 DEF Frame
  <2> HIDE DEF g
  <2>3. FrameOK(g)
    BY <2>2 DEF FrameOK, Retrying, Submits, Refused
  <2>4. Place(t, g)
    BY <2>1, <2>2, Distinct DEF Place
  <2>5. Calm(t, f, g)
    BY <1>3, <1>4, <2>1, <2>2, Distinct DEF Calm, Claims, Retrying, Submits, Refused
  <2>6. QED
    BY <2>1, <2>3, <2>4, <2>5, CalmStep
<1>6. CASE OnNodeFailed(t, n)
  <2> DEFINE e == IF t = Listener THEN n ELSE f.event
             h == [f EXCEPT !.op = "failed", !.node = n, !.event = e]
             g == [h EXCEPT !.pc = "failing"]
             p == [h EXCEPT !.err = "permanent"]
             q == [p EXCEPT !.pc = "gate", !.after = "return"]
  <2>1. IF deadlinePassed THEN Step(t, q) ELSE Step(t, g)
    BY <1>6 DEF OnNodeFailed, Finalize
  <2>2. e \in Node \cup {"none"} /\ (t = Listener => e = n) /\ (f.pc = "fail" => n = f.node)
    BY <1>1, <1>6 DEF OnNodeFailed, At, Frame
  <2> HIDE DEF e
  <2>3. h \in Frame /\ h.op = "failed" /\ h.node = n /\ h.event = e /\ h.todo = {}
    BY <1>1, <1>2, <2>2 DEF Frame, Op
  <2> HIDE DEF h
  <2>4. /\ g.pc = "failing" /\ g.op = "failed" /\ g.node = n /\ g.event = e /\ g.todo = {}
        /\ g.after = h.after
    BY <2>3 DEF Frame
  <2>5. /\ q.pc = "gate" /\ q.op = "failed" /\ q.node = n /\ q.event = e /\ q.todo = {}
        /\ q.after = "return"
    BY <2>3 DEF Frame
  <2> HIDE DEF g, q
  <2>6. FrameOK(g) /\ FrameOK(q)
    BY <2>4, <2>5 DEF FrameOK, Retrying, Submits, Refused
  <2>7. t \notin {Submitter, Canceller}
    BY <1>1, <1>2, Distinct DEF Place
  <2>8. t = DagTimer => deadlinePassed
    BY <1>1, <1>2, Distinct DEF Place
  <2>9. t = StallTimer => HasStallTimeout
    BY <1>1, <1>2, Distinct DEF Place
  <2>10. CASE deadlinePassed
    <3>1. Place(t, q)
      BY <2>2, <2>5, <2>7, <2>9, <2>10, Distinct DEF Place
    <3>2. Calm(t, f, q)
      BY <1>2, <1>3, <1>4, <2>5, <2>7, Distinct DEF Calm, Claims, Retrying, Submits, Refused
    <3>3. QED
      BY <2>1, <2>6, <2>10, <3>1, <3>2, CalmStep
  <2>11. CASE ~deadlinePassed
    <3>1. Place(t, g)
      BY <2>2, <2>4, <2>7, <2>8, <2>9, <2>11, Distinct DEF Place
    <3>2. Calm(t, f, g)
      BY <1>2, <1>3, <1>4, <2>2, <2>4, <2>7, Distinct
         DEF Calm, Claims, Retrying, Submits, Refused
    <3>3. QED
      BY <2>1, <2>6, <2>11, <3>1, <3>2, CalmStep
  <2>12. QED
    BY <2>10, <2>11
<1>7. QED
  BY <1>5, <1>6

\* A watcher fires.
LEMMA CalmWatchers ==
  ASSUME TypeInv, FrameInv, HistoryInv, NEW t \in Task,
         \/ \E n \in Node : IdleTimeout(t, n)
         \/ DagTimeout(t) \/ StallPoll(t) \/ TimerExits(t) \/ Cancel(t)
         \/ \E v \in Node \X TaskStatus : FailNextVictim(t, v) \/ CancelNextVictim(t, v)
  PROVE  CalmMove
<1> DEFINE f == task[t]
<1>1. f \in Frame /\ FrameOK(f) /\ Place(t, f) /\ f.pc \in {"idle", "victims"}
  BY DEF FrameInv, TypeInv, TypeOK, IdleTimeout, DagTimeout, StallPoll, TimerExits, Cancel,
         FailNextVictim, CancelNextVictim, At
<1>2. f.todo = {} /\ ~Retrying(f) /\ Claims(f) = {}
  BY <1>1 DEF FrameOK, Retrying, Claims, Submits, Refused
<1>3. ASSUME NEW n \in Node, IdleTimeout(t, n) PROVE CalmMove
  <2> DEFINE g == [Resting("fail") EXCEPT !.op = "failed", !.node = n]
  <2>1. Step(t, g) /\ t \in Watcher /\ dispatched[n] > 0
    <3>1. n \in armed \/ stray[n] > 0
      BY <1>3 DEF IdleTimeout
    <3>2. dispatched[n] \in Nat /\ dispatched[n] # 0
      BY <3>1 DEF HistoryInv, TypeInv, TypeOK
    <3>3. Step(t, g) /\ t \in Watcher
      BY <1>3 DEF IdleTimeout
    <3>4. QED
      BY <3>2, <3>3
  <2>2. g.pc = "fail" /\ g.op = "failed" /\ g.node = n /\ g.todo = {}
    BY DEF Resting
  <2> HIDE DEF g
  <2>3. FrameOK(g)
    BY <2>2 DEF FrameOK, Retrying, Submits, Refused
  <2>4. Place(t, g)
    BY <2>1, <2>2, Distinct DEF Place
  <2>5. Calm(t, f, g)
    BY <1>1, <1>2, <2>1, <2>2, Distinct DEF Calm, Claims, Retrying, Submits, Refused
  <2>6. QED
    BY <2>1, <2>3, <2>4, <2>5, CalmStep
<1>4. CASE TimerExits(t)
  <2>1. Step(t, Resting("off")) /\ t \in {DagTimer, StallTimer}
    BY <1>4 DEF TimerExits
  <2>2. Place(t, Resting("off"))
    BY <2>1, RestingIsCalm, Distinct DEF Place
  <2>3. Calm(t, f, Resting("off"))
    BY <1>1, <1>2, <2>1, RestingIsCalm, Distinct DEF Calm
  <2>4. QED
    BY <2>1, <2>2, <2>3, RestingIsCalm, CalmStep
<1>5. CASE Cancel(t)
  <2> DEFINE g == [f EXCEPT !.pc = "victims", !.op = "cancel",
                            !.victims = Snapshot({"Pending", "Running"})]
  <2>1. Step(t, g) /\ t = Canceller /\ f.pc = "idle"
    BY <1>5 DEF Cancel, At
  <2>2. g.pc = "victims" /\ g.op = "cancel" /\ g.todo = {} /\ g.after = f.after
    BY <1>1, <1>2 DEF Frame
  <2> HIDE DEF g
  <2>3. FrameOK(g)
    BY <2>2 DEF FrameOK, Retrying, Submits, Refused
  <2>4. Place(t, g)
    BY <1>1, <2>1, <2>2, Distinct DEF Place
  <2>5. Calm(t, f, g)
    BY <1>1, <1>2, <2>1, <2>2, Distinct DEF Calm, Claims, Retrying, Submits, Refused
  <2>6. QED
    BY <2>1, <2>3, <2>4, <2>5, CalmStep
<1>6. ASSUME NEW V, Step(t, [f EXCEPT !.pc = "victims", !.victims = V]),
             (t = DagTimer /\ deadlinePassed) \/ t = StallTimer, f.pc = "idle"
      PROVE  CalmMove
  <2> DEFINE g == [f EXCEPT !.pc = "victims", !.victims = V]
  <2>1. g.pc = "victims" /\ g.op = f.op /\ g.todo = {} /\ g.after = f.after
    BY <1>1, <1>2 DEF Frame
  <2>2. Step(t, g)
    BY <1>6
  <2> HIDE DEF g
  <2>3. FrameOK(g)
    BY <2>1 DEF FrameOK, Retrying, Submits, Refused
  <2>4. Place(t, g)
    BY <1>1, <1>6, <2>1, Distinct DEF Place
  <2>5. Calm(t, f, g)
    BY <1>1, <1>2, <1>6, <2>1, Distinct DEF Calm, Claims, Retrying, Submits, Refused
  <2>6. QED
    BY <2>2, <2>3, <2>4, <2>5, CalmStep
<1>7. CASE DagTimeout(t)
  BY <1>6, <1>7 DEF DagTimeout, At
<1>8. CASE StallPoll(t)
  <2> DEFINE g == [f EXCEPT !.pc = "gate", !.after = "return"]
  <2>1. t = StallTimer /\ f.pc = "idle"
    BY <1>8 DEF StallPoll, At
  <2>2. CASE Step(t, g)
    <3>1. g.pc = "gate" /\ g.op = f.op /\ g.todo = {} /\ g.after = "return"
      BY <1>1, <1>2 DEF Frame
    <3> HIDE DEF g
    <3>2. FrameOK(g)
      BY <3>1 DEF FrameOK, Retrying, Submits, Refused
    <3>3. Place(t, g)
      BY <1>1, <2>1, <3>1, Distinct DEF Place
    <3>4. Calm(t, f, g)
      BY <1>1, <1>2, <2>1, <3>1, Distinct DEF Calm, Claims, Retrying, Submits, Refused
    <3>5. QED
      BY <2>2, <3>2, <3>3, <3>4, CalmStep
  <2>3. QED
    BY <1>6, <1>8, <2>1, <2>2 DEF StallPoll, Finalize
<1>9. ASSUME NEW v \in Node \X TaskStatus, FailNextVictim(t, v) PROVE CalmMove
  <2> DEFINE g == [f EXCEPT !.pc = "fail", !.node = v[1], !.victims = @ \ {v}]
  <2>1. Step(t, g) /\ t \in {DagTimer, StallTimer} /\ f.pc = "victims"
    BY <1>9 DEF FailNextVictim, At
  <2>2. g.pc = "fail" /\ g.op = f.op /\ g.node = v[1] /\ g.todo = {} /\ g.after = f.after
    BY <1>1, <1>2 DEF Frame
  <2> HIDE DEF g
  <2>3. FrameOK(g)
    BY <2>2 DEF FrameOK, Retrying, Submits, Refused
  <2>4. Place(t, g)
    BY <1>1, <2>1, <2>2, Distinct DEF Place
  <2>5. t = StallTimer => HasStallTimeout
    BY <1>1, <2>1 DEF Place
  <2>6. Calm(t, f, g)
    BY <1>1, <1>2, <2>1, <2>2, <2>5, Distinct DEF Calm, Claims, Retrying, Submits, Refused
  <2>7. QED
    BY <2>1, <2>3, <2>4, <2>6, CalmStep
<1>10. ASSUME NEW v \in Node \X TaskStatus, CancelNextVictim(t, v) PROVE CalmMove
  <2> DEFINE g == [f EXCEPT !.victims = @ \ {v}]
  <2>1. Step(t, g) /\ t = Canceller /\ f.pc = "victims"
    BY <1>10 DEF CancelNextVictim, At
  <2>2. g.pc = "victims" /\ g.op = f.op /\ g.todo = {} /\ g.after = f.after
    BY <1>1, <1>2, <2>1 DEF Frame
  <2> HIDE DEF g
  <2>3. FrameOK(g)
    BY <2>2 DEF FrameOK, Retrying, Submits, Refused
  <2>4. Place(t, g)
    BY <1>1, <2>1, <2>2, Distinct DEF Place
  <2>5. Calm(t, f, g)
    BY <1>1, <1>2, <2>1, <2>2, Distinct DEF Calm, Claims, Retrying, Submits, Refused
  <2>6. QED
    BY <2>1, <2>3, <2>4, <2>5, CalmStep
<1>11. QED
  BY <1>3, <1>4, <1>5, <1>7, <1>8, <1>9, <1>10

\* The loop over the claimed nodes, up to the publication.
LEMMA CalmSubmission ==
  ASSUME TypeInv, FrameInv, NEW t \in Task,
         \/ SubmittedAll(t) \/ (\E n \in Node : Peek(t, n))
         \/ TryConsumeBudget(t) \/ SubmissionFault(t)
  PROVE  CalmMove
<1> DEFINE f == task[t]
<1>1. f \in Frame /\ FrameOK(f) /\ Place(t, f)
  BY DEF FrameInv, TypeInv, TypeOK
<1>2. f.pc \in {"next", "peek", "consume", "publish"}
  BY DEF SubmittedAll, Peek, TryConsumeBudget, SubmissionFault, At
<1>3. f.op \in {"submit", "completed", "failed"} /\ (f.op = "failed" => ~NoRetries)
  BY <1>1, <1>2 DEF FrameOK, Submits, Refused, Retrying
<1>4. t \in {Listener, Submitter, StallTimer} \cup Watcher
  BY <1>1, <1>2, Distinct DEF Place, Task
\* What the frame reached has to show, by the part of the loop it is in.
<1>5. ASSUME NEW g, Step(t, g), g.op = f.op, g.event = f.event, g.node \in Node \ g.todo,
             g.todo # {} => f.op # "failed", g.pc # "confirm",
             f.op = "failed" => g.node = f.node /\ Retrying(f),
             f.op # "failed" => Claims(g) \subseteq Claims(f),
             Submits(g), g.pc \notin {"backoff", "peek", "running"},
             MaxFaults = 0 /\ Refused(g) => g.err = "permanent",
             g.pc \notin {"next", "fail", "failing", "scan", "mark", "complete", "claim", "idle",
                          "off", "victims"}
      PROVE  CalmMove
  <2>1. f.op = "failed" => g.todo = {} /\ Claims(g) = {} /\ Retrying(g) /\ f.pc # "running"
    BY <1>2, <1>5 DEF Claims, Retrying
  <2>2. f.op # "failed" => ~Retrying(g) /\ ~Retrying(f)
    BY <1>1, <1>2, <1>5 DEF Retrying, FrameOK
  <2>3. FrameOK(g)
    BY <1>3, <1>5, <2>1, <2>2 DEF FrameOK
  <2>4. Place(t, g)
    BY <1>1, <1>2, <1>4, <1>5, Distinct DEF Place
  <2>5. Claims(g) \subseteq Claims(f)
    BY <1>5, <2>1
  <2>6. Calm(t, f, g)
    BY <1>2, <1>4, <1>5, <2>1, <2>2, <2>5, Distinct DEF Calm
  <2>7. QED
    BY <1>5, <2>3, <2>4, <2>6, CalmStep
<1>6. CASE SubmittedAll(t)
  <2> DEFINE g == [f EXCEPT !.pc = "save"]
  <2>1. Step(t, g) /\ f.pc = "next" /\ f.todo = {}
    BY <1>6 DEF SubmittedAll, Goto, At
  <2>2. /\ g.pc = "save" /\ g.op = f.op /\ g.event = f.event /\ g.node = f.node
        /\ g.todo = {} /\ g.after = f.after
    BY <1>1, <2>1 DEF Frame
  <2> HIDE DEF g
  <2>3. FrameOK(g)
    BY <2>2 DEF FrameOK, Retrying, Submits, Refused
  <2>4. Place(t, g)
    BY <1>1, <1>4, <2>1, <2>2, Distinct DEF Place
  <2>5. Calm(t, f, g)
    BY <1>1, <1>4, <2>1, <2>2, Distinct DEF Calm, Claims, Retrying, Submits, Refused, FrameOK
  <2>6. QED
    BY <2>1, <2>3, <2>4, <2>5, CalmStep
<1>7. ASSUME NEW n \in Node, Peek(t, n) PROVE CalmMove
  <2> DEFINE h == IF At(t, "next") THEN [f EXCEPT !.node = n, !.todo = @ \ {n}] ELSE f
             g == [h EXCEPT !.pc = "consume"]
             p == [h EXCEPT !.err = "permanent"]
             q == [p EXCEPT !.pc = "gate", !.after = "suberr"]
  <2>1. Step(t, q) \/ Step(t, g)
    <3>1. Finalize(t, p, "suberr") \/ Step(t, g)
      BY <1>7 DEF Peek
    <3>2. QED
      BY <3>1 DEF Finalize
  <2>2. \/ f.pc = "next" /\ n \in f.todo
        \/ f.pc = "peek" /\ n = f.node
    BY <1>7 DEF Peek, At
  <2>3. /\ h \in Frame /\ h.op = f.op /\ h.event = f.event /\ h.node = n
        /\ h.todo = f.todo \ {n} /\ (f.op = "failed" => f.node = n /\ f.todo = {} /\ Retrying(f))
    <3>1. CASE At(t, "next")
      BY <1>1, <2>2, <3>1 DEF Frame, At, FrameOK
    <3>2. CASE ~At(t, "next")
      BY <1>1, <2>2, <3>2 DEF Frame, At, FrameOK, Retrying
    <3>3. QED
      BY <3>1, <3>2
  <2>4. f.op # "failed" => {n} \cup (f.todo \ {n}) \subseteq Claims(f)
    BY <1>1, <2>2 DEF Claims, FrameOK
  <2> HIDE DEF h
  <2>5. /\ g.pc = "consume" /\ g.op = f.op /\ g.event = f.event /\ g.node = n
        /\ g.todo = f.todo \ {n}
    BY <2>3 DEF Frame
  <2>6. /\ q.pc = "gate" /\ q.op = f.op /\ q.event = f.event /\ q.node = n
        /\ q.todo = f.todo \ {n} /\ q.after = "suberr" /\ q.err = "permanent"
    BY <2>3 DEF Frame
  <2> HIDE DEF g, q
  <2>7. Submits(g) /\ Submits(q) /\ ~Refused(g)
    BY <2>5, <2>6 DEF Submits, Refused
  <2>8. Claims(g) \subseteq {n} \cup (f.todo \ {n}) /\ Claims(q) \subseteq {n} \cup (f.todo \ {n})
    BY <2>5, <2>6 DEF Claims
  <2>9. CASE Step(t, g)
    BY <1>5, <2>3, <2>4, <2>5, <2>7, <2>8, <2>9
  <2>10. CASE Step(t, q)
    BY <1>5, <2>3, <2>4, <2>6, <2>7, <2>8, <2>10
  <2>11. QED
    BY <2>1, <2>9, <2>10
<1>8. CASE TryConsumeBudget(t) \/ SubmissionFault(t)
  <2> DEFINE g == [f EXCEPT !.pc = "publish"]
             p == [f EXCEPT !.err = "permanent"]
             q == [p EXCEPT !.pc = "gate", !.after = "suberr"]
             r == [f EXCEPT !.pc = "suberr", !.err = "transient"]
  <2>1. /\ f.pc \in {"consume", "publish"}
        /\ Step(t, q) \/ Step(t, g) \/ (Step(t, r) /\ MaxFaults # 0)
    BY <1>8, SchedulerAssumption
       DEF TryConsumeBudget, SubmissionFault, Finalize, Goto, At, TypeInv, TypeOK
  <2>2. /\ Submits(f) /\ f.node \in Node \ f.todo /\ (f.op = "failed" => Retrying(f) /\ f.todo = {})
        /\ (f.op # "failed" => Claims(f) = f.todo \cup {f.node})
    BY <1>1, <2>1 DEF FrameOK, Submits, Retrying, Claims
  <2>3. /\ g.pc = "publish" /\ g.op = f.op /\ g.event = f.event /\ g.node = f.node
        /\ g.todo = f.todo
    BY <1>1 DEF Frame
  <2>4. p \in Frame /\ p.op = f.op /\ p.event = f.event /\ p.node = f.node /\ p.todo = f.todo
          /\ p.err = "permanent"
    BY <1>1 DEF Frame
  <2> HIDE DEF p
  <2>5. /\ q.pc = "gate" /\ q.op = f.op /\ q.event = f.event /\ q.node = f.node
        /\ q.todo = f.todo /\ q.after = "suberr" /\ q.err = "permanent"
    BY <2>4 DEF Frame
  <2>6. /\ r.pc = "suberr" /\ r.op = f.op /\ r.event = f.event /\ r.node = f.node
        /\ r.todo = f.todo
    BY <1>1 DEF Frame
  <2> HIDE DEF g, q, r
  <2>7. ASSUME NEW x, Step(t, x), x \in {g, q} \/ (x = r /\ MaxFaults # 0) PROVE CalmMove
    <3>1. /\ x.op = f.op /\ x.event = f.event /\ x.node = f.node /\ x.todo = f.todo
          /\ x.pc \in {"publish", "gate", "suberr"}
      BY <2>3, <2>5, <2>6, <2>7
    <3>2. Submits(x) /\ (MaxFaults = 0 /\ Refused(x) => x.err = "permanent")
      BY <2>3, <2>5, <2>6, <2>7 DEF Submits, Refused
    <3>3. Claims(x) \subseteq f.todo \cup {f.node}
      BY <3>1 DEF Claims
    <3>4. x.node \in Node \ x.todo /\ (f.op # "failed" => Claims(x) \subseteq Claims(f))
      BY <2>2, <3>1, <3>3
    <3>5. /\ x.todo # {} => f.op # "failed"
          /\ f.op = "failed" => x.node = f.node /\ Retrying(f)
      BY <2>2, <3>1
    <3>6. /\ x.pc \notin {"backoff", "peek", "running"} /\ x.pc # "confirm"
          /\ x.pc \notin {"next", "fail", "failing", "scan", "mark", "complete", "claim", "idle",
                          "off", "victims"}
      BY <3>1
    <3>7. QED
      BY <1>5, <2>7, <3>1, <3>2, <3>4, <3>5, <3>6
  <2>8. QED
    BY <2>1, <2>7
<1>9. QED
  BY <1>6, <1>7, <1>8

\* The end of a handler: save, finalize_if_terminal, acknowledge.
LEMMA CalmEnd ==
  ASSUME TypeInv, FrameInv, NEW t \in Task,
         \/ SaveGraph(t) \/ SaveFault(t) \/ SwapFinalized(t) \/ NotTerminal(t) \/ ReleaseGate(t)
         \/ Acknowledge(t) \/ Redelivery(t) \/ DeliveriesExhausted(t)
         \/ RetryAfterBackoff(t) \/ PublishDagComplete(t)
  PROVE  CalmMove
<1> DEFINE f == task[t]
<1>1. f \in Frame /\ FrameOK(f) /\ Place(t, f)
  BY DEF FrameInv, TypeInv, TypeOK
<1>2. f.pc \in {"save", "gate", "check", "ungate", "ack", "nak", "backoff"}
  BY DEF SaveGraph, SaveFault, SwapFinalized, NotTerminal, ReleaseGate, Acknowledge, Redelivery,
         DeliveriesExhausted, RetryAfterBackoff, PublishDagComplete, At
<1>3. f.todo # {} => Submits(f)
  BY <1>1, <1>2 DEF FrameOK
\* Returning is calm unless the task claims or retries a node.
<1>4. ASSUME NEW h \in Frame, h.todo = {}, h.pc = f.pc, h.op = f.op, h.node = f.node,
             h.event = f.event, h.after = f.after,
             ~Submits(f), Retrying(f) => status[f.node] # "Pending"
      PROVE  /\ FrameOK(Returned(t, h)) /\ Place(t, Returned(t, h)) /\ Calm(t, f, Returned(t, h))
             /\ Step(t, Returned(t, h)) => CalmMove
  <2>1. Place(t, h)
    BY <1>1, <1>4 DEF Place
  <2>2. FrameOK(Returned(t, h)) /\ Place(t, Returned(t, h))
    BY <1>2, <1>4, <2>1, ReturnedIsCalm
  <2>3. Calm(t, f, Returned(t, h))
    <3> DEFINE r == Returned(t, h)
    <3>1. /\ Claims(r) = {} /\ ~Retrying(r)
          /\ r.pc \in {"ack", "nak", "victims", "idle", "off"}
          /\ t = Submitter => r.pc = "off"
          /\ t = Canceller => r.pc = "off"
      BY <1>2, <1>4, <2>1, ReturnedIsCalm
    <3> HIDE DEF r
    <3>2. Calm(t, f, r)
      BY <1>2, <1>4, <3>1, Distinct DEF Calm
    <3>3. QED
      BY <3>2 DEF r
  <2>4. QED
    BY <2>2, <2>3, CalmStep
\* finalize_if_terminal goes on or comes back with what the task holds.
<1>5. ASSUME NEW pc \in {"check", "ungate", "suberr"},
             f.pc \in {"gate", "check", "ungate"}, pc = "suberr" => f.after = "suberr"
      PROVE  LET g == [f EXCEPT !.pc = pc]
             IN  FrameOK(g) /\ Place(t, g) /\ Calm(t, f, g)
  <2> DEFINE g == [f EXCEPT !.pc = pc]
  <2>1. /\ g.pc = pc /\ g.op = f.op /\ g.event = f.event /\ g.node = f.node /\ g.todo = f.todo
        /\ g.after = f.after /\ g.err = f.err
    BY <1>1 DEF Frame
  <2> HIDE DEF g
  <2>2. (Refused(g) <=> Refused(f)) /\ (Submits(g) <=> Submits(f))
    BY <1>5, <2>1 DEF Refused, Submits
  <2>3. (Retrying(g) <=> Retrying(f)) /\ Claims(g) = Claims(f)
    BY <1>5, <2>1, <2>2 DEF Retrying, Claims
  <2>4. FrameOK(g)
    BY <1>1, <1>5, <2>1, <2>2, <2>3 DEF FrameOK
  <2>5. Place(t, g)
    BY <1>1, <1>5, <2>1, Distinct DEF Place
  <2>6. Calm(t, f, g)
    BY <1>5, <2>1, <2>3, Distinct DEF Calm
  <2>7. QED
    BY <2>4, <2>5, <2>6 DEF g
<1>6. ASSUME f.pc \in {"gate", "check", "ungate"}
      PROVE  FrameOK(Finalized(t)) /\ Place(t, Finalized(t)) /\ Calm(t, f, Finalized(t))
  <2>1. CASE f.after = "suberr"
    BY <1>5, <1>6, <2>1 DEF Finalized
  <2>2. CASE f.after # "suberr"
    <3>1. ~Submits(f) /\ ~Retrying(f) /\ f.todo = {}
      BY <1>3, <1>6, <2>2 DEF Submits, Refused, Retrying
    <3>2. Finalized(t) = Returned(t, f)
      BY <2>2 DEF Finalized
    <3>3. QED
      BY <1>1, <1>4, <3>1, <3>2
  <2>3. QED
    BY <2>1, <2>2
<1>7. CASE SwapFinalized(t) \/ NotTerminal(t) \/ ReleaseGate(t)
  BY <1>5, <1>6, <1>7, CalmStep DEF SwapFinalized, NotTerminal, ReleaseGate, Goto, At
<1>8. CASE PublishDagComplete(t)
  <2>1. /\ f.pc = "check" /\ IsComplete(status)
        /\ \A u \in Task : task'[u] = IF u \in {DagTimer, StallTimer} THEN Resting("off")
                                      ELSE IF u = t THEN Finalized(t) ELSE task[u]
    BY <1>8 DEF PublishDagComplete, At
  <2>2. ASSUME NEW u \in {DagTimer, StallTimer}
        PROVE  FrameOK(Resting("off")) /\ Place(u, Resting("off")) /\ Calm(u, task[u], Resting("off"))
    <3>1. Place(u, Resting("off"))
      BY RestingIsCalm, Distinct DEF Place
    <3>2. Retrying(task[u]) => task[u].node \in Node
      BY Distinct DEF FrameInv, FrameOK, Retrying
    <3>3. Retrying(task[u]) => status[task[u].node] # "Pending"
      BY <2>1, <3>2 DEF IsComplete, Terminal
    <3>4. Calm(u, task[u], Resting("off"))
      BY <2>1, <3>3, RestingIsCalm, Distinct DEF Calm
    <3>5. QED
      BY <3>1, <3>4, RestingIsCalm
  <2>3. QED
    BY <1>6, <2>1, <2>2 DEF CalmMove
<1>9. CASE SaveGraph(t) \/ SaveFault(t)
  <2> DEFINE h == [f EXCEPT !.err = "transient"]
             g == [f EXCEPT !.pc = "gate", !.after = "return"]
  <2>1. f.pc = "save" /\ (Return(t, f) \/ Step(t, g) \/ Return(t, h))
    BY <1>9 DEF SaveGraph, SaveFault, Finalize, At
  <2>2. ~Submits(f) /\ ~Retrying(f) /\ f.todo = {}
    BY <1>3, <2>1 DEF Submits, Refused, Retrying
  <2>3. /\ h \in Frame /\ h.todo = f.todo /\ h.pc = f.pc /\ h.op = f.op /\ h.node = f.node
        /\ h.event = f.event /\ h.after = f.after
    BY <1>1 DEF Frame
  <2>4. /\ g.pc = "gate" /\ g.op = f.op /\ g.event = f.event /\ g.node = f.node /\ g.todo = f.todo
        /\ g.after = "return"
    BY <1>1 DEF Frame
  <2> HIDE DEF g, h
  <2>5. CASE Step(t, g)
    <3>1. FrameOK(g)
      BY <2>2, <2>4 DEF FrameOK, Retrying, Submits, Refused
    <3>2. Place(t, g)
      BY <1>1, <2>1, <2>4, Distinct DEF Place
    <3>3. Calm(t, f, g)
      BY <2>1, <2>2, <2>4, Distinct DEF Calm, Claims, Retrying, Submits, Refused
    <3>4. QED
      BY <2>5, <3>1, <3>2, <3>3, CalmStep
  <2>6. QED
    BY <1>1, <1>4, <2>1, <2>2, <2>3, <2>5 DEF Return
<1>10. CASE Acknowledge(t) \/ Redelivery(t) \/ DeliveriesExhausted(t)
  <2>1. Step(t, Resting("idle")) /\ t = Listener /\ f.pc \in {"ack", "nak"}
    BY <1>10 DEF Acknowledge, Redelivery, DeliveriesExhausted, At
  <2>2. Place(t, Resting("idle"))
    BY <2>1, RestingIsCalm, Distinct DEF Place
  <2>3. Calm(t, f, Resting("idle"))
    BY <2>1, RestingIsCalm, Distinct DEF Calm, Retrying, Submits, Refused
  <2>4. QED
    BY <2>1, <2>2, <2>3, RestingIsCalm, CalmStep
<1>11. CASE RetryAfterBackoff(t)
  <2> DEFINE g == [f EXCEPT !.pc = "peek"]
  <2>1. /\ f.pc = "backoff"
        /\ IF status[f.node] = "Pending" THEN Step(t, g) ELSE Return(t, f)
    BY <1>11 DEF RetryAfterBackoff, Goto, At
  <2>2. ~Submits(f) /\ Retrying(f) /\ f.todo = {}
    BY <1>3, <2>1 DEF Submits, Refused, Retrying
  <2>3. /\ g.pc = "peek" /\ g.op = f.op /\ g.event = f.event /\ g.node = f.node /\ g.todo = f.todo
        /\ g.after = f.after
    BY <1>1 DEF Frame
  <2> HIDE DEF g
  <2>4. CASE Step(t, g)
    <3>1. FrameOK(g)
      BY <1>1, <2>1, <2>2, <2>3 DEF FrameOK, Retrying, Submits, Refused
    <3>2. Place(t, g)
      BY <1>1, <2>1, <2>3, Distinct DEF Place
    <3>3. Calm(t, f, g)
      BY <2>1, <2>2, <2>3, Distinct DEF Calm, Claims, Retrying, Submits, Refused
    <3>4. QED
      BY <2>4, <3>1, <3>2, <3>3, CalmStep
  <2>5. QED
    BY <1>1, <1>4, <2>1, <2>2, <2>4 DEF Return
<1>12. QED
  BY <1>7, <1>8, <1>9, <1>10, <1>11

\* The snapshot is handled: what the timers and the canceller leave holds nothing.
LEMMA CalmVictims ==
  ASSUME TypeInv, FrameInv, NEW t \in Task, VictimsFailed(t) \/ CancelStatuses(t)
  PROVE  CalmMove
<1> DEFINE f == task[t]
<1>1. f \in Frame /\ FrameOK(f) /\ Place(t, f) /\ f.pc = "victims"
  BY DEF FrameInv, TypeInv, TypeOK, VictimsFailed, CancelStatuses, At
<1>2. f.todo = {} /\ ~Retrying(f) /\ Claims(f) = {}
  BY <1>1 DEF FrameOK, Retrying, Claims, Submits, Refused
<1>3. CASE VictimsFailed(t)
  <2>1. Step(t, Resting("off")) /\ t \in {DagTimer, StallTimer}
    BY <1>3 DEF VictimsFailed
  <2>2. Place(t, Resting("off"))
    BY <2>1, RestingIsCalm, Distinct DEF Place
  <2>3. Calm(t, f, Resting("off"))
    BY <1>1, <1>2, <2>1, RestingIsCalm, Distinct DEF Calm
  <2>4. QED
    BY <2>1, <2>2, <2>3, RestingIsCalm, CalmStep
<1>4. CASE CancelStatuses(t)
  <2> DEFINE g == [f EXCEPT !.pc = "save"]
  <2>1. Step(t, g) /\ t = Canceller
    BY <1>4 DEF CancelStatuses, Goto
  <2>2. g.pc = "save" /\ g.op = f.op /\ g.todo = {} /\ g.after = f.after
    BY <1>1, <1>2 DEF Frame
  <2> HIDE DEF g
  <2>3. IsComplete(status')
    BY <1>4 DEF CancelStatuses, WithStatus, InStatus, IsComplete, Terminal, TypeInv, TypeOK,
                TaskStatus
  <2>4. FrameOK(g)
    BY <2>2 DEF FrameOK, Retrying, Submits, Refused
  <2>5. Place(t, g)
    BY <1>1, <2>1, <2>2, Distinct DEF Place
  <2>6. Calm(t, f, g)
    BY <1>1, <1>2, <2>1, <2>2, <2>3, Distinct DEF Calm, Claims, Retrying, Submits, Refused
  <2>7. QED
    BY <2>1, <2>4, <2>5, <2>6, CalmStep
<1>5. QED
  BY <1>3, <1>4

-----------------------------------------------------------------------------
(***************************************************************************)
(* The invariant of the claims.  A claimed node has not been sent and is   *)
(* claimed by one task; a retried one has been sent no more often than it  *)
(* was granted a retry; a Pending one that no task retries has not been    *)
(* sent at all, so that whoever finds it ready may claim it.               *)
(***************************************************************************)
SentInv ==
    /\ NoDoubleExecution
    /\ \A n \in InStatus(status, "Completed") : dispatched[n] > 0

HeldInv ==
    \A u \in Task :
        /\ \A n \in Claims(task[u]) : dispatched[n] = 0 /\ status[n] \in {"Running", "Failed"}
        /\ \A w \in Task : u # w => Claims(task[u]) \cap Claims(task[w]) = {}

RetryInv ==
    \A u \in Task : Retrying(task[u]) =>
        LET n == task[u].node
        IN  /\ u = Listener
            /\ dispatched[n] > 0 /\ status[n] \in {"Pending", "Skipped"}
            /\ task[u].pc # "running" => dispatched[n] <= retries[n]

PendingInv ==
    \A n \in InStatus(status, "Pending") :
        dispatched[n] = 0 \/ (Retrying(task[Listener]) /\ task[Listener].node = n)

\* A node about to be failed was sent, unless a DAG-level watcher fails it.
FailingInv ==
    \A u \in Task :
        /\ At(u, "confirm") => status[task[u].node] = "Failed"
        /\ task[u].pc \in {"fail", "failing", "confirm"}
             => u = DagTimer \/ HasStallTimeout \/ dispatched[task[u].node] > 0

\* Nothing is sent before submit_graph has claimed the ready nodes.
QuietInv ==
    task[Submitter].pc \in {"idle", "claim"} =>
        /\ At(Listener, "idle")
        /\ \A n \in Node : dispatched[n] = 0 /\ status[n] \in {"Pending", "Skipped"}

ClaimInv == SentInv /\ HeldInv /\ RetryInv /\ PendingInv /\ FailingInv /\ QuietInv

(***************************************************************************)
(* The invariant of the branches.  A node that was started, by its status  *)
(* or by a submission, has all its dependencies Completed; and a node that *)
(* chose a branch has left all its other dependents Skipped and unsent.    *)
(***************************************************************************)
Started(n) == dispatched[n] > 0 \/ status[n] \notin {"Pending", "Skipped"}

StartedInv == \A m \in Node : Started(m) => \A e \in DependsOn[m] : status[e] = "Completed"

ChosenInv ==
    \A n \in InStatus(status, "Completed") : Targets[n] # {} =>
        \E target \in Node :
            \A m \in Dependents({n}) \ {target} : ~Started(m) /\ status[m] = "Skipped"

BranchInv == StartedInv /\ ChosenInv

(***************************************************************************)
(* The invariant of the failures.  A Pending node below a Failed or a      *)
(* Skipped one is about to be skipped: some task has yet to collect what   *)
(* is below that node, or has collected it.                                *)
(***************************************************************************)
Covers(f, e, m) ==
    \/ f.pc \in {"confirm", "scan"} /\ f.node = e
    \/ f.pc = "mark" /\ m \in f.skip

ReachInv ==
    /\ \A m \in InStatus(status, "Pending") : \A e \in DependsOn[m] :
          status[e] \in {"Failed", "Skipped"} => \E u \in Task : Covers(task[u], e, m)
    /\ \A u \in Task : At(u, "mark") =>
          \A e \in task[u].skip : \A m \in InStatus(status, "Pending") :
              e \in DependsOn[m] => m \in task[u].skip \/ status[e] = "Completed"

Inv == FrameInv /\ TimersInv /\ HistoryInv /\ ClaimInv /\ BranchInv /\ ReachInv

-----------------------------------------------------------------------------
(* What the calm steps keep. *)

\* The deadline does not un-pass.
LEMMA DeadlineStays == ASSUME [Next]_vars, deadlinePassed PROVE deadlinePassed'
<1>1. ASSUME NEW t \in Task, HandlerStart(t) PROVE deadlinePassed'
  BY <1>1 DEF HandlerStart, SubmitGraph, OnNodeCompleted, IdleTimeout, DagTimeout, StallPoll,
              TimerExits, Cancel, clockVars
<1>2. ASSUME NEW t \in Task, HandlerStep(t) PROVE deadlinePassed'
  BY <1>2
     DEF HandlerStep, LocalStep, ClaimReady, SubmittedAll, Peek, OnNodeFailed, TryConsumeBudget,
         SubmissionFault, CollectDownstream, SkipCollected, ConfirmFailed, RetryAfterBackoff,
         MarkRetryRunning, SaveGraph, SaveFault, SwapFinalized, PublishDagComplete, NotTerminal,
         ReleaseGate, VictimsFailed, CancelStatuses, Acknowledge, Redelivery,
         DeliveriesExhausted, CompleteNode, ClaimFailure, PublishTaskSubmit, SubmissionError,
         FailNextVictim, CancelNextVictim, clockVars
<1>3. ASSUME Environment \/ UNCHANGED vars PROVE deadlinePassed'
  BY <1>3 DEF Environment, ExecutionCompletes, ExecutionFails, WatcherExits, DeadlinePasses,
              ProgressGoesStale, vars, clockVars
<1>4. QED
  BY <1>1, <1>2, <1>3 DEF Next

\* A place outlasts any step, for the deadline only passes.
LEMMA PlaceStays ==
  ASSUME NEW u, NEW g, Place(u, g), deadlinePassed => deadlinePassed'
  PROVE  Place(u, g)'
BY DEF Place

\* Every task keeps a frame of its own after a step of t to such a frame,
LEMMA FrameKept ==
  ASSUME TypeInv, FrameInv, NEW t \in Task, NEW g, Step(t, g), FrameOK(g), Place(t, g),
         deadlinePassed => deadlinePassed'
  PROVE  FrameInv'
<1>1. ASSUME NEW u \in Task, NEW h, task'[u] = h PROVE FrameOK(h) /\ Place(u, h)'
  <2>1. FrameOK(h) /\ Place(u, h)
    BY <1>1 DEF FrameInv, Step, TypeInv, TypeOK
  <2>2. QED
    BY <2>1, PlaceStays
<1>2. QED
  BY <1>1 DEF FrameInv, Place

\* and after a calm step.
LEMMA FrameKeptCalm ==
  ASSUME FrameInv, CalmMove, deadlinePassed => deadlinePassed'
  PROVE  FrameInv'
<1>1. ASSUME NEW u \in Task, NEW g, task'[u] = g PROVE FrameOK(g) /\ Place(u, g)'
  <2>1. FrameOK(g) /\ Place(u, g)
    BY <1>1 DEF FrameInv, CalmMove
  <2>2. QED
    BY <2>1, PlaceStays
<1>2. QED
  BY <1>1 DEF FrameInv, Place

-----------------------------------------------------------------------------
(* The frames the other steps lead to. *)

\* The ready nodes are claimed, by submit_graph or by the completion of a node.
LEMMA ClaimFrame ==
  ASSUME TypeInv, FrameInv, NEW t \in Task, NEW C \in SUBSET Node,
         At(t, "claim") \/ At(t, "complete"),
         Step(t, [task[t] EXCEPT !.pc = "next", !.todo = C])
  PROVE  \E g : /\ Step(t, g) /\ FrameOK(g) /\ Place(t, g)
                /\ g.pc = "next" /\ Claims(g) = C /\ ~Retrying(g)
<1> DEFINE f == task[t]
           g == [f EXCEPT !.pc = "next", !.todo = C]
<1>1. f \in Frame /\ FrameOK(f) /\ Place(t, f) /\ f.pc \in {"claim", "complete"}
  BY DEF FrameInv, TypeInv, TypeOK, At
<1>2. g.pc = "next" /\ g.todo = C /\ g.op = f.op /\ g.node = f.node /\ g.event = f.event
  BY <1>1 DEF Frame
<1>3. Step(t, g)
  OBVIOUS
<1> HIDE DEF g
<1>4. ~Submits(g) /\ ~Retrying(g) /\ Claims(g) = C
  BY <1>2 DEF Submits, Refused, Retrying, Claims
<1>5. FrameOK(g)
  BY <1>1, <1>2, <1>4 DEF FrameOK, Refused
<1>6. Place(t, g)
  BY <1>1, <1>2, Distinct DEF Place
<1>7. QED
  BY <1>2, <1>3, <1>4, <1>5, <1>6

\* A completion that is late is acknowledged.
LEMMA LateCompletionIsCalm ==
  ASSUME TypeInv, FrameInv, NEW t \in Task, t = Listener, At(t, "complete"), Goto(t, "ack")
  PROVE  CalmMove
<1> DEFINE f == task[t]
           g == [f EXCEPT !.pc = "ack"]
<1>1. f \in Frame /\ FrameOK(f) /\ Place(t, f) /\ f.pc = "complete" /\ f.op = "completed"
  BY DEF FrameInv, TypeInv, TypeOK, At, FrameOK
<1>2. f.todo = {} /\ ~Retrying(f)
  BY <1>1 DEF FrameOK, Submits, Refused, Retrying
<1>3. g.pc = "ack" /\ g.todo = {} /\ g.op = f.op /\ g.node = f.node /\ g.event = f.event
  BY <1>1, <1>2 DEF Frame
<1>4. Step(t, g)
  BY DEF Goto
<1> HIDE DEF g
<1>5. ~Submits(g) /\ ~Retrying(g) /\ Claims(g) = {}
  BY <1>3 DEF Submits, Refused, Retrying, Claims
<1>6. FrameOK(g)
  BY <1>1, <1>3, <1>5 DEF FrameOK, Refused
<1>7. Place(t, g)
  BY <1>1, <1>3, Distinct DEF Place
<1>8. Calm(t, f, g)
  BY <1>1, <1>2, <1>3, <1>5, Distinct DEF Calm
<1>9. QED
  BY <1>4, <1>6, <1>7, <1>8, CalmStep

\* A node is sent: it is no longer claimed; a retry has yet to be marked.
LEMMA PublishFrame ==
  ASSUME TypeInv, FrameInv, NEW t \in Task, PublishTaskSubmit(t)
  PROVE  \E g : /\ Step(t, g) /\ FrameOK(g) /\ Place(t, g)
                /\ Submits(task[t]) /\ task[t].node \in Node \ task[t].todo
                /\ g.node = task[t].node /\ Claims(g) = task[t].todo
                /\ task[t].op = "failed" => task[t].todo = {} /\ g.pc = "running" /\ Retrying(task[t])
                /\ task[t].op # "failed" => g.pc = "next" /\ ~Retrying(g) /\ ~Retrying(task[t])
                /\ task[t].pc = "publish"
<1> DEFINE f == task[t]
           g == [f EXCEPT !.pc = IF f.op = "failed" THEN "running" ELSE "next"]
<1>1. /\ f \in Frame /\ FrameOK(f) /\ Place(t, f) /\ f.pc = "publish" /\ Step(t, g)
  BY DEF FrameInv, TypeInv, TypeOK, At, PublishTaskSubmit, Goto
<1>2. Submits(f) /\ f.node \in Node \ f.todo /\ (f.op = "failed" => f.todo = {})
  BY <1>1 DEF FrameOK, Submits
<1>3. (Retrying(f) <=> f.op = "failed") /\ f.op \in {"submit", "completed", "failed"}
  BY <1>1, <1>2 DEF Retrying, FrameOK
<1>4. /\ g.pc = (IF f.op = "failed" THEN "running" ELSE "next")
      /\ g.todo = f.todo /\ g.op = f.op /\ g.node = f.node /\ g.event = f.event
  BY <1>1 DEF Frame
<1> HIDE DEF g
<1>5. ~Submits(g) /\ (Retrying(g) <=> f.op = "failed") /\ Claims(g) = f.todo
  BY <1>4 DEF Submits, Refused, Retrying, Claims
<1>6. FrameOK(g)
  BY <1>1, <1>2, <1>3, <1>4, <1>5 DEF FrameOK, Refused
<1>7. Place(t, g)
  BY <1>1, <1>3, <1>4, Distinct DEF Place
<1>8. QED
  BY <1>1, <1>2, <1>3, <1>4, <1>5, <1>6, <1>7

\* A submission failed.
LEMMA SubmissionErrorFrame ==
  ASSUME TypeInv, FrameInv, NEW t \in Task, SubmissionError(t)
  PROVE  \E g : /\ Step(t, g) /\ FrameOK(g) /\ Place(t, g)
                /\ Submits(task[t]) /\ task[t].node \in Node \ task[t].todo
                /\ g.node = task[t].node /\ Claims(g) = task[t].todo /\ ~Retrying(g)
                /\ task[t].op = "failed" => Retrying(task[t]) /\ task[t].todo = {}
                /\ task[t].op # "failed" => ~Retrying(task[t])
                /\ task[t].op = "failed" \/ task[t].err = "permanent" => g.pc = "scan"
                /\ ~(task[t].op = "failed" \/ task[t].err = "permanent")
                     => g.pc = "next" /\ MaxFaults # 0
                /\ task[t].pc = "suberr"
<1> DEFINE f == task[t]
           giveUp == f.op = "failed" \/ f.err = "permanent"
           g == [f EXCEPT !.pc = IF giveUp THEN "scan" ELSE "next", !.err = "none"]
<1>1. /\ f \in Frame /\ FrameOK(f) /\ Place(t, f) /\ f.pc = "suberr" /\ Step(t, g)
  BY DEF FrameInv, TypeInv, TypeOK, At, SubmissionError
<1>2. /\ Submits(f) /\ f.node \in Node \ f.todo /\ (f.op = "failed" => f.todo = {})
      /\ f.op \in {"submit", "completed", "failed"} /\ Refused(f)
  BY <1>1 DEF FrameOK, Submits, Refused
<1>3. (Retrying(f) <=> f.op = "failed") /\ (~giveUp => MaxFaults # 0)
  BY <1>1, <1>2 DEF Retrying, FrameOK
<1>4. /\ g.pc = (IF giveUp THEN "scan" ELSE "next")
      /\ g.todo = f.todo /\ g.op = f.op /\ g.node = f.node /\ g.event = f.event
  BY <1>1 DEF Frame
<1> HIDE DEF g
<1>5. ~Submits(g) /\ ~Retrying(g) /\ Claims(g) = f.todo
  BY <1>4 DEF Submits, Refused, Retrying, Claims
<1>6. FrameOK(g)
  BY <1>1, <1>2, <1>3, <1>4, <1>5 DEF FrameOK, Refused
<1>7. Place(t, g)
  BY <1>1, <1>2, <1>4, Distinct DEF Place
<1>8. QED
  BY <1>1, <1>2, <1>3, <1>4, <1>5, <1>6, <1>7

\* skip_downstream collects,
LEMMA CollectFrame ==
  ASSUME TypeInv, FrameInv, NEW t \in Task, CollectDownstream(t)
  PROVE  \E g : /\ Step(t, g) /\ FrameOK(g) /\ Place(t, g)
                /\ task[t].node \in Node /\ Claims(g) = Claims(task[t]) /\ ~Retrying(g)
                /\ ~Retrying(task[t])
                /\ task[t].pc = "scan" /\ g.pc = "mark"
                /\ g.skip = PendingBelow(status, {task[t].node})
<1> DEFINE f == task[t]
           g == [f EXCEPT !.pc = "mark", !.skip = PendingBelow(status, {f.node})]
<1>1. /\ f \in Frame /\ FrameOK(f) /\ Place(t, f) /\ f.pc = "scan" /\ Step(t, g)
  BY DEF FrameInv, TypeInv, TypeOK, At, CollectDownstream
<1>2. /\ g.pc = "mark" /\ g.skip = PendingBelow(status, {f.node})
      /\ g.todo = f.todo /\ g.op = f.op /\ g.node = f.node /\ g.event = f.event
  BY <1>1 DEF Frame
<1> HIDE DEF g
<1>3. ~Submits(g) /\ ~Retrying(g) /\ ~Submits(f) /\ ~Retrying(f) /\ Claims(g) = Claims(f)
  BY <1>1, <1>2 DEF Submits, Refused, Retrying, Claims
<1>4. FrameOK(g) /\ f.node \in Node
  BY <1>1, <1>2, <1>3 DEF FrameOK, Refused
<1>5. Place(t, g)
  BY <1>1, <1>2, Distinct DEF Place
<1>6. QED
  BY <1>1, <1>2, <1>3, <1>4, <1>5

\* and skips.
LEMMA SkipFrame ==
  ASSUME TypeInv, FrameInv, NEW t \in Task, SkipCollected(t)
  PROVE  \E g : /\ Step(t, g) /\ FrameOK(g) /\ Place(t, g)
                /\ Claims(g) = Claims(task[t]) /\ ~Retrying(g) /\ ~Retrying(task[t])
                /\ task[t].pc = "mark" /\ g.pc \in {"save", "next"}
<1> DEFINE f == task[t]
           h == [f EXCEPT !.skip = {}]
           g == [h EXCEPT !.pc = IF f.op = "failed" THEN "save" ELSE "next"]
<1>1. /\ f \in Frame /\ FrameOK(f) /\ Place(t, f) /\ f.pc = "mark" /\ Step(t, g)
  BY DEF FrameInv, TypeInv, TypeOK, At, SkipCollected
<1>2. h \in Frame /\ h.todo = f.todo /\ h.op = f.op /\ h.node = f.node /\ h.event = f.event
  BY <1>1 DEF Frame
<1> HIDE DEF h
<1>3. /\ g.pc = (IF f.op = "failed" THEN "save" ELSE "next")
      /\ g.todo = f.todo /\ g.op = f.op /\ g.node = f.node /\ g.event = f.event
  BY <1>2 DEF Frame
<1> HIDE DEF g
<1>4. ~Submits(g) /\ ~Retrying(g) /\ ~Submits(f) /\ ~Retrying(f) /\ Claims(g) = Claims(f)
  BY <1>1, <1>3 DEF Submits, Refused, Retrying, Claims
<1>5. f.op \in {"submit", "completed", "failed"} /\ (f.op = "failed" => f.todo = {})
  BY <1>1 DEF FrameOK
<1>6. FrameOK(g)
  BY <1>3, <1>4, <1>5 DEF FrameOK, Refused
<1>7. Place(t, g)
  BY <1>1, <1>3, Distinct DEF Place
<1>8. QED
  BY <1>1, <1>3, <1>4, <1>6, <1>7

\* The failure of a node is handled: it is ignored,
LEMMA IgnoredFailureIsCalm ==
  ASSUME TypeInv, FrameInv, NEW t \in Task, At(t, "failing"), Return(t, task[t])
  PROVE  CalmMove
<1> DEFINE f == task[t]
           g == Returned(t, f)
<1>1. /\ f \in Frame /\ FrameOK(f) /\ Place(t, f) /\ f.pc = "failing" /\ Step(t, g)
  BY DEF FrameInv, TypeInv, TypeOK, At, Return
<1>2. f.todo = {} /\ ~Retrying(f)
  BY <1>1 DEF FrameOK, Submits, Refused, Retrying
<1>3. /\ FrameOK(g) /\ Place(t, g)
      /\ Claims(g) = {} /\ ~Retrying(g)
      /\ g.pc \in {"ack", "nak", "victims", "idle", "off"}
      /\ t = Submitter => g.pc = "off"
      /\ t = Canceller => g.pc = "off"
  BY <1>1, <1>2, ReturnedIsCalm
<1> HIDE DEF g
<1>4. Calm(t, f, g)
  BY <1>1, <1>2, <1>3, Distinct DEF Calm
<1>5. QED
  BY <1>1, <1>3, <1>4, CalmStep

\* or the node waits for its retry, or fails.
LEMMA ClaimFailureFrame ==
  ASSUME TypeInv, FrameInv, NEW t \in Task, At(t, "failing"), NEW pc \in {"backoff", "confirm"},
         Goto(t, pc), pc = "backoff" => ~NoRetries
  PROVE  \E g : /\ Step(t, g) /\ FrameOK(g) /\ Place(t, g)
                /\ task[t].node \in Node /\ g.node = task[t].node /\ Claims(g) = {}
                /\ ~Retrying(task[t]) /\ (Retrying(g) <=> pc = "backoff")
                /\ task[t].pc = "failing" /\ g.pc = pc
                /\ t \in {Listener, StallTimer} \cup Watcher
                /\ t = StallTimer => HasStallTimeout
<1> DEFINE f == task[t]
           g == [f EXCEPT !.pc = pc]
<1>1. /\ f \in Frame /\ FrameOK(f) /\ Place(t, f) /\ f.pc = "failing" /\ Step(t, g)
      /\ f.node \in Node /\ f.op = "failed"
  BY DEF FrameInv, TypeInv, TypeOK, At, Goto, FrameOK
<1>2. f.todo = {} /\ ~Retrying(f)
  BY <1>1 DEF FrameOK, Submits, Refused, Retrying
<1>3. g.pc = pc /\ g.todo = {} /\ g.op = f.op /\ g.node = f.node /\ g.event = f.event
  BY <1>1, <1>2 DEF Frame
<1> HIDE DEF g
<1>4. ~Submits(g) /\ (Retrying(g) <=> pc = "backoff") /\ Claims(g) = {}
  BY <1>3 DEF Submits, Refused, Retrying, Claims
<1>5. FrameOK(g)
  BY <1>1, <1>3, <1>4 DEF FrameOK, Refused
<1>6. t \in {Listener, StallTimer} \cup Watcher /\ (t = StallTimer => HasStallTimeout)
  BY <1>1, Distinct DEF Place, Task
<1>7. Place(t, g)
  BY <1>1, <1>3, <1>6, Distinct DEF Place
<1>8. QED
  BY <1>1, <1>2, <1>3, <1>4, <1>5, <1>6, <1>7

\* The second update of a Failed node.
LEMMA ConfirmFrame ==
  ASSUME TypeInv, FrameInv, NEW t \in Task, ConfirmFailed(t)
  PROVE  \E g : /\ Step(t, g) /\ FrameOK(g) /\ Place(t, g)
                /\ g.node = task[t].node /\ Claims(g) = Claims(task[t])
                /\ ~Retrying(task[t]) /\ ~Retrying(g) /\ task[t].node \in Node
                /\ task[t].pc = "confirm" /\ g.pc = "scan"
<1> DEFINE f == task[t]
           g == [f EXCEPT !.pc = "scan"]
<1>1. /\ f \in Frame /\ FrameOK(f) /\ Place(t, f) /\ f.pc = "confirm" /\ Step(t, g)
      /\ f.node \in Node /\ f.op = "failed"
  BY DEF FrameInv, TypeInv, TypeOK, At, Goto, FrameOK, ConfirmFailed
<1>2. g.pc = "scan" /\ g.todo = f.todo /\ g.op = f.op /\ g.node = f.node /\ g.event = f.event
  BY <1>1 DEF Frame
<1> HIDE DEF g
<1>3. ~Submits(g) /\ ~Retrying(g) /\ ~Submits(f) /\ ~Retrying(f) /\ Claims(g) = Claims(f)
  BY <1>1, <1>2 DEF Submits, Refused, Retrying, Claims
<1>4. FrameOK(g)
  BY <1>1, <1>2, <1>3 DEF FrameOK, Refused
<1>5. Place(t, g)
  BY <1>1, <1>2, Distinct DEF Place
<1>6. QED
  BY <1>1, <1>2, <1>3, <1>4, <1>5

\* A retry is marked Running, which ends its handler.
LEMMA MarkRetryFrame ==
  ASSUME TypeInv, FrameInv, NEW t \in Task, MarkRetryRunning(t)
  PROVE  \E g : /\ Step(t, g) /\ FrameOK(g) /\ Place(t, g)
                /\ Claims(g) = {} /\ Retrying(task[t]) /\ ~Retrying(g) /\ task[t].node \in Node
                /\ task[t].pc = "running" /\ g.pc \in {"ack", "nak", "victims", "idle", "off"}
                /\ t = Submitter => g.pc = "off"
                /\ t = Canceller => g.pc = "off"
<1> DEFINE f == task[t]
           g == Returned(t, f)
<1>1. /\ f \in Frame /\ FrameOK(f) /\ Place(t, f) /\ f.pc = "running" /\ Step(t, g)
      /\ f.node \in Node
  BY DEF FrameInv, TypeInv, TypeOK, At, Return, FrameOK, MarkRetryRunning
<1>2. f.todo = {} /\ Retrying(f)
  BY <1>1 DEF FrameOK, Submits, Refused, Retrying
<1>3. /\ FrameOK(g) /\ Place(t, g)
      /\ Claims(g) = {} /\ ~Retrying(g)
      /\ g.pc \in {"ack", "nak", "victims", "idle", "off"}
      /\ t = Submitter => g.pc = "off"
      /\ t = Canceller => g.pc = "off"
  BY <1>1, <1>2, ReturnedIsCalm
<1> HIDE DEF g
<1>4. QED
  BY <1>1, <1>2, <1>3

-----------------------------------------------------------------------------
(* The first invariants are kept. *)

\* Every step is a calm one that leaves the graph and the sent nodes alone, or
\* one of those that claim, send, fail or skip nodes.
LEMMA CalmOrNot ==
  ASSUME TypeInv, FrameInv, HistoryInv, TimersInv, [Next]_vars
  PROVE  \/ CalmMove /\ UNCHANGED <<status, retries, dispatched>>
         \/ \E t \in Task :
              \/ ClaimReady(t) \/ CompleteNode(t) \/ PublishTaskSubmit(t) \/ SubmissionError(t)
              \/ CollectDownstream(t) \/ SkipCollected(t)
              \/ ClaimFailure(t) \/ ConfirmFailed(t) \/ MarkRetryRunning(t)
              \/ VictimsFailed(t) \/ CancelStatuses(t)
<1>1. ASSUME Environment \/ UNCHANGED vars
      PROVE  CalmMove /\ UNCHANGED <<status, retries, dispatched>>
  BY <1>1 DEF Environment, ExecutionCompletes, ExecutionFails, WatcherExits, DeadlinePasses,
              ProgressGoesStale, vars, graphVars, busVars, CalmMove
<1>2. ASSUME NEW t \in Task, HandlerStart(t)
      PROVE  CalmMove /\ UNCHANGED <<status, retries, dispatched>>
  <2>1. UNCHANGED <<status, retries, dispatched>>
    BY <1>2 DEF HandlerStart, SubmitGraph, OnNodeCompleted, IdleTimeout, DagTimeout, StallPoll,
                TimerExits, Cancel, graphVars, busVars
  <2>2. CalmMove
    BY <1>2, CalmSubmitGraph, CalmMessage, CalmWatchers DEF HandlerStart
  <2>3. QED
    BY <2>1, <2>2
<1>3. ASSUME NEW t \in Task, NEW n \in Node, Peek(t, n) \/ OnNodeFailed(t, n)
      PROVE  CalmMove /\ UNCHANGED <<status, retries, dispatched>>
  BY <1>3, CalmSubmission, CalmMessage DEF Peek, OnNodeFailed, graphVars, busVars
<1>4. ASSUME NEW t \in Task, SubmittedAll(t) \/ TryConsumeBudget(t) \/ SubmissionFault(t)
      PROVE  CalmMove /\ UNCHANGED <<status, retries, dispatched>>
  BY <1>4, CalmSubmission DEF SubmittedAll, TryConsumeBudget, SubmissionFault, graphVars, busVars
<1>5. ASSUME NEW t \in Task,
             \/ SaveGraph(t) \/ SaveFault(t) \/ SwapFinalized(t) \/ NotTerminal(t) \/ ReleaseGate(t)
             \/ Acknowledge(t) \/ Redelivery(t) \/ DeliveriesExhausted(t)
             \/ RetryAfterBackoff(t) \/ PublishDagComplete(t)
      PROVE  CalmMove /\ UNCHANGED <<status, retries, dispatched>>
  BY <1>5, CalmEnd
     DEF SaveGraph, SaveFault, SwapFinalized, NotTerminal, ReleaseGate, Acknowledge, Redelivery,
         DeliveriesExhausted, RetryAfterBackoff, PublishDagComplete, graphVars, busVars
<1>6. ASSUME NEW t \in Task, NEW v \in Node \X TaskStatus,
             FailNextVictim(t, v) \/ CancelNextVictim(t, v)
      PROVE  CalmMove /\ UNCHANGED <<status, retries, dispatched>>
  BY <1>6, CalmWatchers DEF FailNextVictim, CancelNextVictim, graphVars
<1>7. QED
  BY <1>1, <1>2, <1>3, <1>4, <1>5, <1>6 DEF Next, HandlerStep, LocalStep

LEMMA FrameNext ==
  ASSUME TypeInv, FrameInv, HistoryInv, TimersInv, [Next]_vars
  PROVE  FrameInv'
<1>1. deadlinePassed => deadlinePassed'
  BY DeadlineStays
<1>2. ASSUME CalmMove PROVE FrameInv'
  BY <1>1, <1>2, FrameKeptCalm
<1>3. ASSUME NEW t \in Task, \E g : Step(t, g) /\ FrameOK(g) /\ Place(t, g) PROVE FrameInv'
  BY <1>1, <1>3, FrameKept
<1>4. ASSUME NEW t \in Task, ClaimReady(t) PROVE FrameInv'
  <2>1. PICK C \in SUBSET Node : Step(t, [task[t] EXCEPT !.pc = "next", !.todo = C])
    <3>1. ReadyTasks(status) \subseteq Node
      BY DEF ReadyTasks, InStatus
    <3>2. QED
      BY <1>4, <3>1 DEF ClaimReady
  <2>2. At(t, "claim")
    BY <1>4 DEF ClaimReady
  <2>3. QED
    BY <1>3, <2>1, <2>2, ClaimFrame
<1>5. ASSUME NEW t \in Task, CompleteNode(t) PROVE FrameInv'
  <2>1. At(t, "complete") /\ t = Listener
    BY <1>5 DEF CompleteNode
  <2>2. \/ Goto(t, "ack")
        \/ \E C \in SUBSET Node : Step(t, [task[t] EXCEPT !.pc = "next", !.todo = C])
    <3>1. \A st : ClaimedBy(t, st) \in SUBSET Node
      BY DEF ClaimedBy, ReadyTasks, InStatus
    <3>2. QED
      BY <1>5, <3>1 DEF CompleteNode
  <2>3. QED
    BY <1>2, <1>3, <2>1, <2>2, ClaimFrame, LateCompletionIsCalm
<1>6. ASSUME NEW t \in Task, ClaimFailure(t) PROVE FrameInv'
  <2>1. At(t, "failing")
    BY <1>6 DEF ClaimFailure
  <2>2. task[t].node \in Node
    BY <2>1 DEF FrameInv, FrameOK, At
  <2>3. MayRetry(task[t].node) => ~NoRetries
    BY <2>2 DEF MayRetry, NoRetries, TypeInv, TypeOK
  <2>4. \/ Return(t, task[t])
        \/ Goto(t, "backoff") /\ ~NoRetries
        \/ Goto(t, "confirm")
    BY <1>6, <2>3 DEF ClaimFailure
  <2>5. CASE Return(t, task[t])
    BY <1>2, <2>1, <2>5, IgnoredFailureIsCalm
  <2>6. ASSUME NEW pc \in {"backoff", "confirm"}, Goto(t, pc), pc = "backoff" => ~NoRetries
        PROVE  FrameInv'
    <3>1. \E g : Step(t, g) /\ FrameOK(g) /\ Place(t, g)
      BY <2>1, <2>6, ClaimFailureFrame
    <3>2. QED
      BY <1>3, <3>1
  <2>7. QED
    BY <2>4, <2>5, <2>6
<1>7. ASSUME NEW t \in Task,
             \/ PublishTaskSubmit(t) \/ SubmissionError(t)
             \/ CollectDownstream(t) \/ SkipCollected(t)
             \/ ConfirmFailed(t) \/ MarkRetryRunning(t)
      PROVE  FrameInv'
  <2>1. \E g : Step(t, g) /\ FrameOK(g) /\ Place(t, g)
    <3>1. PublishTaskSubmit(t) => \E g : Step(t, g) /\ FrameOK(g) /\ Place(t, g)
      BY PublishFrame
    <3>2. SubmissionError(t) => \E g : Step(t, g) /\ FrameOK(g) /\ Place(t, g)
      BY SubmissionErrorFrame
    <3>3. CollectDownstream(t) => \E g : Step(t, g) /\ FrameOK(g) /\ Place(t, g)
      BY CollectFrame
    <3>4. SkipCollected(t) => \E g : Step(t, g) /\ FrameOK(g) /\ Place(t, g)
      BY SkipFrame
    <3>5. ConfirmFailed(t) => \E g : Step(t, g) /\ FrameOK(g) /\ Place(t, g)
      BY ConfirmFrame
    <3>6. MarkRetryRunning(t) => \E g : Step(t, g) /\ FrameOK(g) /\ Place(t, g)
      BY MarkRetryFrame
    <3>7. QED
      BY <1>7, <3>1, <3>2, <3>3, <3>4, <3>5, <3>6
  <2>2. QED
    BY <1>3, <2>1
<1>8. ASSUME NEW t \in Task, VictimsFailed(t) \/ CancelStatuses(t) PROVE FrameInv'
  BY <1>2, <1>8, CalmVictims
<1>9. QED
  BY <1>2, <1>4, <1>5, <1>6, <1>7, <1>8, CalmOrNot

\* submit_graph does not begin twice, and no timer acts before it is armed.
LEMMA TimersNext ==
  ASSUME TypeInv, FrameInv, HistoryInv, TimersInv, [Next]_vars
  PROVE  TimersInv'
<1> SUFFICES ASSUME task'[Submitter].pc = "idle"
             PROVE  task'[DagTimer].pc = "off" /\ task'[StallTimer].pc = "off"
  BY DEF TimersInv, At
<1>1. CASE CalmMove
  BY <1>1, Distinct DEF CalmMove, Calm, TimersInv, At
<1>2. ASSUME NEW t \in Task, NEW g, Step(t, g), task[t].pc \notin {"idle", "off"},
             t = Submitter => g.pc # "idle"
      PROVE  task'[DagTimer].pc = "off" /\ task'[StallTimer].pc = "off"
  <2>1. \A u \in Task : task'[u] = IF u = t THEN g ELSE task[u]
    BY <1>2 DEF Step, TypeInv, TypeOK
  <2>2. task[Submitter].pc = "idle" /\ t # Submitter
    BY <1>2, <2>1, Distinct
  <2>3. QED
    BY <1>2, <2>1, <2>2, Distinct DEF TimersInv, At
<1>3. ASSUME NEW t \in Task, NEW C \in SUBSET Node, At(t, "claim") \/ At(t, "complete"),
             Step(t, [task[t] EXCEPT !.pc = "next", !.todo = C])
      PROVE  task'[DagTimer].pc = "off" /\ task'[StallTimer].pc = "off"
  BY <1>2, <1>3, ClaimFrame DEF At
<1>4. ASSUME NEW t \in Task, ClaimReady(t)
      PROVE  task'[DagTimer].pc = "off" /\ task'[StallTimer].pc = "off"
  <2>1. ReadyTasks(status) \subseteq Node
    BY DEF ReadyTasks, InStatus
  <2>2. QED
    BY <1>3, <1>4, <2>1 DEF ClaimReady
<1>5. ASSUME NEW t \in Task, CompleteNode(t)
      PROVE  task'[DagTimer].pc = "off" /\ task'[StallTimer].pc = "off"
  <2>1. \A st : ClaimedBy(t, st) \in SUBSET Node
    BY DEF ClaimedBy, ReadyTasks, InStatus
  <2>2. At(t, "complete") /\ t = Listener
    BY <1>5 DEF CompleteNode
  <2>3. CASE Goto(t, "ack")
    BY <1>1, <2>2, <2>3, LateCompletionIsCalm
  <2>4. QED
    BY <1>3, <1>5, <2>1, <2>2, <2>3 DEF CompleteNode
<1>6. ASSUME NEW t \in Task, ClaimFailure(t)
      PROVE  task'[DagTimer].pc = "off" /\ task'[StallTimer].pc = "off"
  <2>1. At(t, "failing") /\ (Return(t, task[t]) \/ Goto(t, "backoff") \/ Goto(t, "confirm"))
    BY <1>6 DEF ClaimFailure
  <2>2. CASE Return(t, task[t])
    BY <1>1, <2>1, <2>2, IgnoredFailureIsCalm
  <2>3. ASSUME NEW pc \in {"backoff", "confirm"}, Goto(t, pc)
        PROVE  task'[DagTimer].pc = "off" /\ task'[StallTimer].pc = "off"
    <3>1. [task[t] EXCEPT !.pc = pc].pc = pc
      BY DEF TypeInv, TypeOK, Frame
    <3>2. QED
      BY <1>2, <2>1, <2>3, <3>1 DEF Goto, At
  <2>4. QED
    BY <2>1, <2>2, <2>3
<1>7. ASSUME NEW t \in Task,
             \/ PublishTaskSubmit(t) \/ SubmissionError(t)
             \/ CollectDownstream(t) \/ SkipCollected(t)
             \/ ConfirmFailed(t) \/ MarkRetryRunning(t)
      PROVE  task'[DagTimer].pc = "off" /\ task'[StallTimer].pc = "off"
  <2>1. CASE PublishTaskSubmit(t)
    BY <1>2, <2>1, PublishFrame
  <2>2. CASE SubmissionError(t)
    BY <1>2, <2>2, SubmissionErrorFrame
  <2>3. CASE CollectDownstream(t)
    BY <1>2, <2>3, CollectFrame
  <2>4. CASE SkipCollected(t)
    BY <1>2, <2>4, SkipFrame
  <2>5. CASE ConfirmFailed(t)
    BY <1>2, <2>5, ConfirmFrame
  <2>6. CASE MarkRetryRunning(t)
    BY <1>2, <2>6, MarkRetryFrame
  <2>7. QED
    BY <1>7, <2>1, <2>2, <2>3, <2>4, <2>5, <2>6
<1>8. ASSUME NEW t \in Task, VictimsFailed(t) \/ CancelStatuses(t)
      PROVE  task'[DagTimer].pc = "off" /\ task'[StallTimer].pc = "off"
  BY <1>1, <1>8, CalmVictims
<1>9. QED
  BY <1>1, <1>4, <1>5, <1>6, <1>7, <1>8, CalmOrNot

\* A node that was not sent has no history after a step either.
LEMMA HistoryNext == ASSUME TypeInv, HistoryInv, [Next]_vars PROVE HistoryInv'
<1> SUFFICES ASSUME NEW n \in Node, dispatched'[n] = 0
             PROVE  /\ outstanding'[n] = 0 /\ completions'[n] = 0 /\ failures'[n] = 0
                    /\ n \notin armed' /\ stray'[n] = 0
  BY DEF HistoryInv
<1> USE DEF TypeInv, TypeOK
<1>1. CASE UNCHANGED <<busVars, watchVars>>
  BY <1>1 DEF HistoryInv, busVars, watchVars
<1>2. ASSUME UNCHANGED <<busVars, stray>>, armed' \subseteq armed
      PROVE  /\ outstanding'[n] = 0 /\ completions'[n] = 0 /\ failures'[n] = 0
             /\ n \notin armed' /\ stray'[n] = 0
  BY <1>2 DEF HistoryInv, busVars
<1>3. ASSUME NEW t \in Task, PublishTaskSubmit(t)
      PROVE  /\ outstanding'[n] = 0 /\ completions'[n] = 0 /\ failures'[n] = 0
             /\ n \notin armed' /\ stray'[n] = 0
  <2>1. n # task[t].node /\ dispatched[n] = 0
    BY <1>3, SMTT(30) DEF PublishTaskSubmit
  <2>2. QED
    BY <1>3, <2>1, SMTT(30) DEF PublishTaskSubmit, HistoryInv
<1>4. ASSUME NEW t \in Task, NEW v \in Node \X TaskStatus, FailNextVictim(t, v) \/ CancelNextVictim(t, v)
      PROVE  /\ outstanding'[n] = 0 /\ completions'[n] = 0 /\ failures'[n] = 0
             /\ n \notin armed' /\ stray'[n] = 0
  <2>1. dispatched[n] = 0 /\ UNCHANGED <<completions, failures, stray>> /\ armed' \subseteq armed
    BY <1>4 DEF FailNextVictim, CancelNextVictim, CancelExecution
  <2>2. \/ UNCHANGED outstanding
        \/ \E left \in 0..outstanding[v[1]] : outstanding' = [outstanding EXCEPT ![v[1]] = left]
    BY <1>4 DEF FailNextVictim, CancelNextVictim, CancelExecution
  <2>3. outstanding'[n] = 0
    BY <2>1, <2>2 DEF HistoryInv
  <2>4. QED
    BY <2>1, <2>3 DEF HistoryInv
<1>5. ASSUME NEW t \in Task, Acknowledge(t) \/ DeliveriesExhausted(t)
      PROVE  /\ outstanding'[n] = 0 /\ completions'[n] = 0 /\ failures'[n] = 0
             /\ n \notin armed' /\ stray'[n] = 0
  <2>1. UNCHANGED <<dispatched, outstanding, armed, stray>> /\ Consume(task[Listener].event)
    BY <1>5 DEF Acknowledge, DeliveriesExhausted, watchVars
  <2>2. MessageInStream(task[Listener])
    BY <1>5 DEF TasksOK, ListenerFrame, Acknowledge, DeliveriesExhausted, At
  <2>3. dispatched[n] = 0
    BY <2>1
  <2>4. CASE task[Listener].op = "completed"
    BY <2>1, <2>2, <2>3, <2>4 DEF Consume, HistoryInv, MessageInStream
  <2>5. CASE task[Listener].op # "completed"
    BY <2>1, <2>2, <2>3, <2>5 DEF Consume, HistoryInv, MessageInStream
  <2>6. QED
    BY <2>4, <2>5
<1>6. ASSUME NEW m \in Node, ExecutionCompletes(m) \/ ExecutionFails(m)
      PROVE  /\ outstanding'[n] = 0 /\ completions'[n] = 0 /\ failures'[n] = 0
             /\ n \notin armed' /\ stray'[n] = 0
  BY <1>6, SMTT(30) DEF ExecutionCompletes, ExecutionFails, HistoryInv, watchVars
<1>7. ASSUME NEW m \in Node, WatcherExits(m) \/ \E t \in Task : IdleTimeout(t, m)
      PROVE  /\ outstanding'[n] = 0 /\ completions'[n] = 0 /\ failures'[n] = 0
             /\ n \notin armed' /\ stray'[n] = 0
  <2>1. UNCHANGED busVars /\ armed' \subseteq armed /\ dispatched[n] = 0
    BY <1>7 DEF WatcherExits, IdleTimeout, busVars
  <2>2. \/ UNCHANGED stray
        \/ stray[m] > 0 /\ \E k : stray' = [stray EXCEPT ![m] = k]
    BY <1>7 DEF WatcherExits, IdleTimeout
  <2>3. stray'[n] = 0
    BY <2>1, <2>2 DEF HistoryInv
  <2>4. QED
    BY <2>1, <2>3 DEF HistoryInv, busVars
<1>8. ASSUME NEW t \in Task, CompleteNode(t) \/ ClaimFailure(t)
      PROVE  UNCHANGED <<busVars, stray>> /\ armed' \subseteq armed
  BY <1>8 DEF CompleteNode, ClaimFailure
<1>9. ASSUME NEW t \in Task,
             \/ SubmitGraph(t) \/ (\E m \in Node : OnNodeCompleted(t, m))
             \/ DagTimeout(t) \/ StallPoll(t) \/ TimerExits(t) \/ Cancel(t)
      PROVE  UNCHANGED <<busVars, watchVars>>
  BY <1>9 DEF SubmitGraph, OnNodeCompleted, DagTimeout, StallPoll, TimerExits, Cancel
<1>10. ASSUME NEW t \in Task, LocalStep(t), ~Acknowledge(t), ~DeliveriesExhausted(t)
       PROVE  UNCHANGED <<busVars, watchVars>>
  BY <1>10
     DEF LocalStep, ClaimReady, SubmittedAll, Peek, OnNodeFailed, TryConsumeBudget,
         SubmissionFault, CollectDownstream, SkipCollected, ConfirmFailed, RetryAfterBackoff,
         MarkRetryRunning, SaveGraph, SaveFault, SwapFinalized, PublishDagComplete, NotTerminal,
         ReleaseGate, VictimsFailed, CancelStatuses, Redelivery
<1>11. ASSUME NEW t \in Task, SubmissionError(t)
       PROVE  UNCHANGED <<busVars, watchVars>>
  BY <1>11 DEF SubmissionError
<1>12. ASSUME DeadlinePasses \/ ProgressGoesStale \/ UNCHANGED vars
       PROVE  UNCHANGED <<busVars, watchVars>>
  BY <1>12 DEF DeadlinePasses, ProgressGoesStale, vars
<1>13. QED
  BY <1>1, <1>2, <1>3, <1>4, <1>5, <1>6, <1>7, <1>8, <1>9, <1>10, <1>11, <1>12
     DEF Next, Environment, HandlerStart, HandlerStep

-----------------------------------------------------------------------------
(* The invariant of the claims. *)

\* What the tasks hold are nodes.
LEMMA HeldAreNodes ==
  ASSUME TypeInv, FrameInv, NEW u \in Task
  PROVE  /\ Claims(task[u]) \subseteq Node
         /\ Retrying(task[u]) => task[u].node \in Node
         /\ task[u].pc \in {"fail", "failing", "confirm", "scan"} => task[u].node \in Node
<1>1. task[u] \in Frame /\ FrameOK(task[u])
  BY DEF TypeInv, TypeOK, FrameInv
<1>2. task[u].todo \subseteq Node
  BY <1>1 DEF Frame
<1>3. Submits(task[u]) => task[u].node \in Node
  BY <1>1 DEF FrameOK
<1>4. QED
  BY <1>1, <1>2, <1>3 DEF FrameOK, Claims, Retrying

\* A calm step keeps it, also one that skips Pending nodes and fails Running ones.
LEMMA ClaimsCalm ==
  ASSUME TypeInv, FrameInv, ClaimInv, CalmMove, UNCHANGED <<dispatched, retries>>,
         \A n \in Node : \/ status'[n] = status[n]
                         \/ status[n] = "Pending" /\ status'[n] = "Skipped"
                         \/ status[n] = "Running" /\ status'[n] = "Failed"
  PROVE  ClaimInv'
<1>1. \A u \in Task : /\ Claims(task'[u]) \subseteq Claims(task[u])
                      /\ Retrying(task'[u]) => /\ Retrying(task[u])
                                               /\ task'[u].node = task[u].node
                                               /\ task'[u].pc = task[u].pc \/ task[u].pc # "running"
  BY DEF CalmMove, Calm
<1>2. \A u \in Task : Retrying(task[u]) /\ status[task[u].node] = "Pending"
        => Retrying(task'[u]) /\ task'[u].node = task[u].node
  BY DEF CalmMove, Calm
<1>3. SentInv'
  BY DEF ClaimInv, SentInv, NoDoubleExecution, InStatus
<1>4. HeldInv'
  <2>1. ASSUME NEW u \in Task, NEW n \in Claims(task'[u])
        PROVE  dispatched'[n] = 0 /\ status'[n] \in {"Running", "Failed"}
    <3>1. dispatched[n] = 0 /\ status[n] \in {"Running", "Failed"}
      BY <1>1, <2>1 DEF ClaimInv, HeldInv
    <3>2. n \in Node
      BY <1>1, <2>1, HeldAreNodes
    <3>3. QED
      BY <3>1, <3>2
  <2>2. ASSUME NEW u \in Task, NEW w \in Task, u # w
        PROVE  Claims(task'[u]) \cap Claims(task'[w]) = {}
    <3>1. Claims(task[u]) \cap Claims(task[w]) = {}
      BY <2>2 DEF ClaimInv, HeldInv
    <3>2. QED
      BY <1>1, <3>1
  <2>3. QED
    BY <2>1, <2>2 DEF HeldInv
<1>5. RetryInv'
  <2> SUFFICES ASSUME NEW u \in Task, Retrying(task'[u])
               PROVE  LET n == task'[u].node
                      IN  /\ u = Listener
                          /\ dispatched'[n] > 0 /\ status'[n] \in {"Pending", "Skipped"}
                          /\ task'[u].pc # "running" => dispatched'[n] <= retries'[n]
    BY DEF RetryInv
  <2>1. Retrying(task[u]) /\ task'[u].node = task[u].node
    BY <1>1
  <2>2. /\ u = Listener
        /\ dispatched[task[u].node] > 0 /\ status[task[u].node] \in {"Pending", "Skipped"}
        /\ task[u].pc # "running" => dispatched[task[u].node] <= retries[task[u].node]
    BY <2>1 DEF ClaimInv, RetryInv
  <2>3. task'[u].pc # "running" => task[u].pc # "running"
    BY <1>1
  <2>4. status'[task[u].node] \in {"Pending", "Skipped"}
    BY <2>1, <2>2, HeldAreNodes
  <2>5. QED
    BY <2>1, <2>2, <2>3, <2>4
<1>6. PendingInv'
  <2> SUFFICES ASSUME NEW n \in Node, status'[n] = "Pending"
               PROVE  dispatched'[n] = 0 \/ (Retrying(task'[Listener]) /\ task'[Listener].node = n)
    BY DEF PendingInv, InStatus
  <2>1. status[n] = "Pending"
    OBVIOUS
  <2>2. dispatched[n] = 0 \/ (Retrying(task[Listener]) /\ task[Listener].node = n)
    BY <2>1 DEF ClaimInv, PendingInv, InStatus
  <2>3. QED
    BY <1>2, <2>1, <2>2, Distinct
<1>7. FailingInv'
  <2>1. ASSUME NEW u \in Task, task'[u].pc = "confirm" PROVE status'[task'[u].node] = "Failed"
    <3>1. task'[u] = task[u] /\ task[u].pc = "confirm"
      BY <2>1 DEF CalmMove, Calm
    <3>2. status[task[u].node] = "Failed" /\ task[u].node \in Node
      BY <3>1, HeldAreNodes DEF ClaimInv, FailingInv, At
    <3>3. QED
      BY <3>1, <3>2
  <2>2. ASSUME NEW u \in Task, task'[u].pc \in {"fail", "failing", "confirm"}
        PROVE  u = DagTimer \/ HasStallTimeout \/ dispatched'[task'[u].node] > 0
    <3>1. \/ task[u].pc \in {"fail", "failing", "confirm"} /\ task'[u].node = task[u].node
          \/ u = DagTimer \/ HasStallTimeout \/ dispatched[task'[u].node] > 0
      BY <2>2 DEF CalmMove, Calm
    <3>2. QED
      BY <3>1 DEF ClaimInv, FailingInv
  <2>3. QED
    BY <2>1, <2>2 DEF FailingInv, At
<1>8. QuietInv'
  <2> SUFFICES ASSUME task'[Submitter].pc \in {"idle", "claim"}
               PROVE  /\ task'[Listener].pc = "idle"
                      /\ \A n \in Node : dispatched'[n] = 0 /\ status'[n] \in {"Pending", "Skipped"}
    BY DEF QuietInv, At
  <2>1. task[Submitter].pc \in {"idle", "claim"}
    BY Distinct DEF CalmMove, Calm
  <2>2. /\ task[Listener].pc = "idle"
        /\ \A n \in Node : dispatched[n] = 0 /\ status[n] \in {"Pending", "Skipped"}
    BY <2>1 DEF ClaimInv, QuietInv, At
  <2>3. task'[Listener].pc = "idle"
    BY <2>2, Distinct DEF CalmMove, Calm
  <2>4. QED
    BY <2>2, <2>3
<1>9. QED
  BY <1>3, <1>4, <1>5, <1>6, <1>7, <1>8 DEF ClaimInv

\* Before submit_graph has claimed the ready nodes nobody holds anything.
LEMMA QuietHolds ==
  ASSUME TypeInv, FrameInv, ClaimInv, task[Submitter].pc \in {"idle", "claim"}
  PROVE  /\ \A u \in Task : Claims(task[u]) = {} /\ ~Retrying(task[u])
         /\ At(Listener, "idle")
         /\ \A n \in Node : dispatched[n] = 0 /\ status[n] \in {"Pending", "Skipped"}
<1>1. /\ At(Listener, "idle")
      /\ \A n \in Node : dispatched[n] = 0 /\ status[n] \in {"Pending", "Skipped"}
  BY DEF ClaimInv, QuietInv
<1>2. ASSUME NEW u \in Task PROVE Claims(task[u]) = {}
  <2>1. \A n \in Claims(task[u]) : status[n] \in {"Running", "Failed"} /\ dispatched[n] = 0
    BY DEF ClaimInv, HeldInv
  <2>2. Claims(task[u]) \subseteq Node
    BY HeldAreNodes
  <2>3. QED
    BY <1>1, <2>1, <2>2
<1>3. ~Retrying(task[Listener])
  BY <1>1 DEF At, Retrying, Submits, Refused
<1>4. \A u \in Task : ~Retrying(task[u])
  BY <1>3 DEF ClaimInv, RetryInv
<1>5. QED
  BY <1>1, <1>2, <1>4

\* The ready nodes are claimed by submit_graph.
LEMMA ClaimsClaimReady ==
  ASSUME TypeInv, FrameInv, ClaimInv, NEW t \in Task, ClaimReady(t)
  PROVE  ClaimInv'
<1>1. PICK unmet \in SUBSET (ReadyTasks(status) \cap Conditional) :
         /\ status' = WithStatus(SkipBelow(WithStatus(status, unmet, "Skipped"), unmet),
                                 ReadyTasks(status) \ unmet, "Running")
         /\ Step(t, [task[t] EXCEPT !.pc = "next", !.todo = ReadyTasks(status) \ unmet])
  BY DEF ClaimReady
<1> DEFINE C == ReadyTasks(status) \ unmet
<1>2. t = Submitter /\ At(t, "claim") /\ UNCHANGED <<dispatched, retries>>
  BY DEF ClaimReady, busVars
<1>3. /\ \A u \in Task : Claims(task[u]) = {} /\ ~Retrying(task[u])
      /\ At(Listener, "idle")
      /\ \A n \in Node : dispatched[n] = 0 /\ status[n] \in {"Pending", "Skipped"}
  BY <1>2, QuietHolds DEF At
<1>4. C \in SUBSET Node
  BY DEF ReadyTasks, InStatus
<1>5. PICK g : /\ Step(t, g) /\ g.pc = "next" /\ Claims(g) = C /\ ~Retrying(g)
  BY <1>1, <1>2, <1>4, ClaimFrame
<1>6. \A u \in Task : task'[u] = IF u = t THEN g ELSE task[u]
  BY <1>5 DEF Step, TypeInv, TypeOK
<1>7. \A n \in Node : status'[n] = IF n \in C THEN "Running"
                                   ELSE IF status'[n] = "Skipped" THEN "Skipped" ELSE status[n]
  BY <1>1 DEF WithStatus, SkipBelow
<1> HIDE DEF C
<1>8. SentInv'
  BY <1>2, <1>3, <1>7 DEF ClaimInv, SentInv, NoDoubleExecution, InStatus
<1>9. HeldInv'
  BY <1>2, <1>3, <1>4, <1>5, <1>6, <1>7 DEF HeldInv
<1>10. RetryInv'
  BY <1>3, <1>5, <1>6 DEF RetryInv
<1>11. PendingInv'
  BY <1>2, <1>3 DEF PendingInv, InStatus
<1>12. FailingInv'
  <2>1. \A u \in Task : task[u].pc # "confirm"
    BY <1>3, HeldAreNodes DEF ClaimInv, FailingInv, At
  <2>2. QED
    BY <1>2, <1>5, <1>6, <2>1 DEF ClaimInv, FailingInv, At
<1>13. QuietInv'
  BY <1>2, <1>5, <1>6 DEF QuietInv
<1>14. QED
  BY <1>8, <1>9, <1>10, <1>11, <1>12, <1>13 DEF ClaimInv

\* A node is sent.
LEMMA ClaimsPublish ==
  ASSUME TypeInv, FrameInv, ClaimInv, NEW t \in Task, PublishTaskSubmit(t)
  PROVE  ClaimInv'
<1> DEFINE f == task[t]
           n == f.node
<1>1. PICK g : /\ Step(t, g)
               /\ Submits(f) /\ n \in Node \ f.todo
               /\ g.node = n /\ Claims(g) = f.todo
               /\ f.op = "failed" => f.todo = {} /\ g.pc = "running" /\ Retrying(f)
               /\ f.op # "failed" => g.pc = "next" /\ ~Retrying(g) /\ ~Retrying(f)
               /\ f.pc = "publish"
  BY PublishFrame
<1>2. \A u \in Task : task'[u] = IF u = t THEN g ELSE task[u]
  BY <1>1 DEF Step, TypeInv, TypeOK
<1>3. /\ UNCHANGED <<status, retries>>
      /\ \A m \in Node : dispatched'[m] = IF m = n THEN dispatched[m] + 1 ELSE dispatched[m]
      /\ \A m \in Node : dispatched[m] \in Nat /\ retries[m] \in Nat
  BY DEF PublishTaskSubmit, graphVars, TypeInv, TypeOK
<1>4. FailingInv'
  <2>1. ASSUME NEW u \in Task, task'[u].pc \in {"fail", "failing", "confirm"}
        PROVE  /\ task'[u].pc = "confirm" => status'[task'[u].node] = "Failed"
               /\ u = DagTimer \/ HasStallTimeout \/ dispatched'[task'[u].node] > 0
    <3>1. task'[u] = task[u] /\ task[u].node \in Node
      BY <1>1, <1>2, <2>1, HeldAreNodes
    <3>2. /\ task[u].pc = "confirm" => status[task[u].node] = "Failed"
          /\ u = DagTimer \/ HasStallTimeout \/ dispatched[task[u].node] > 0
      BY <2>1, <3>1 DEF ClaimInv, FailingInv, At
    <3>3. QED
      BY <1>3, <3>1, <3>2
  <2>2. QED
    BY <2>1 DEF FailingInv, At
<1>5. QuietInv'
  <2>1. task[Submitter].pc \notin {"idle", "claim"}
    <3>1. f.op # "failed" => n \in Claims(f)
      BY <1>1 DEF Claims
    <3>2. QED
      BY <1>1, <3>1, QuietHolds
  <2>2. QED
    BY <1>1, <1>2, <2>1, Distinct DEF QuietInv
<1>6. CASE f.op # "failed"
  <2>1. n \in Claims(f) /\ f.todo \subseteq Claims(f)
    BY <1>1, <1>6 DEF Claims
  <2>2. dispatched[n] = 0 /\ status[n] \in {"Running", "Failed"}
    BY <2>1 DEF ClaimInv, HeldInv
  <2>3. \A u \in Task \ {t} : n \notin Claims(task[u])
    BY <2>1 DEF ClaimInv, HeldInv
  <2>4. SentInv'
    BY <1>3, <2>2 DEF ClaimInv, SentInv, NoDoubleExecution, InStatus
  <2>5. HeldInv'
    <3>1. ASSUME NEW u \in Task, NEW m \in Claims(task'[u])
          PROVE  dispatched'[m] = 0 /\ status'[m] \in {"Running", "Failed"}
      <4>1. m \in Claims(task[u]) /\ m # n
        BY <1>1, <1>2, <2>1, <2>3, <3>1
      <4>2. m \in Node /\ dispatched[m] = 0 /\ status[m] \in {"Running", "Failed"}
        BY <4>1, HeldAreNodes DEF ClaimInv, HeldInv
      <4>3. QED
        BY <1>3, <4>1, <4>2
    <3>2. \A u \in Task : Claims(task'[u]) \subseteq Claims(task[u])
      BY <1>1, <1>2, <2>1
    <3>3. \A u \in Task : \A w \in Task : u # w => Claims(task'[u]) \cap Claims(task'[w]) = {}
      <4>1. \A u \in Task : \A w \in Task : u # w => Claims(task[u]) \cap Claims(task[w]) = {}
        BY DEF ClaimInv, HeldInv
      <4>2. QED
        BY <3>2, <4>1
    <3>4. QED
      BY <3>1, <3>3 DEF HeldInv
  <2>6. ASSUME NEW u \in Task, Retrying(task'[u])
        PROVE  task'[u] = task[u] /\ Retrying(task[u]) /\ task[u].node \in Node \ {n}
    <3>1. task'[u] = task[u] /\ Retrying(task[u])
      BY <1>1, <1>2, <1>6, <2>6
    <3>2. dispatched[task[u].node] > 0 /\ task[u].node \in Node
      BY <3>1, HeldAreNodes DEF ClaimInv, RetryInv
    <3>3. QED
      BY <2>2, <3>1, <3>2
  <2>7. RetryInv'
    BY <1>3, <2>6 DEF ClaimInv, RetryInv
  <2>8. PendingInv'
    <3>1. ASSUME NEW m \in Node, status[m] = "Pending"
          PROVE  dispatched'[m] = 0 \/ (Retrying(task'[Listener]) /\ task'[Listener].node = m)
      <4>1. m # n
        BY <2>2, <3>1
      <4>2. dispatched[m] = 0 \/ (Retrying(task[Listener]) /\ task[Listener].node = m)
        BY <3>1 DEF ClaimInv, PendingInv, InStatus
      <4>3. Retrying(task[Listener]) => task'[Listener] = task[Listener]
        BY <1>1, <1>2, <1>6, Distinct
      <4>4. QED
        BY <1>3, <4>1, <4>2, <4>3
    <3>2. QED
      BY <1>3, <3>1 DEF PendingInv, InStatus
  <2>9. QED
    BY <2>4, <2>5, <2>7, <2>8, <1>4, <1>5 DEF ClaimInv
<1>7. CASE f.op = "failed"
  <2>1. Retrying(f) /\ Retrying(g) /\ Claims(g) = {} /\ g.pc = "running"
    BY <1>1, <1>7 DEF Retrying
  <2>2. /\ t = Listener /\ dispatched[n] > 0 /\ status[n] \in {"Pending", "Skipped"}
        /\ dispatched[n] <= retries[n]
    BY <1>1, <2>1 DEF ClaimInv, RetryInv
  <2>3. SentInv'
    BY <1>3, <2>2 DEF ClaimInv, SentInv, NoDoubleExecution, InStatus
  <2>4. HeldInv'
    <3>1. ASSUME NEW u \in Task, NEW m \in Claims(task'[u])
          PROVE  dispatched'[m] = 0 /\ status'[m] \in {"Running", "Failed"}
      <4>1. m \in Claims(task[u])
        BY <1>2, <2>1, <3>1
      <4>2. m \in Node /\ dispatched[m] = 0 /\ status[m] \in {"Running", "Failed"}
        BY <4>1, HeldAreNodes DEF ClaimInv, HeldInv
      <4>3. QED
        BY <1>3, <2>2, <4>2
    <3>2. \A u \in Task : Claims(task'[u]) \subseteq Claims(task[u])
      BY <1>2, <2>1
    <3>3. \A u \in Task : \A w \in Task : u # w => Claims(task'[u]) \cap Claims(task'[w]) = {}
      <4>1. \A u \in Task : \A w \in Task : u # w => Claims(task[u]) \cap Claims(task[w]) = {}
        BY DEF ClaimInv, HeldInv
      <4>2. QED
        BY <3>2, <4>1
    <3>4. QED
      BY <3>1, <3>3 DEF HeldInv
  <2>5. RetryInv'
    <3>1. ASSUME NEW u \in Task, Retrying(task'[u]) PROVE u = t
      <4>1. u # t => Retrying(task[u])
        BY <1>2, <3>1
      <4>2. QED
        BY <2>2, <4>1 DEF ClaimInv, RetryInv
    <3>2. dispatched'[n] > 0 /\ status'[n] \in {"Pending", "Skipped"}
      BY <1>1, <1>3, <2>2
    <3>3. QED
      BY <1>1, <1>2, <2>1, <2>2, <3>1, <3>2 DEF RetryInv
  <2>6. PendingInv'
    <3>1. ASSUME NEW m \in Node, status[m] = "Pending"
          PROVE  dispatched'[m] = 0 \/ (Retrying(task'[Listener]) /\ task'[Listener].node = m)
      <4>1. CASE m = n
        BY <1>1, <1>2, <2>1, <2>2, <4>1
      <4>2. CASE m # n
        BY <1>3, <2>2, <3>1, <4>2 DEF ClaimInv, PendingInv, InStatus
      <4>3. QED
        BY <4>1, <4>2
    <3>2. QED
      BY <1>3, <3>1 DEF PendingInv, InStatus
  <2>7. QED
    BY <2>3, <2>4, <2>5, <2>6, <1>4, <1>5 DEF ClaimInv
<1>8. QED
  BY <1>6, <1>7

\* A step of t that claims nothing and has nothing to do with a retry.
LEMMA ClaimsStep ==
  ASSUME TypeInv, FrameInv, ClaimInv, NEW t \in Task, NEW g, Step(t, g),
         Claims(g) \subseteq Claims(task[t]), ~Retrying(task[t]), ~Retrying(g),
         task[t].pc # "idle", g.pc \notin {"fail", "failing", "idle", "claim"},
         g.pc = "confirm" => /\ task[t].pc = "failing" /\ g.node = task[t].node
                             /\ status'[g.node] = "Failed",
         UNCHANGED <<dispatched, retries>>,
         \A n \in Node : \/ status'[n] = status[n]
                         \/ status[n] = "Pending" /\ status'[n] = "Skipped"
                         \/ status[n] = "Running" /\ status'[n] = "Failed"
  PROVE  ClaimInv'
<1>1. \A u \in Task : task'[u] = IF u = t THEN g ELSE task[u]
  BY DEF Step, TypeInv, TypeOK
<1>2. \A u \in Task : Claims(task'[u]) \subseteq Claims(task[u])
  BY <1>1
<1>3. \A u \in Task : Retrying(task[u]) \/ Retrying(task'[u]) => task'[u] = task[u]
  BY <1>1
<1>4. SentInv'
  BY DEF ClaimInv, SentInv, NoDoubleExecution, InStatus
<1>5. HeldInv'
  <2>1. ASSUME NEW u \in Task, NEW n \in Claims(task'[u])
        PROVE  dispatched'[n] = 0 /\ status'[n] \in {"Running", "Failed"}
    <3>1. n \in Claims(task[u])
      BY <1>2, <2>1
    <3>2. n \in Node /\ dispatched[n] = 0 /\ status[n] \in {"Running", "Failed"}
      BY <3>1, HeldAreNodes DEF ClaimInv, HeldInv
    <3>3. QED
      BY <3>2
  <2>2. \A u \in Task : \A w \in Task : u # w => Claims(task'[u]) \cap Claims(task'[w]) = {}
    <3>1. \A u \in Task : \A w \in Task : u # w => Claims(task[u]) \cap Claims(task[w]) = {}
      BY DEF ClaimInv, HeldInv
    <3>2. QED
      BY <1>2, <3>1
  <2>3. QED
    BY <2>1, <2>2 DEF HeldInv
<1>6. RetryInv'
  <2>1. ASSUME NEW u \in Task, Retrying(task'[u])
        PROVE  LET n == task'[u].node
               IN  /\ u = Listener
                   /\ dispatched'[n] > 0 /\ status'[n] \in {"Pending", "Skipped"}
                   /\ task'[u].pc # "running" => dispatched'[n] <= retries'[n]
    <3>1. task'[u] = task[u] /\ Retrying(task[u]) /\ task[u].node \in Node
      BY <1>3, <2>1, HeldAreNodes
    <3>2. /\ u = Listener
          /\ dispatched[task[u].node] > 0 /\ status[task[u].node] \in {"Pending", "Skipped"}
          /\ task[u].pc # "running" => dispatched[task[u].node] <= retries[task[u].node]
      BY <3>1 DEF ClaimInv, RetryInv
    <3>3. status'[task[u].node] \in {"Pending", "Skipped"}
      BY <3>1, <3>2
    <3>4. QED
      BY <3>1, <3>2, <3>3
  <2>2. QED
    BY <2>1 DEF RetryInv
<1>7. PendingInv'
  <2>1. ASSUME NEW n \in Node, status'[n] = "Pending"
        PROVE  dispatched'[n] = 0 \/ (Retrying(task'[Listener]) /\ task'[Listener].node = n)
    <3>1. dispatched[n] = 0 \/ (Retrying(task[Listener]) /\ task[Listener].node = n)
      BY <2>1 DEF ClaimInv, PendingInv, InStatus
    <3>2. QED
      BY <1>3, <3>1, Distinct
  <2>2. QED
    BY <2>1 DEF PendingInv, InStatus
<1>8. FailingInv'
  <2>1. ASSUME NEW u \in Task, task'[u].pc \in {"fail", "failing", "confirm"}
        PROVE  /\ task'[u].pc = "confirm" => status'[task'[u].node] = "Failed"
               /\ u = DagTimer \/ HasStallTimeout \/ dispatched'[task'[u].node] > 0
    <3>1. CASE u = t
      BY <1>1, <2>1, <3>1 DEF ClaimInv, FailingInv
    <3>2. CASE u # t
      <4>1. task'[u] = task[u] /\ task[u].node \in Node
        BY <1>1, <2>1, <3>2, HeldAreNodes
      <4>2. QED
        BY <2>1, <4>1 DEF ClaimInv, FailingInv, At
    <3>3. QED
      BY <3>1, <3>2
  <2>2. QED
    BY <2>1 DEF FailingInv, At
<1>9. QuietInv'
  <2> SUFFICES ASSUME task'[Submitter].pc \in {"idle", "claim"}
               PROVE  /\ task'[Listener].pc = "idle"
                      /\ \A n \in Node : dispatched'[n] = 0 /\ status'[n] \in {"Pending", "Skipped"}
    BY DEF QuietInv, At
  <2>1. task[Submitter].pc \in {"idle", "claim"}
    BY <1>1, Distinct
  <2>2. /\ task[Listener].pc = "idle"
        /\ \A n \in Node : dispatched[n] = 0 /\ status[n] \in {"Pending", "Skipped"}
    BY <2>1, QuietHolds DEF At
  <2>3. task'[Listener].pc = "idle"
    BY <1>1, <2>2, Distinct
  <2>4. QED
    BY <2>2, <2>3
<1>10. QED
  BY <1>4, <1>5, <1>6, <1>7, <1>8, <1>9 DEF ClaimInv

\* What a node's failure reaches is collected and skipped.
LEMMA ClaimsSkip ==
  ASSUME TypeInv, FrameInv, ClaimInv, NEW t \in Task,
         CollectDownstream(t) \/ SkipCollected(t) \/ ConfirmFailed(t)
  PROVE  ClaimInv'
<1>1. UNCHANGED <<dispatched, retries>>
  BY DEF CollectDownstream, SkipCollected, ConfirmFailed, graphVars, busVars
<1>2. CASE CollectDownstream(t)
  <2>1. UNCHANGED status
    BY <1>2 DEF CollectDownstream, graphVars
  <2>2. QED
    BY <1>1, <1>2, <2>1, CollectFrame, ClaimsStep
<1>3. CASE SkipCollected(t)
  <2>1. \A n \in Node : \/ status'[n] = status[n]
                        \/ status[n] = "Pending" /\ status'[n] = "Skipped"
    BY <1>3 DEF SkipCollected, WithStatus, InStatus
  <2>2. QED
    BY <1>1, <1>3, <2>1, SkipFrame, ClaimsStep
<1>4. CASE ConfirmFailed(t)
  <2>1. status[task[t].node] = "Failed"
    BY <1>4 DEF ConfirmFailed, ClaimInv, FailingInv
  <2>2. \A n \in Node : status'[n] = status[n]
    BY <1>4, <2>1 DEF ConfirmFailed, WithStatus
  <2>3. QED
    BY <1>1, <1>4, <2>2, ConfirmFrame, ClaimsStep
<1>5. QED
  BY <1>2, <1>3, <1>4

\* A retry is marked Running.
LEMMA ClaimsMarkRetry ==
  ASSUME TypeInv, FrameInv, ClaimInv, NEW t \in Task, MarkRetryRunning(t)
  PROVE  ClaimInv'
<1> DEFINE n == task[t].node
<1>1. PICK g : /\ Step(t, g)
               /\ Claims(g) = {} /\ Retrying(task[t]) /\ ~Retrying(g) /\ n \in Node
               /\ task[t].pc = "running" /\ g.pc \in {"ack", "nak", "victims", "idle", "off"}
               /\ t = Submitter => g.pc = "off"
  BY MarkRetryFrame
<1>2. \A u \in Task : task'[u] = IF u = t THEN g ELSE task[u]
  BY <1>1 DEF Step, TypeInv, TypeOK
<1>3. t = Listener /\ dispatched[n] > 0 /\ status[n] \in {"Pending", "Skipped"}
  BY <1>1 DEF ClaimInv, RetryInv
<1>4. /\ UNCHANGED <<dispatched, retries>>
      /\ \A m \in Node : status'[m] = IF m = n THEN "Running" ELSE status[m]
  BY DEF MarkRetryRunning, busVars, WithStatus
<1>5. SentInv'
  BY <1>4 DEF ClaimInv, SentInv, NoDoubleExecution, InStatus
<1>6. HeldInv'
  <2>1. \A u \in Task : Claims(task'[u]) \subseteq Claims(task[u])
    BY <1>1, <1>2
  <2>2. ASSUME NEW u \in Task, NEW m \in Claims(task'[u])
        PROVE  dispatched'[m] = 0 /\ status'[m] \in {"Running", "Failed"}
    <3>1. m \in Node /\ dispatched[m] = 0 /\ status[m] \in {"Running", "Failed"}
      BY <2>1, <2>2, HeldAreNodes DEF ClaimInv, HeldInv
    <3>2. QED
      BY <1>4, <3>1
  <2>3. \A u \in Task : \A w \in Task : u # w => Claims(task'[u]) \cap Claims(task'[w]) = {}
    <3>1. \A u \in Task : \A w \in Task : u # w => Claims(task[u]) \cap Claims(task[w]) = {}
      BY DEF ClaimInv, HeldInv
    <3>2. QED
      BY <2>1, <3>1
  <2>4. QED
    BY <2>2, <2>3 DEF HeldInv
<1>7. \A u \in Task : ~Retrying(task'[u])
  BY <1>1, <1>2, <1>3 DEF ClaimInv, RetryInv
<1>8. RetryInv'
  BY <1>7 DEF RetryInv
<1>9. PendingInv'
  <2>1. ASSUME NEW m \in Node, status'[m] = "Pending" PROVE dispatched'[m] = 0
    <3>1. m # n /\ status[m] = "Pending"
      BY <1>4, <2>1
    <3>2. QED
      BY <1>3, <1>4, <3>1 DEF ClaimInv, PendingInv, InStatus
  <2>2. QED
    BY <2>1 DEF PendingInv, InStatus
<1>10. FailingInv'
  <2>1. ASSUME NEW u \in Task, task'[u].pc \in {"fail", "failing", "confirm"}
        PROVE  /\ task'[u].pc = "confirm" => status'[task'[u].node] = "Failed"
               /\ u = DagTimer \/ HasStallTimeout \/ dispatched'[task'[u].node] > 0
    <3>1. task'[u] = task[u] /\ task[u].node \in Node
      BY <1>1, <1>2, <2>1, HeldAreNodes
    <3>2. /\ task[u].pc = "confirm" => status[task[u].node] = "Failed"
          /\ u = DagTimer \/ HasStallTimeout \/ dispatched[task[u].node] > 0
      BY <2>1, <3>1 DEF ClaimInv, FailingInv, At
    <3>3. QED
      BY <1>3, <1>4, <3>1, <3>2
  <2>2. QED
    BY <2>1 DEF FailingInv, At
<1>11. QuietInv'
  <2>1. task[Submitter].pc \notin {"idle", "claim"}
    BY <1>1, QuietHolds
  <2>2. QED
    BY <1>1, <1>2, <2>1, Distinct DEF QuietInv
<1>12. QED
  BY <1>5, <1>6, <1>8, <1>9, <1>10, <1>11 DEF ClaimInv

-----------------------------------------------------------------------------
(* What the operators of the graph do. *)

\* The nodes collected below the seeds are Pending, every Pending dependent of a
\* seed or of a collected node is collected, and no other node is.
LEMMA PendingBelowFacts ==
  ASSUME NEW st, NEW seeds \in SUBSET Node
  PROVE  LET P == PendingBelow(st, seeds)
         IN  /\ P \subseteq InStatus(st, "Pending")
             /\ Dependents(seeds \cup P) \cap InStatus(st, "Pending") \subseteq P
             /\ \A m \in P : DependsOn[m] \cap (seeds \cup P) # {}
<1> DEFINE P == PendingBelow(st, seeds)
           A == InStatus(st, "Pending")
           closed(S) == Dependents(seeds \cup S) \cap A \subseteq S
<1>1. \A n \in Node : n \in P <=> \A S \in SUBSET Node : closed(S) => n \in S
  BY DEF PendingBelow
<1>2. A \subseteq Node /\ P \subseteq Node
  BY DEF InStatus, PendingBelow
<1>3. P \subseteq A
  BY <1>1, <1>2
<1>4. \A X, Y : X \subseteq Y => Dependents(X) \subseteq Dependents(Y)
  BY DEF Dependents
<1> HIDE DEF P
<1>5. closed(P)
  <2>1. ASSUME NEW m \in Dependents(seeds \cup P) \cap A, NEW S \in SUBSET Node, closed(S)
        PROVE  m \in S
    <3>1. P \subseteq S
      BY <1>1, <1>2, <2>1
    <3>2. Dependents(seeds \cup P) \subseteq Dependents(seeds \cup S)
      BY <1>4, <3>1
    <3>3. QED
      BY <2>1, <3>2
  <2>2. QED
    BY <1>1, <1>2, <2>1
<1>6. ASSUME NEW m \in P, DependsOn[m] \cap (seeds \cup P) = {}
      PROVE  FALSE
  <2>1. closed(P \ {m})
    <3>1. Dependents(seeds \cup (P \ {m})) \subseteq Dependents(seeds \cup P)
      BY <1>4
    <3>2. m \notin Dependents(seeds \cup (P \ {m}))
      BY <1>6 DEF Dependents
    <3>3. QED
      BY <1>5, <3>1, <3>2
  <2>2. m \in Node /\ P \ {m} \in SUBSET Node /\ m \notin P \ {m}
    BY <1>2, <1>6
  <2> HIDE DEF closed
  <2>3. QED
    BY <1>1, <1>6, <2>1, <2>2
<1>7. QED
  BY <1>3, <1>5, <1>6 DEF P

(***************************************************************************)
(* What the completion of n makes of the graph when no dependent of n was  *)
(* started: R is rejected by the choice of a branch, P is skipped below it *)
(* and C is claimed.                                                       *)
(***************************************************************************)
Completes(t, n, R, P, C) ==
    /\ Step(t, [task[t] EXCEPT !.pc = "next", !.todo = C])
    /\ R \subseteq Dependents({n}) /\ n \notin R \cup P \cup C
    /\ P \cup C \subseteq InStatus(status, "Pending") /\ C \cap (R \cup P) = {}
    /\ \A m \in Node : status'[m] = IF m \in C THEN "Running"
                                    ELSE IF m = n THEN "Completed"
                                    ELSE IF m \in R \cup P THEN "Skipped" ELSE status[m]
    /\ \A m \in C : \A e \in DependsOn[m] : status'[e] = "Completed"
    /\ \A m \in InStatus(status, "Pending") \ R :
          m # n /\ DependsOn[m] \cap (R \cup P) # {} => m \in P
    /\ Targets[n] # {} => \E target \in Node : R = Dependents({n}) \ {target}

LEMMA CompletedGraph ==
  ASSUME TypeInv, NEW t \in Task, CompleteNode(t), NEW n \in Node, n = task[t].event,
         ~CompletionIsLate(n), n \notin Dependents({n})
  PROVE  \E R, P, C \in SUBSET Node : Completes(t, n, R, P, C)
<1> DEFINE done == WithStatus(status, {n}, "Completed")
<1>1. PICK st \in IF Targets[n] = {} THEN {done}
                  ELSE {SelectBranch(done, n, target) : target \in Targets[n]} :
         /\ status' = WithStatus(st, ClaimedBy(t, st), "Running")
         /\ Step(t, [task[t] EXCEPT !.pc = "next", !.todo = ClaimedBy(t, st)])
  BY DEF CompleteNode
<1>2. /\ ClaimedBy(t, st) \subseteq InStatus(st, "Pending")
      /\ \A m \in ClaimedBy(t, st) : \A e \in DependsOn[m] : st[e] = "Completed"
  BY DEF ClaimedBy, ReadyTasks
<1>3. ASSUME NEW R \in SUBSET Node, NEW P \in SUBSET Node, n \notin R \cup P,
             R \subseteq Dependents({n}), P \subseteq InStatus(status, "Pending"),
             \A m \in Node : st[m] = IF m = n THEN "Completed"
                                     ELSE IF m \in R \cup P THEN "Skipped" ELSE status[m],
             \A m \in InStatus(status, "Pending") \ R :
                 m # n /\ DependsOn[m] \cap (R \cup P) # {} => m \in P,
             Targets[n] # {} => \E target \in Node : R = Dependents({n}) \ {target}
      PROVE  \E C \in SUBSET Node : Completes(t, n, R, P, C)
  <2> DEFINE C == ClaimedBy(t, st)
  <2>1. C \subseteq InStatus(status, "Pending") /\ C \cap (R \cup P) = {} /\ n \notin C
    BY <1>2, <1>3 DEF InStatus
  <2>2. C \in SUBSET Node
    BY <2>1 DEF InStatus
  <2>3. \A m \in Node : status'[m] = IF m \in C THEN "Running" ELSE st[m]
    BY <1>1 DEF WithStatus
  <2>4. \A m \in C : \A e \in DependsOn[m] : status'[e] = "Completed"
    <3>1. ASSUME NEW m \in C, NEW e \in DependsOn[m] PROVE status'[e] = "Completed"
      <4>1. st[e] = "Completed" /\ e \in Node
        BY <1>2, <2>2, <3>1, GraphAssumption
      <4>2. e \notin C
        BY <1>2, <4>1 DEF InStatus
      <4>3. QED
        BY <2>3, <4>1, <4>2
    <3>2. QED
      BY <3>1
  <2>5. Step(t, [task[t] EXCEPT !.pc = "next", !.todo = C])
    BY <1>1
  <2> HIDE DEF C
  <2>6. \A m \in Node : status'[m] = IF m \in C THEN "Running"
                                     ELSE IF m = n THEN "Completed"
                                     ELSE IF m \in R \cup P THEN "Skipped" ELSE status[m]
    BY <1>3, <2>3
  <2>7. QED
    BY <1>3, <2>1, <2>2, <2>4, <2>5, <2>6 DEF Completes
<1>4. CASE Targets[n] = {}
  <2>1. st = done
    BY <1>1, <1>4
  <2>2. \A m \in Node : st[m] = IF m = n THEN "Completed" ELSE status[m]
    BY <2>1 DEF WithStatus
  <2>3. /\ {} \in SUBSET Node /\ n \notin {} \cup {} /\ {} \subseteq Dependents({n})
        /\ {} \subseteq InStatus(status, "Pending")
        /\ \A m \in Node : st[m] = IF m = n THEN "Completed"
                                   ELSE IF m \in {} \cup {} THEN "Skipped" ELSE status[m]
        /\ \A m \in InStatus(status, "Pending") \ {} :
              m # n /\ DependsOn[m] \cap ({} \cup {}) # {} => m \in {}
    BY <2>2
  <2>4. QED
    BY <1>3, <1>4, <2>3
<1>5. CASE Targets[n] # {}
  <2>1. PICK target \in Targets[n] : st = SelectBranch(done, n, target)
    BY <1>1, <1>5
  <2> DEFINE R == Dependents({n}) \ {target}
             mid == WithStatus(done, R, "Skipped")
             P == PendingBelow(mid, R)
  <2>2. R \in SUBSET Node /\ n \notin R /\ target \in Node
    BY SchedulerAssumption DEF Dependents
  <2>3. \A m \in Node : mid[m] = IF m \in R THEN "Skipped" ELSE IF m = n THEN "Completed" ELSE status[m]
    BY DEF WithStatus
  <2>4. /\ P \subseteq InStatus(mid, "Pending")
        /\ Dependents(R \cup P) \cap InStatus(mid, "Pending") \subseteq P
    BY <2>2, PendingBelowFacts
  <2>5. st = WithStatus(mid, P, "Skipped")
    BY <2>1 DEF SelectBranch, SkipBelow
  <2> HIDE DEF R, mid, P
  <2>6. P \subseteq InStatus(status, "Pending") /\ n \notin P /\ P \in SUBSET Node
    BY <2>3, <2>4 DEF InStatus
  <2>7. \A m \in Node : st[m] = IF m = n THEN "Completed"
                                ELSE IF m \in R \cup P THEN "Skipped" ELSE status[m]
    BY <2>2, <2>3, <2>5, <2>6 DEF WithStatus
  <2>8. \A m \in InStatus(status, "Pending") \ R :
           m # n /\ DependsOn[m] \cap (R \cup P) # {} => m \in P
    BY <2>3, <2>4 DEF InStatus, Dependents
  <2>9. R \subseteq Dependents({n}) /\ R = Dependents({n}) \ {target}
    BY DEF R
  <2>10. Targets[n] # {} => \E other \in Node : R = Dependents({n}) \ {other}
    BY <2>2, <2>9
  <2>11. \E C \in SUBSET Node : Completes(t, n, R, P, C)
    BY <1>3, <2>2, <2>6, <2>7, <2>8, <2>9, <2>10
  <2>12. QED
    BY <2>2, <2>6, <2>11
<1>6. QED
  BY <1>4, <1>5

-----------------------------------------------------------------------------
(* The invariant of the claims, in the steps that rest on the other ones. *)

\* A node that completes was sent, and none of its dependents was started.
LEMMA CompletingNode ==
  ASSUME TypeInv, FrameInv, HistoryInv, StartedInv, NEW t \in Task, CompleteNode(t)
  PROVE  LET n == task[t].event
         IN  /\ t = Listener /\ ~Retrying(task[t]) /\ At(t, "complete")
             /\ n \in Node /\ dispatched[n] > 0
             /\ ~CompletionIsLate(n) => /\ n \notin Dependents({n})
                                        /\ \A m \in Dependents({n}) : ~Started(m)
<1> DEFINE n == task[t].event
<1>1. t = Listener /\ task[t].pc = "complete"
  BY DEF CompleteNode, At
<1>2. ~Retrying(task[t]) /\ task[t].op = "completed"
  BY <1>1 DEF Retrying, Submits, Refused, FrameInv, FrameOK
<1>3. MessageInStream(task[t])
  BY <1>1 DEF TypeInv, TasksOK, ListenerFrame
<1>4. n \in Node /\ completions[n] > 0
  BY <1>2, <1>3 DEF MessageInStream
<1>5. dispatched[n] > 0
  <2>1. dispatched[n] # 0
    BY <1>4 DEF HistoryInv
  <2>2. dispatched[n] \in Nat
    BY <1>4 DEF TypeInv, TypeOK
  <2>3. QED
    BY <2>1, <2>2
<1>6. ASSUME ~CompletionIsLate(n), NEW m \in Dependents({n}) PROVE ~Started(m) /\ m # n
  <2>1. status[n] # "Completed" /\ m \in Node /\ n \in DependsOn[m]
    BY <1>6 DEF CompletionIsLate, Terminal, Dependents
  <2>2. ~Started(m)
    BY <2>1 DEF StartedInv
  <2>3. QED
    BY <1>5, <2>2 DEF Started
<1>7. QED
  BY <1>1, <1>2, <1>4, <1>5, <1>6 DEF At

LEMMA ClaimsComplete ==
  ASSUME TypeInv, FrameInv, HistoryInv, StartedInv, ClaimInv, NEW t \in Task, CompleteNode(t)
  PROVE  ClaimInv'
<1> DEFINE n == task[t].event
<1>1. /\ t = Listener /\ ~Retrying(task[t]) /\ At(t, "complete")
      /\ n \in Node /\ dispatched[n] > 0
      /\ ~CompletionIsLate(n) => /\ n \notin Dependents({n})
                                 /\ \A m \in Dependents({n}) : ~Started(m)
  BY CompletingNode
<1>2. UNCHANGED <<dispatched, retries>>
  BY DEF CompleteNode, busVars
<1>3. CASE CompletionIsLate(n)
  <2>1. Goto(t, "ack") /\ UNCHANGED status
    BY <1>3 DEF CompleteNode
  <2>2. CalmMove
    BY <1>1, <2>1, LateCompletionIsCalm
  <2>3. QED
    BY <1>2, <2>1, <2>2, ClaimsCalm
<1>4. CASE ~CompletionIsLate(n)
  <2>1. PICK R \in SUBSET Node, P \in SUBSET Node, C \in SUBSET Node : Completes(t, n, R, P, C)
    BY <1>1, <1>4, CompletedGraph
  <2>2. /\ R \subseteq Dependents({n}) /\ n \notin R \cup P \cup C
        /\ P \cup C \subseteq InStatus(status, "Pending") /\ C \cap (R \cup P) = {}
        /\ \A m \in Node : status'[m] = IF m \in C THEN "Running"
                                        ELSE IF m = n THEN "Completed"
                                        ELSE IF m \in R \cup P THEN "Skipped" ELSE status[m]
    BY <2>1 DEF Completes
  <2>3. PICK g : /\ Step(t, g) /\ g.pc = "next" /\ Claims(g) = C /\ ~Retrying(g)
    <3>1. Step(t, [task[t] EXCEPT !.pc = "next", !.todo = C])
      BY <2>1 DEF Completes
    <3>2. QED
      BY <1>1, <3>1, ClaimFrame
  <2>4. \A u \in Task : task'[u] = IF u = t THEN g ELSE task[u]
    BY <2>3 DEF Step, TypeInv, TypeOK
  <2>5. ASSUME NEW m \in R PROVE status[m] \in {"Pending", "Skipped"} /\ dispatched[m] = 0
    <3>1. ~Started(m) /\ dispatched[m] \in Nat
      BY <1>1, <1>4, <2>2, <2>5 DEF TypeInv, TypeOK
    <3>2. QED
      BY <3>1 DEF Started
  <2>6. \A m \in P \cup C : status[m] = "Pending"
    BY <2>2 DEF InStatus
  <2>7. \A m \in Node : status[m] = "Pending" => dispatched[m] = 0
    BY <1>1 DEF ClaimInv, PendingInv, InStatus
\* The claimed and the failed nodes are not touched.
  <2>8. \A m \in Node : status[m] \in {"Running", "Failed"} /\ m # n => status'[m] = status[m]
    BY <2>2, <2>5, <2>6
  <2>9. status[n] # "Failed"
    BY <1>4 DEF CompletionIsLate, Terminal
  <2>10. SentInv'
    <3>1. \A m \in Node : status'[m] = "Completed" => status[m] = "Completed" \/ m = n
      BY <2>2
    <3>2. QED
      BY <1>1, <1>2, <3>1 DEF ClaimInv, SentInv, NoDoubleExecution, InStatus
  <2>11. HeldInv'
    <3>1. ASSUME NEW u \in Task, u # t, NEW m \in Claims(task[u])
          PROVE  dispatched'[m] = 0 /\ status'[m] \in {"Running", "Failed"} /\ m \notin C
      <4>1. m \in Node /\ dispatched[m] = 0 /\ status[m] \in {"Running", "Failed"}
        BY <3>1, HeldAreNodes DEF ClaimInv, HeldInv
      <4>2. m # n
        BY <1>1, <4>1
      <4>3. QED
        BY <1>2, <2>6, <2>8, <4>1, <4>2
    <3>2. ASSUME NEW m \in C PROVE dispatched'[m] = 0 /\ status'[m] = "Running"
      BY <1>2, <2>2, <2>6, <2>7
    <3>3. \A u \in Task : \A m \in Claims(task'[u]) :
             dispatched'[m] = 0 /\ status'[m] \in {"Running", "Failed"}
      BY <2>3, <2>4, <3>1, <3>2
    <3>4. ASSUME NEW u \in Task, NEW w \in Task, u # w
          PROVE  Claims(task'[u]) \cap Claims(task'[w]) = {}
      <4>1. CASE u = t
        BY <2>3, <2>4, <3>1, <3>4, <4>1
      <4>2. CASE w = t
        BY <2>3, <2>4, <3>1, <3>4, <4>2
      <4>3. CASE u # t /\ w # t
        BY <2>4, <3>4, <4>3 DEF ClaimInv, HeldInv
      <4>4. QED
        BY <4>1, <4>2, <4>3
    <3>5. QED
      BY <3>3, <3>4 DEF HeldInv
  <2>12. RetryInv'
    <3>1. \A u \in Task : ~Retrying(task'[u])
      BY <1>1, <2>3, <2>4 DEF ClaimInv, RetryInv
    <3>2. QED
      BY <3>1 DEF RetryInv
  <2>13. PendingInv'
    <3>1. \A m \in Node : status'[m] = "Pending" => status[m] = "Pending"
      BY <2>2
    <3>2. QED
      BY <1>2, <2>7, <3>1 DEF PendingInv, InStatus
  <2>14. FailingInv'
    <3>1. ASSUME NEW u \in Task, task'[u].pc \in {"fail", "failing", "confirm"}
          PROVE  /\ task'[u].pc = "confirm" => status'[task'[u].node] = "Failed"
                 /\ u = DagTimer \/ HasStallTimeout \/ dispatched'[task'[u].node] > 0
      <4>1. task'[u] = task[u] /\ task[u].node \in Node
        BY <2>3, <2>4, <3>1, HeldAreNodes
      <4>2. /\ task[u].pc = "confirm" => status[task[u].node] = "Failed"
            /\ u = DagTimer \/ HasStallTimeout \/ dispatched[task[u].node] > 0
        BY <3>1, <4>1 DEF ClaimInv, FailingInv, At
      <4>3. QED
        BY <1>2, <2>8, <2>9, <4>1, <4>2
    <3>2. QED
      BY <3>1 DEF FailingInv, At
  <2>15. QuietInv'
    <3>1. task[Submitter].pc \notin {"idle", "claim"}
      BY <1>1, QuietHolds
    <3>2. QED
      BY <1>1, <2>4, <3>1, Distinct DEF QuietInv
  <2>16. QED
    BY <2>10, <2>11, <2>12, <2>13, <2>14, <2>15 DEF ClaimInv
<1>5. QED
  BY <1>3, <1>4

\* The failure of a node is ignored, answered with a retry, or final.
LEMMA ClaimsFailure ==
  ASSUME Regular, TypeInv, FrameInv, ClaimInv, NEW t \in Task, ClaimFailure(t)
  PROVE  ClaimInv'
<1> DEFINE n == task[t].node
<1>1. At(t, "failing") /\ UNCHANGED dispatched
  BY DEF ClaimFailure, busVars
<1>2. n \in Node /\ dispatched[n] \in Nat /\ retries[n] \in Nat
  BY <1>1, HeldAreNodes DEF At, TypeInv, TypeOK
<1>3. CASE ~FailureIsClaimed(n)
  <2>1. Return(t, task[t]) /\ UNCHANGED <<status, retries>>
    BY <1>3 DEF ClaimFailure
  <2>2. CalmMove
    BY <1>1, <2>1, IgnoredFailureIsCalm
  <2>3. QED
    BY <1>1, <2>1, <2>2, ClaimsCalm
<1>4. CASE FailureIsClaimed(n) /\ ~MayRetry(n)
  <2>1. Goto(t, "confirm") /\ UNCHANGED retries /\ status' = WithStatus(status, {n}, "Failed")
    BY <1>4 DEF ClaimFailure
  <2>2. status[n] = "Running" /\ \A m \in Node : status'[m] = IF m = n THEN "Failed" ELSE status[m]
    BY <1>4, <2>1 DEF FailureIsClaimed, WithStatus
  <2>3. PICK g : /\ Step(t, g)
                 /\ g.node = n /\ Claims(g) = {}
                 /\ ~Retrying(task[t]) /\ ~Retrying(g)
                 /\ task[t].pc = "failing" /\ g.pc = "confirm"
    BY <1>1, <2>1, ClaimFailureFrame
  <2>4. QED
    BY <1>1, <1>2, <2>1, <2>2, <2>3, ClaimsStep
<1>5. CASE FailureIsClaimed(n) /\ MayRetry(n)
  <2>1. /\ Goto(t, "backoff") /\ status' = WithStatus(status, {n}, "Pending")
        /\ retries' = [retries EXCEPT ![n] = @ + 1]
    BY <1>5 DEF ClaimFailure
  <2>2. /\ status[n] = "Running"
        /\ \A m \in Node : status'[m] = IF m = n THEN "Pending" ELSE status[m]
        /\ \A m \in Node : retries'[m] = IF m = n THEN retries[m] + 1 ELSE retries[m]
    BY <1>5, <2>1 DEF FailureIsClaimed, WithStatus, TypeInv, TypeOK
  <2>3. ~NoRetries
    BY <1>2, <1>5 DEF MayRetry, NoRetries
  <2>4. PICK g : /\ Step(t, g)
                 /\ g.node = n /\ Claims(g) = {}
                 /\ ~Retrying(task[t]) /\ Retrying(g)
                 /\ task[t].pc = "failing" /\ g.pc = "backoff"
                 /\ t \in {Listener, StallTimer} \cup Watcher
                 /\ t = StallTimer => HasStallTimeout
    BY <1>1, <2>1, <2>3, ClaimFailureFrame
  <2>5. t = Listener /\ ~HasStallTimeout
    BY <2>3, <2>4 DEF Regular
  <2>6. dispatched[n] > 0 /\ dispatched[n] <= retries'[n]
    <3>1. dispatched[n] > 0
      BY <2>4, <2>5, Distinct DEF ClaimInv, FailingInv
    <3>2. dispatched[n] <= 1 + retries[n]
      BY <1>2 DEF ClaimInv, SentInv, NoDoubleExecution
    <3>3. QED
      BY <1>2, <2>2, <3>1, <3>2
  <2>7. \A u \in Task : task'[u] = IF u = t THEN g ELSE task[u]
    BY <2>4 DEF Step, TypeInv, TypeOK
  <2>8. SentInv'
    BY <1>1, <1>2, <2>2, <2>6 DEF ClaimInv, SentInv, NoDoubleExecution, InStatus
  <2>9. HeldInv'
    <3>1. ASSUME NEW u \in Task, NEW m \in Claims(task'[u])
          PROVE  m \in Claims(task[u]) /\ dispatched'[m] = 0 /\ status'[m] \in {"Running", "Failed"}
      <4>1. m \in Claims(task[u])
        BY <2>4, <2>7, <3>1
      <4>2. m \in Node /\ dispatched[m] = 0 /\ status[m] \in {"Running", "Failed"}
        BY <4>1, HeldAreNodes DEF ClaimInv, HeldInv
      <4>3. QED
        BY <1>1, <2>2, <2>6, <4>1, <4>2
    <3>2. \A u \in Task : \A w \in Task : u # w => Claims(task[u]) \cap Claims(task[w]) = {}
      BY DEF ClaimInv, HeldInv
    <3>3. \A u \in Task : Claims(task'[u]) \subseteq Claims(task[u])
      BY <3>1
    <3>4. \A u \in Task : \A w \in Task : u # w => Claims(task'[u]) \cap Claims(task'[w]) = {}
      BY <3>2, <3>3
    <3>5. QED
      BY <3>1, <3>4 DEF HeldInv
  <2>10. RetryInv'
    <3>1. \A u \in Task : u # t => ~Retrying(task'[u])
      BY <2>5, <2>7 DEF ClaimInv, RetryInv
    <3>2. QED
      BY <1>1, <1>2, <2>2, <2>4, <2>5, <2>6, <2>7, <3>1 DEF RetryInv
  <2>11. PendingInv'
    <3>1. ASSUME NEW m \in Node, status'[m] = "Pending"
          PROVE  dispatched'[m] = 0 \/ (Retrying(task'[Listener]) /\ task'[Listener].node = m)
      <4>1. CASE m = n
        BY <2>4, <2>5, <2>7, <4>1
      <4>2. CASE m # n
        BY <1>1, <2>2, <2>4, <2>5, <3>1, <4>2 DEF ClaimInv, PendingInv, InStatus
      <4>3. QED
        BY <4>1, <4>2
    <3>2. QED
      BY <3>1 DEF PendingInv, InStatus
  <2>12. FailingInv'
    <3>1. ASSUME NEW u \in Task, task'[u].pc \in {"fail", "failing", "confirm"}
          PROVE  /\ task'[u].pc = "confirm" => status'[task'[u].node] = "Failed"
                 /\ u = DagTimer \/ HasStallTimeout \/ dispatched'[task'[u].node] > 0
      <4>1. task'[u] = task[u] /\ task[u].node \in Node
        BY <2>4, <2>7, <3>1, HeldAreNodes
      <4>2. /\ task[u].pc = "confirm" => status[task[u].node] = "Failed"
            /\ u = DagTimer \/ HasStallTimeout \/ dispatched[task[u].node] > 0
        BY <3>1, <4>1 DEF ClaimInv, FailingInv, At
      <4>3. QED
        BY <1>1, <2>2, <4>1, <4>2
    <3>2. QED
      BY <3>1 DEF FailingInv, At
  <2>13. QuietInv'
    <3>1. task[Submitter].pc \notin {"idle", "claim"}
      BY <1>2, <2>6, QuietHolds
    <3>2. QED
      BY <2>5, <2>7, <3>1, Distinct DEF QuietInv
  <2>14. QED
    BY <2>8, <2>9, <2>10, <2>11, <2>12, <2>13 DEF ClaimInv
<1>6. QED
  BY <1>3, <1>4, <1>5

\* A node that could not be submitted goes back to Pending or fails.
LEMMA ClaimsSubmissionError ==
  ASSUME Regular, TypeInv, FrameInv, ClaimInv, NEW t \in Task, SubmissionError(t)
  PROVE  ClaimInv'
<1> DEFINE f == task[t]
           n == f.node
           giveUp == f.op = "failed" \/ f.err = "permanent"
<1>1. PICK g : /\ Step(t, g)
               /\ Submits(f) /\ n \in Node \ f.todo
               /\ g.node = n /\ Claims(g) = f.todo /\ ~Retrying(g)
               /\ f.op = "failed" => Retrying(f) /\ f.todo = {}
               /\ f.op # "failed" => ~Retrying(f)
               /\ g.pc \in {"scan", "next"}
               /\ ~giveUp => MaxFaults # 0
               /\ f.pc = "suberr"
  BY SubmissionErrorFrame
<1>2. \A u \in Task : task'[u] = IF u = t THEN g ELSE task[u]
  BY <1>1 DEF Step, TypeInv, TypeOK
<1>3. /\ UNCHANGED <<dispatched, retries>>
      /\ \A m \in Node : status'[m] = IF m # n THEN status[m]
                                      ELSE IF giveUp THEN "Failed" ELSE "Pending"
  BY DEF SubmissionError, WithStatus, busVars
<1>4. f.op # "failed" => n \in Claims(f)
  BY <1>1 DEF Claims
<1>5. f.op # "failed" => dispatched[n] = 0 /\ status[n] \in {"Running", "Failed"}
  BY <1>4 DEF ClaimInv, HeldInv
<1>6. f.op = "failed" => t = Listener /\ dispatched[n] > 0
  BY <1>1 DEF ClaimInv, RetryInv
<1>7. SentInv'
  <2>1. \A m \in Node : status'[m] = "Completed" => status[m] = "Completed"
    BY <1>3
  <2>2. QED
    BY <1>3, <2>1 DEF ClaimInv, SentInv, NoDoubleExecution, InStatus
<1>8. HeldInv'
  <2>1. \A u \in Task : Claims(task'[u]) \subseteq Claims(task[u])
    BY <1>1, <1>2 DEF Claims
  <2>2. ASSUME NEW u \in Task, NEW m \in Claims(task'[u])
        PROVE  dispatched'[m] = 0 /\ status'[m] \in {"Running", "Failed"}
    <3>1. m \in Claims(task[u]) /\ m \in Node
      BY <2>1, <2>2, HeldAreNodes
    <3>2. dispatched[m] = 0 /\ status[m] \in {"Running", "Failed"}
      BY <3>1 DEF ClaimInv, HeldInv
    <3>3. m # n
      <4>1. CASE u = t
        BY <1>1, <1>2, <2>2, <4>1
      <4>2. CASE u # t /\ f.op # "failed"
        BY <1>4, <3>1, <4>2 DEF ClaimInv, HeldInv
      <4>3. CASE f.op = "failed"
        BY <1>6, <3>2, <4>3
      <4>4. QED
        BY <4>1, <4>2, <4>3
    <3>4. QED
      BY <1>3, <3>1, <3>2, <3>3
  <2>3. \A u \in Task : \A w \in Task : u # w => Claims(task'[u]) \cap Claims(task'[w]) = {}
    <3>1. \A u \in Task : \A w \in Task : u # w => Claims(task[u]) \cap Claims(task[w]) = {}
      BY DEF ClaimInv, HeldInv
    <3>2. QED
      BY <2>1, <3>1
  <2>4. QED
    BY <2>2, <2>3 DEF HeldInv
<1>9. RetryInv'
  <2> SUFFICES ASSUME NEW u \in Task, Retrying(task'[u])
               PROVE  LET m == task'[u].node
                      IN  /\ u = Listener
                          /\ dispatched'[m] > 0 /\ status'[m] \in {"Pending", "Skipped"}
                          /\ task'[u].pc # "running" => dispatched'[m] <= retries'[m]
    BY DEF RetryInv
  <2>1. u # t /\ task'[u] = task[u] /\ Retrying(task[u]) /\ task[u].node \in Node
    BY <1>1, <1>2, HeldAreNodes
  <2>2. /\ u = Listener
        /\ dispatched[task[u].node] > 0 /\ status[task[u].node] \in {"Pending", "Skipped"}
        /\ task[u].pc # "running" => dispatched[task[u].node] <= retries[task[u].node]
    BY <2>1 DEF ClaimInv, RetryInv
  <2>3. task[u].node # n
    BY <1>5, <1>6, <2>1, <2>2
  <2>4. QED
    BY <1>3, <2>1, <2>2, <2>3
<1>10. PendingInv'
  <2>1. ASSUME NEW m \in Node, status'[m] = "Pending"
        PROVE  dispatched'[m] = 0 \/ (Retrying(task'[Listener]) /\ task'[Listener].node = m)
    <3>1. CASE m = n
      BY <1>3, <1>5, <2>1, <3>1
    <3>2. CASE m # n
      <4>1. dispatched[m] = 0 \/ (Retrying(task[Listener]) /\ task[Listener].node = m)
        BY <1>3, <2>1, <3>2 DEF ClaimInv, PendingInv, InStatus
      <4>2. Retrying(task[Listener]) /\ task[Listener].node = m => t # Listener
        BY <1>1, <3>2
      <4>3. QED
        BY <1>2, <1>3, <4>1, <4>2, Distinct
    <3>3. QED
      BY <3>1, <3>2
  <2>2. QED
    BY <2>1 DEF PendingInv, InStatus
<1>11. FailingInv'
  <2>1. ASSUME NEW u \in Task, task'[u].pc \in {"fail", "failing", "confirm"}
        PROVE  /\ task'[u].pc = "confirm" => status'[task'[u].node] = "Failed"
               /\ u = DagTimer \/ HasStallTimeout \/ dispatched'[task'[u].node] > 0
    <3>1. task'[u] = task[u] /\ task[u].node \in Node
      BY <1>1, <1>2, <2>1, HeldAreNodes
    <3>2. /\ task[u].pc = "confirm" => status[task[u].node] = "Failed"
          /\ u = DagTimer \/ HasStallTimeout \/ dispatched[task[u].node] > 0
      BY <2>1, <3>1 DEF ClaimInv, FailingInv, At
    <3>3. task[u].pc = "confirm" /\ task[u].node = n => giveUp
      <4>1. CASE HasStallTimeout
        BY <1>1, <4>1 DEF Regular
      <4>2. CASE ~HasStallTimeout /\ task[u].pc = "confirm" /\ task[u].node = n
        <5>1. u # DagTimer
          BY <4>2 DEF FrameInv, Place
        <5>2. dispatched[n] > 0
          BY <3>2, <4>2, <5>1
        <5>3. QED
          BY <1>5, <5>2
      <4>3. QED
        BY <4>1, <4>2
    <3>4. task[u].pc = "confirm" => status'[task[u].node] = "Failed"
      BY <1>3, <3>1, <3>2, <3>3
    <3>5. QED
      BY <1>3, <3>1, <3>2, <3>4
  <2>2. QED
    BY <2>1 DEF FailingInv, At
<1>12. QuietInv'
  <2>1. task[Submitter].pc \notin {"idle", "claim"}
    BY <1>1, <1>4, QuietHolds
  <2>2. QED
    BY <1>1, <1>2, <2>1, Distinct DEF QuietInv
<1>13. QED
  BY <1>7, <1>8, <1>9, <1>10, <1>11, <1>12 DEF ClaimInv

\* The nodes left over are failed or skipped.
LEMMA ClaimsVictims ==
  ASSUME TypeInv, FrameInv, ClaimInv, NEW t \in Task, VictimsFailed(t) \/ CancelStatuses(t)
  PROVE  ClaimInv'
<1>1. UNCHANGED <<dispatched, retries>>
  BY DEF VictimsFailed, CancelStatuses, busVars
<1>2. \A n \in Node : \/ status'[n] = status[n]
                      \/ status[n] = "Pending" /\ status'[n] = "Skipped"
                      \/ status[n] = "Running" /\ status'[n] = "Failed"
  BY DEF VictimsFailed, CancelStatuses, WithStatus, InStatus
<1>3. QED
  BY <1>1, <1>2, CalmVictims, ClaimsCalm

LEMMA ClaimsNext ==
  ASSUME Regular, TypeInv, FrameInv, HistoryInv, TimersInv, StartedInv, ClaimInv, [Next]_vars
  PROVE  ClaimInv'
<1>1. CASE CalmMove /\ UNCHANGED <<status, retries, dispatched>>
  BY <1>1, ClaimsCalm
<1>2. QED
  BY <1>1, CalmOrNot, ClaimsClaimReady, ClaimsComplete, ClaimsPublish, ClaimsSubmissionError,
     ClaimsSkip, ClaimsFailure, ClaimsMarkRetry, ClaimsVictims

-----------------------------------------------------------------------------
(* The invariant of the branches. *)

\* A step that completes no node, and changes the status only of nodes that were
\* started or, to skip them, of Pending ones.
LEMMA BranchKept ==
  ASSUME BranchInv,
         \A n \in Node : \/ status'[n] = status[n]
                         \/ status[n] = "Pending" /\ status'[n] = "Skipped"
                         \/ Started(n) /\ status[n] # "Completed" /\ status'[n] # "Completed",
         \A n \in Node : dispatched'[n] > 0 => Started(n)
  PROVE  BranchInv'
<1>1. \A n \in Node : status'[n] = "Completed" <=> status[n] = "Completed"
  OBVIOUS
<1>2. ASSUME NEW n \in Node, dispatched'[n] > 0 \/ status'[n] \notin {"Pending", "Skipped"}
      PROVE  Started(n)
  BY <1>2 DEF Started
<1>3. StartedInv'
  <2>1. ASSUME NEW m \in Node, dispatched'[m] > 0 \/ status'[m] \notin {"Pending", "Skipped"},
               NEW e \in DependsOn[m]
        PROVE  status'[e] = "Completed"
    <3>1. Started(m) /\ e \in Node
      BY <1>2, <2>1, GraphAssumption
    <3>2. QED
      BY <1>1, <3>1 DEF BranchInv, StartedInv
  <2>2. QED
    BY <2>1 DEF StartedInv, Started
<1>4. ChosenInv'
  <2>1. ASSUME NEW n \in Node, status'[n] = "Completed", Targets[n] # {}
        PROVE  \E target \in Node : \A m \in Dependents({n}) \ {target} :
                  /\ ~(dispatched'[m] > 0 \/ status'[m] \notin {"Pending", "Skipped"})
                  /\ status'[m] = "Skipped"
    <3>1. PICK target \in Node :
             \A m \in Dependents({n}) \ {target} : ~Started(m) /\ status[m] = "Skipped"
      BY <1>1, <2>1 DEF BranchInv, ChosenInv, InStatus
    <3>2. ASSUME NEW m \in Dependents({n}) \ {target}
          PROVE  /\ ~(dispatched'[m] > 0 \/ status'[m] \notin {"Pending", "Skipped"})
                 /\ status'[m] = "Skipped"
      <4>1. m \in Node /\ ~Started(m) /\ status[m] = "Skipped"
        BY <3>1, <3>2 DEF Dependents
      <4>2. QED
        BY <4>1
    <3>3. QED
      BY <3>2
  <2>2. QED
    BY <2>1 DEF ChosenInv, InStatus, Started
<1>5. QED
  BY <1>3, <1>4 DEF BranchInv

LEMMA BranchClaimReady ==
  ASSUME TypeInv, FrameInv, ClaimInv, BranchInv, NEW t \in Task, ClaimReady(t)
  PROVE  BranchInv'
<1>1. PICK unmet \in SUBSET (ReadyTasks(status) \cap Conditional) :
         status' = WithStatus(SkipBelow(WithStatus(status, unmet, "Skipped"), unmet),
                              ReadyTasks(status) \ unmet, "Running")
  BY DEF ClaimReady
<1>2. /\ UNCHANGED dispatched
      /\ \A n \in Node : dispatched[n] = 0 /\ status[n] \in {"Pending", "Skipped"}
  BY QuietHolds DEF ClaimReady, At, busVars
<1>3. \A n \in Node : /\ status'[n] # "Completed"
                      /\ status'[n] \notin {"Pending", "Skipped"} => n \in ReadyTasks(status)
  BY <1>1, <1>2 DEF WithStatus, SkipBelow
<1>4. ASSUME NEW n \in ReadyTasks(status) PROVE DependsOn[n] = {}
  <2>1. n \in Node /\ \A e \in DependsOn[n] : e \in Node /\ status[e] = "Completed"
    BY <1>4, GraphAssumption DEF ReadyTasks, InStatus
  <2>2. QED
    BY <1>2, <2>1
<1>5. StartedInv'
  BY <1>2, <1>3, <1>4 DEF StartedInv, Started
<1>6. ChosenInv'
  BY <1>3 DEF ChosenInv, InStatus
<1>7. QED
  BY <1>5, <1>6 DEF BranchInv

\* The completion of a node chooses among its dependents, none of which was
\* started, and claims nodes whose dependencies are all Completed.
LEMMA BranchComplete ==
  ASSUME TypeInv, FrameInv, HistoryInv, ClaimInv, BranchInv, NEW t \in Task, CompleteNode(t)
  PROVE  BranchInv'
<1> DEFINE n == task[t].event
<1>1. /\ t = Listener /\ ~Retrying(task[t]) /\ At(t, "complete")
      /\ n \in Node /\ dispatched[n] > 0
      /\ ~CompletionIsLate(n) => /\ n \notin Dependents({n})
                                 /\ \A m \in Dependents({n}) : ~Started(m)
  BY CompletingNode DEF BranchInv
<1>2. UNCHANGED dispatched
  BY DEF CompleteNode, busVars
<1>3. CASE CompletionIsLate(n)
  <2>1. UNCHANGED status
    BY <1>3 DEF CompleteNode
  <2>2. \A m \in Node : dispatched'[m] > 0 => Started(m)
    BY <1>2 DEF Started
  <2>3. QED
    BY <2>1, <2>2, BranchKept
<1>4. CASE ~CompletionIsLate(n)
  <2>1. PICK R \in SUBSET Node, P \in SUBSET Node, C \in SUBSET Node : Completes(t, n, R, P, C)
    BY <1>1, <1>4, CompletedGraph
  <2>2. /\ R \subseteq Dependents({n}) /\ n \notin R \cup P \cup C
        /\ P \cup C \subseteq InStatus(status, "Pending") /\ C \cap (R \cup P) = {}
        /\ \A m \in Node : status'[m] = IF m \in C THEN "Running"
                                        ELSE IF m = n THEN "Completed"
                                        ELSE IF m \in R \cup P THEN "Skipped" ELSE status[m]
        /\ \A m \in C : \A e \in DependsOn[m] : status'[e] = "Completed"
        /\ Targets[n] # {} => \E target \in Node : R = Dependents({n}) \ {target}
    BY <2>1 DEF Completes
  <2>3. \A m \in Node : dispatched[m] \in Nat
    BY DEF TypeInv, TypeOK
  <2>4. ASSUME NEW m \in R PROVE status[m] \in {"Pending", "Skipped"} /\ dispatched[m] = 0
    <3>1. ~Started(m)
      BY <1>1, <1>4, <2>2, <2>4
    <3>2. QED
      BY <2>3, <2>4, <3>1 DEF Started
  <2>5. \A m \in P \cup C : status[m] = "Pending"
    BY <2>2 DEF InStatus
  <2>6. \A m \in Node : status[m] = "Completed" => status'[m] = "Completed"
    BY <2>2, <2>4, <2>5
  <2>7. StartedInv'
    <3>1. ASSUME NEW m \in Node, dispatched'[m] > 0 \/ status'[m] \notin {"Pending", "Skipped"},
                 NEW e \in DependsOn[m]
          PROVE  status'[e] = "Completed"
      <4>1. e \in Node
        BY GraphAssumption
      <4>2. CASE m \in C
        BY <2>2, <4>2
      <4>3. CASE m \notin C
        <5>1. Started(m)
          BY <1>1, <1>2, <2>2, <3>1, <4>3 DEF Started
        <5>2. status[e] = "Completed"
          BY <5>1 DEF BranchInv, StartedInv
        <5>3. QED
          BY <2>6, <4>1, <5>2
      <4>4. QED
        BY <4>2, <4>3
    <3>2. QED
      BY <3>1 DEF StartedInv, Started
  <2>8. ASSUME NEW m \in Node, ~Started(m), status[m] = "Skipped"
        PROVE  ~(dispatched'[m] > 0) /\ status'[m] = "Skipped"
    <3>1. m # n /\ m \notin C
      BY <1>1, <2>5, <2>8 DEF Started
    <3>2. QED
      BY <1>2, <2>2, <2>8, <3>1 DEF Started
  <2>9. ChosenInv'
    <3>1. ASSUME NEW k \in Node, status'[k] = "Completed", Targets[k] # {}
          PROVE  \E target \in Node : \A m \in Dependents({k}) \ {target} :
                    /\ ~(dispatched'[m] > 0 \/ status'[m] \notin {"Pending", "Skipped"})
                    /\ status'[m] = "Skipped"
      <4>1. CASE k = n
        <5>1. PICK target \in Node : R = Dependents({n}) \ {target}
          BY <2>2, <3>1, <4>1
        <5>2. ASSUME NEW m \in R
              PROVE  /\ ~(dispatched'[m] > 0 \/ status'[m] \notin {"Pending", "Skipped"})
                     /\ status'[m] = "Skipped"
          <6>1. m \in Node /\ m # n /\ m \notin C
            BY <2>2, <5>2
          <6>2. status'[m] = "Skipped" /\ dispatched'[m] = 0
            BY <1>2, <2>2, <2>4, <6>1
          <6>3. QED
            BY <6>2
        <5>3. QED
          BY <4>1, <5>1, <5>2
      <4>2. CASE k # n
        <5>1. status[k] = "Completed"
          BY <2>2, <3>1, <4>2
        <5>2. PICK target \in Node :
                 \A m \in Dependents({k}) \ {target} : ~Started(m) /\ status[m] = "Skipped"
          BY <3>1, <5>1 DEF BranchInv, ChosenInv, InStatus
        <5>3. Dependents({k}) \subseteq Node
          BY DEF Dependents
        <5>4. QED
          BY <2>8, <5>2, <5>3
      <4>3. QED
        BY <4>1, <4>2
    <3>2. QED
      BY <3>1 DEF ChosenInv, InStatus, Started
  <2>10. QED
    BY <2>7, <2>9 DEF BranchInv
<1>5. QED
  BY <1>3, <1>4

LEMMA BranchNext ==
  ASSUME TypeInv, FrameInv, HistoryInv, TimersInv, ClaimInv, BranchInv, [Next]_vars
  PROVE  BranchInv'
<1>1. ASSUME UNCHANGED dispatched,
             \A n \in Node : \/ status'[n] = status[n]
                             \/ status[n] = "Pending" /\ status'[n] = "Skipped"
                             \/ status[n] \in {"Running", "Failed"} /\ status'[n] # "Completed"
                             \/ /\ dispatched[n] > 0
                                /\ status[n] # "Completed" /\ status'[n] # "Completed"
      PROVE  BranchInv'
  <2>1. \A n \in Node : \/ status'[n] = status[n]
                        \/ status[n] = "Pending" /\ status'[n] = "Skipped"
                        \/ Started(n) /\ status[n] # "Completed" /\ status'[n] # "Completed"
    BY <1>1 DEF Started
  <2>2. \A n \in Node : dispatched'[n] > 0 => Started(n)
    BY <1>1 DEF Started
  <2>3. QED
    BY <2>1, <2>2, BranchKept
<1>2. CASE CalmMove /\ UNCHANGED <<status, retries, dispatched>>
  BY <1>1, <1>2
<1>3. ASSUME NEW t \in Task, PublishTaskSubmit(t) PROVE BranchInv'
  <2> DEFINE n == task[t].node
  <2>1. /\ UNCHANGED status
        /\ \A m \in Node : dispatched'[m] = IF m = n THEN dispatched[m] + 1 ELSE dispatched[m]
    BY <1>3 DEF PublishTaskSubmit, graphVars, TypeInv, TypeOK
  <2>2. Started(n)
    <3>1. Submits(task[t]) /\ n \in Node /\ (task[t].op = "failed" => Retrying(task[t]))
      BY <1>3, PublishFrame
    <3>2. CASE task[t].op = "failed"
      BY <3>1, <3>2 DEF ClaimInv, RetryInv, Started
    <3>3. CASE task[t].op # "failed"
      <4>1. n \in Claims(task[t])
        BY <3>1, <3>3 DEF Claims
      <4>2. QED
        BY <4>1 DEF ClaimInv, HeldInv, Started
    <3>4. QED
      BY <3>2, <3>3
  <2>3. \A m \in Node : dispatched'[m] > 0 => Started(m)
    BY <2>1, <2>2 DEF Started
  <2>4. QED
    BY <2>1, <2>3, BranchKept
<1>4. ASSUME NEW t \in Task, SubmissionError(t) PROVE BranchInv'
  <2> DEFINE n == task[t].node
  <2>1. /\ UNCHANGED dispatched
        /\ n \in Node => status'[n] # "Completed"
        /\ \A m \in Node : m # n => status'[m] = status[m]
    BY <1>4 DEF SubmissionError, WithStatus, busVars
  <2>2. Submits(task[t]) /\ n \in Node /\ (task[t].op = "failed" => Retrying(task[t]))
    BY <1>4, SubmissionErrorFrame
  <2>3. status[n] \in {"Running", "Failed"} \/ (dispatched[n] > 0 /\ status[n] # "Completed")
    <3>1. CASE task[t].op = "failed"
      BY <2>2, <3>1 DEF ClaimInv, RetryInv
    <3>2. CASE task[t].op # "failed"
      <4>1. n \in Claims(task[t])
        BY <2>2, <3>2 DEF Claims
      <4>2. QED
        BY <4>1 DEF ClaimInv, HeldInv
    <3>3. QED
      BY <3>1, <3>2
  <2>4. QED
    BY <1>1, <2>1, <2>2, <2>3
<1>5. ASSUME NEW t \in Task, CollectDownstream(t) \/ SkipCollected(t) PROVE BranchInv'
  <2>1. UNCHANGED dispatched
    BY <1>5 DEF CollectDownstream, SkipCollected, busVars
  <2>2. \A n \in Node : \/ status'[n] = status[n]
                        \/ status[n] = "Pending" /\ status'[n] = "Skipped"
    BY <1>5 DEF CollectDownstream, SkipCollected, graphVars, WithStatus, InStatus
  <2>3. QED
    BY <1>1, <2>1, <2>2
<1>6. ASSUME NEW t \in Task, ClaimFailure(t) \/ ConfirmFailed(t) PROVE BranchInv'
  <2>1. UNCHANGED dispatched
    BY <1>6 DEF ClaimFailure, ConfirmFailed, busVars
  <2>2. CASE ClaimFailure(t)
    <3>1. \A n \in Node : \/ status'[n] = status[n]
                          \/ status[n] = "Running" /\ status'[n] \in {"Pending", "Failed"}
      BY <2>2 DEF ClaimFailure, FailureIsClaimed, WithStatus
    <3>2. QED
      BY <1>1, <2>1, <3>1
  <2>3. CASE ConfirmFailed(t)
    <3>1. status[task[t].node] = "Failed"
      BY <2>3 DEF ConfirmFailed, ClaimInv, FailingInv
    <3>2. \A n \in Node : status'[n] = status[n]
      BY <2>3, <3>1 DEF ConfirmFailed, WithStatus
    <3>3. QED
      BY <1>1, <2>1, <3>2
  <2>4. QED
    BY <1>6, <2>2, <2>3
<1>7. ASSUME NEW t \in Task, MarkRetryRunning(t) PROVE BranchInv'
  <2> DEFINE n == task[t].node
  <2>1. dispatched[n] > 0 /\ status[n] \in {"Pending", "Skipped"}
    BY <1>7 DEF MarkRetryRunning, At, ClaimInv, RetryInv, Retrying
  <2>2. /\ UNCHANGED dispatched
        /\ \A m \in Node : status'[m] = IF m = n THEN "Running" ELSE status[m]
    BY <1>7 DEF MarkRetryRunning, WithStatus, busVars
  <2>3. QED
    BY <1>1, <2>1, <2>2
<1>8. ASSUME NEW t \in Task, VictimsFailed(t) \/ CancelStatuses(t) PROVE BranchInv'
  <2>1. UNCHANGED dispatched
    BY <1>8 DEF VictimsFailed, CancelStatuses, busVars
  <2>2. \A n \in Node : \/ status'[n] = status[n]
                        \/ status[n] = "Pending" /\ status'[n] = "Skipped"
                        \/ status[n] = "Running" /\ status'[n] = "Failed"
    BY <1>8 DEF VictimsFailed, CancelStatuses, WithStatus, InStatus
  <2>3. QED
    BY <1>1, <2>1, <2>2
<1>9. QED
  BY <1>2, <1>3, <1>4, <1>5, <1>6, <1>7, <1>8, CalmOrNot, BranchClaimReady, BranchComplete

-----------------------------------------------------------------------------
(* The invariant of the failures. *)

\* A step that makes no node Pending.  What it fails or skips is covered
\* afterwards, no cover is lost, and what is collected was closed.
LEMMA ReachKept ==
  ASSUME ReachInv,
         \A m \in Node : status'[m] = "Pending" => status[m] = "Pending",
         \A e \in Node : status[e] = "Completed" => status'[e] = "Completed",
         \A m \in Node : status'[m] = "Pending" => \A e \in DependsOn[m] :
            /\ status'[e] \in {"Failed", "Skipped"} /\ status[e] \notin {"Failed", "Skipped"}
                 => \E u \in Task : Covers(task'[u], e, m)
            /\ \A u \in Task : Covers(task[u], e, m) => \E w \in Task : Covers(task'[w], e, m),
         \A u \in Task : task'[u].pc = "mark" => task'[u] = task[u]
            \/ \A m \in InStatus(status, "Pending") :
                  DependsOn[m] \cap task'[u].skip # {} => m \in task'[u].skip
  PROVE  ReachInv'
<1>1. ASSUME NEW m \in Node, status'[m] = "Pending", NEW e \in DependsOn[m],
             status'[e] \in {"Failed", "Skipped"}
      PROVE  \E u \in Task : Covers(task'[u], e, m)
  <2>1. CASE status[e] \in {"Failed", "Skipped"}
    <3>1. \E u \in Task : Covers(task[u], e, m)
      BY <1>1, <2>1 DEF ReachInv, InStatus
    <3>2. QED
      BY <1>1, <3>1
  <2>2. CASE status[e] \notin {"Failed", "Skipped"}
    BY <1>1, <2>2
  <2>3. QED
    BY <2>1, <2>2
<1>2. ASSUME NEW u \in Task, task'[u].pc = "mark", NEW e \in task'[u].skip,
             NEW m \in Node, status'[m] = "Pending", e \in DependsOn[m]
      PROVE  m \in task'[u].skip \/ status'[e] = "Completed"
  <2>1. status[m] = "Pending" /\ e \in Node
    BY <1>2, GraphAssumption
  <2>2. CASE task'[u] = task[u]
    BY <1>2, <2>1, <2>2 DEF ReachInv, InStatus, At
  <2>3. CASE task'[u] # task[u]
    BY <1>2, <2>1, <2>3 DEF InStatus
  <2>4. QED
    BY <2>2, <2>3
<1>3. QED
  BY <1>1, <1>2 DEF ReachInv, InStatus, At

\* A calm step drops a cover only when no node is Pending.
LEMMA ReachCalm ==
  ASSUME ReachInv, CalmMove, UNCHANGED status
  PROVE  ReachInv'
<1>1. \A u \in Task : task'[u].pc = "mark" => task'[u] = task[u]
  BY DEF CalmMove, Calm
<1>2. ASSUME NEW m \in Node, status[m] = "Pending", NEW u \in Task, NEW e, Covers(task[u], e, m)
      PROVE  task'[u] = task[u]
  <2>1. task[u].pc \in {"confirm", "scan", "mark"}
    BY <1>2 DEF Covers
  <2>2. ~IsComplete(status)
    BY <1>2 DEF IsComplete, Terminal
  <2>3. QED
    BY <2>1, <2>2 DEF CalmMove, Calm
<1>3. \A m \in Node : status[m] = "Pending" => \A e \in DependsOn[m] :
         \A u \in Task : Covers(task[u], e, m) => \E w \in Task : Covers(task'[w], e, m)
  BY <1>2
<1>4. QED
  BY <1>1, <1>3, ReachKept

\* A step of t, which covered nothing and does not collect, that fails and skips
\* nothing and makes only nodes Pending whose dependencies are Completed.
LEMMA ReachStep ==
  ASSUME TypeInv, ReachInv, NEW t \in Task, NEW g, Step(t, g),
         task[t].pc \notin {"confirm", "scan", "mark"}, g.pc # "mark",
         \A m \in Node : status'[m] = "Pending" =>
            \/ status[m] = "Pending"
            \/ \A e \in DependsOn[m] : status[e] = "Completed",
         \A e \in Node : status[e] = "Completed" => status'[e] = "Completed",
         \A e \in Node : status'[e] \in {"Failed", "Skipped"} /\ status[e] \notin {"Failed", "Skipped"}
            => g.pc \in {"confirm", "scan"} /\ g.node = e
  PROVE  ReachInv'
<1>1. \A u \in Task : task'[u] = IF u = t THEN g ELSE task[u]
  BY DEF Step, TypeInv, TypeOK
<1>2. ASSUME NEW m \in Node, status'[m] = "Pending", NEW e \in DependsOn[m],
             status'[e] \in {"Failed", "Skipped"}
      PROVE  \E u \in Task : Covers(task'[u], e, m)
  <2>1. e \in Node /\ status[e] # "Completed"
    BY <1>2, GraphAssumption
  <2>2. status[m] = "Pending"
    BY <1>2, <2>1
  <2>3. CASE status[e] \in {"Failed", "Skipped"}
    <3>1. PICK u \in Task : Covers(task[u], e, m)
      BY <2>2, <2>3 DEF ReachInv, InStatus
    <3>2. u # t
      BY <3>1 DEF Covers
    <3>3. QED
      BY <1>1, <3>1, <3>2
  <2>4. CASE status[e] \notin {"Failed", "Skipped"}
    <3>1. g.pc \in {"confirm", "scan"} /\ g.node = e
      BY <1>2, <2>1, <2>4
    <3>2. QED
      BY <1>1, <3>1 DEF Covers
  <2>5. QED
    BY <2>3, <2>4
<1>3. ASSUME NEW u \in Task, task'[u].pc = "mark", NEW e \in task'[u].skip,
             NEW m \in Node, status'[m] = "Pending", e \in DependsOn[m]
      PROVE  m \in task'[u].skip \/ status'[e] = "Completed"
  <2>1. task'[u] = task[u] /\ e \in Node
    BY <1>1, <1>3, GraphAssumption
  <2>2. CASE status[m] = "Pending"
    BY <1>3, <2>1, <2>2 DEF ReachInv, InStatus, At
  <2>3. CASE status[m] # "Pending"
    BY <1>3, <2>1, <2>3
  <2>4. QED
    BY <2>2, <2>3
<1>4. QED
  BY <1>2, <1>3 DEF ReachInv, InStatus, At

LEMMA ReachClaimReady ==
  ASSUME TypeInv, FrameInv, ClaimInv, ReachInv, NEW t \in Task, ClaimReady(t)
  PROVE  ReachInv'
<1>1. PICK unmet \in SUBSET (ReadyTasks(status) \cap Conditional) :
         /\ status' = WithStatus(SkipBelow(WithStatus(status, unmet, "Skipped"), unmet),
                                 ReadyTasks(status) \ unmet, "Running")
         /\ Step(t, [task[t] EXCEPT !.pc = "next", !.todo = ReadyTasks(status) \ unmet])
  BY DEF ClaimReady
<1> DEFINE C == ReadyTasks(status) \ unmet
           mid == WithStatus(status, unmet, "Skipped")
           P == PendingBelow(mid, unmet)
<1>2. At(t, "claim") /\ t = Submitter
  BY DEF ClaimReady
<1>3. \A n \in Node : status[n] \in {"Pending", "Skipped"}
  BY <1>2, QuietHolds DEF At
<1>4. C \in SUBSET Node /\ unmet \in SUBSET Node
  BY DEF ReadyTasks, InStatus
<1>5. PICK g : Step(t, g) /\ g.pc = "next"
  BY <1>1, <1>2, <1>4, ClaimFrame
<1>6. \A u \in Task : task'[u] = IF u = t THEN g ELSE task[u]
  BY <1>5 DEF Step, TypeInv, TypeOK
<1>7. /\ P \subseteq InStatus(mid, "Pending")
      /\ Dependents(unmet \cup P) \cap InStatus(mid, "Pending") \subseteq P
  BY <1>4, PendingBelowFacts
<1>8. \A m \in Node : /\ mid[m] = IF m \in unmet THEN "Skipped" ELSE status[m]
                      /\ status'[m] = IF m \in C THEN "Running"
                                      ELSE IF m \in unmet \cup P THEN "Skipped" ELSE status[m]
  BY <1>1 DEF WithStatus, SkipBelow
<1> HIDE DEF C, mid, P
<1>9. ASSUME NEW m \in Node, status'[m] = "Pending", NEW e \in DependsOn[m]
      PROVE  /\ status'[e] \in {"Failed", "Skipped"} => status[e] \in {"Failed", "Skipped"}
             /\ \A u \in Task : Covers(task[u], e, m) => task'[u] = task[u]
  <2>1. e \in Node
    BY GraphAssumption
  <2>2. m \in InStatus(mid, "Pending") /\ m \notin P
    BY <1>8, <1>9 DEF InStatus
  <2>3. e \notin unmet \cup P
    BY <1>7, <2>2 DEF Dependents, InStatus
  <2>4. status'[e] \in {"Failed", "Skipped"} => status[e] \in {"Failed", "Skipped"}
    BY <1>3, <1>8, <2>1, <2>3
  <2>5. \A u \in Task : Covers(task[u], e, m) => task'[u] = task[u]
    BY <1>2, <1>6 DEF Covers, At
  <2>6. QED
    BY <2>4, <2>5
<1>10. \A m \in Node : status'[m] = "Pending" => status[m] = "Pending"
  BY <1>8
<1>11. \A e \in Node : status[e] # "Completed"
  BY <1>3
<1>12. \A u \in Task : task'[u].pc = "mark" => task'[u] = task[u]
  BY <1>5, <1>6
<1>13. QED
  BY <1>9, <1>10, <1>11, <1>12, ReachKept

LEMMA ReachComplete ==
  ASSUME TypeInv, FrameInv, HistoryInv, StartedInv, ReachInv, NEW t \in Task, CompleteNode(t)
  PROVE  ReachInv'
<1> DEFINE n == task[t].event
<1>1. /\ t = Listener /\ At(t, "complete") /\ n \in Node
      /\ ~CompletionIsLate(n) => /\ n \notin Dependents({n})
                                 /\ \A m \in Dependents({n}) : ~Started(m)
  BY CompletingNode
<1>2. CASE CompletionIsLate(n)
  <2>1. Goto(t, "ack") /\ UNCHANGED status
    BY <1>2 DEF CompleteNode
  <2>2. QED
    BY <1>1, <2>1, LateCompletionIsCalm, ReachCalm
<1>3. CASE ~CompletionIsLate(n)
  <2>1. PICK R \in SUBSET Node, P \in SUBSET Node, C \in SUBSET Node : Completes(t, n, R, P, C)
    BY <1>1, <1>3, CompletedGraph
  <2>2. /\ R \subseteq Dependents({n}) /\ n \notin R \cup P \cup C
        /\ P \cup C \subseteq InStatus(status, "Pending") /\ C \cap (R \cup P) = {}
        /\ \A m \in Node : status'[m] = IF m \in C THEN "Running"
                                        ELSE IF m = n THEN "Completed"
                                        ELSE IF m \in R \cup P THEN "Skipped" ELSE status[m]
        /\ \A m \in InStatus(status, "Pending") \ R :
              m # n /\ DependsOn[m] \cap (R \cup P) # {} => m \in P
    BY <2>1 DEF Completes
  <2>3. PICK g : Step(t, g) /\ g.pc = "next"
    <3>1. Step(t, [task[t] EXCEPT !.pc = "next", !.todo = C])
      BY <2>1 DEF Completes
    <3>2. QED
      BY <1>1, <3>1, ClaimFrame
  <2>4. \A u \in Task : task'[u] = IF u = t THEN g ELSE task[u]
    BY <2>3 DEF Step, TypeInv, TypeOK
  <2>5. \A m \in R : status[m] \in {"Pending", "Skipped"}
    BY <1>1, <1>3, <2>2 DEF Started
  <2>6. \A m \in P \cup C : status[m] = "Pending"
    BY <2>2 DEF InStatus
  <2>7. \A m \in Node : status[m] = "Completed" => status'[m] = "Completed"
    BY <2>2, <2>5, <2>6
  <2>8. \A m \in Node : status'[m] = "Pending"
           => status[m] = "Pending" /\ m # n /\ m \notin R \cup P \cup C
    BY <2>2
  <2>9. ASSUME NEW m \in Node, status'[m] = "Pending", NEW e \in DependsOn[m]
        PROVE  /\ status'[e] \in {"Failed", "Skipped"} => status[e] \in {"Failed", "Skipped"}
               /\ \A u \in Task : Covers(task[u], e, m) => task'[u] = task[u]
    <3>1. e \in Node
      BY GraphAssumption
    <3>2. e \notin R \cup P
      BY <2>2, <2>8, <2>9 DEF InStatus
    <3>3. status'[e] \in {"Failed", "Skipped"} => status[e] \in {"Failed", "Skipped"}
      BY <2>2, <3>1, <3>2
    <3>4. \A u \in Task : Covers(task[u], e, m) => task'[u] = task[u]
      BY <1>1, <2>4 DEF Covers, At
    <3>5. QED
      BY <3>3, <3>4
  <2>10. \A u \in Task : task'[u].pc = "mark" => task'[u] = task[u]
    BY <2>3, <2>4
  <2>11. QED
    BY <2>7, <2>8, <2>9, <2>10, ReachKept
<1>4. QED
  BY <1>2, <1>3

\* skip_downstream: what is collected was closed, so that what is skipped leaves
\* no Pending node below it.
LEMMA ReachSkip ==
  ASSUME TypeInv, FrameInv, ReachInv, NEW t \in Task, CollectDownstream(t) \/ SkipCollected(t)
  PROVE  ReachInv'
<1>1. CASE CollectDownstream(t)
  <2> DEFINE n == task[t].node
  <2>1. PICK g : /\ Step(t, g) /\ task[t].pc = "scan" /\ g.pc = "mark" /\ n \in Node
                 /\ g.skip = PendingBelow(status, {n})
    BY <1>1, CollectFrame
  <2>2. \A u \in Task : task'[u] = IF u = t THEN g ELSE task[u]
    BY <2>1 DEF Step, TypeInv, TypeOK
  <2>3. UNCHANGED status
    BY <1>1 DEF CollectDownstream, graphVars
  <2>4. Dependents({n} \cup g.skip) \cap InStatus(status, "Pending") \subseteq g.skip
    <3> DEFINE P == PendingBelow(status, {n})
    <3>1. {n} \in SUBSET Node
      BY <2>1
    <3>2. Dependents({n} \cup P) \cap InStatus(status, "Pending") \subseteq P
      BY <3>1, PendingBelowFacts
    <3>3. g.skip = P
      BY <2>1
    <3> HIDE DEF P
    <3>4. QED
      BY <3>2, <3>3
  <2>5. \A m \in InStatus(status, "Pending") : DependsOn[m] \cap ({n} \cup g.skip) # {} => m \in g.skip
    BY <2>4 DEF Dependents, InStatus
  <2>6. ASSUME NEW m \in Node, status[m] = "Pending", NEW e \in DependsOn[m],
               NEW u \in Task, Covers(task[u], e, m)
        PROVE  Covers(task'[u], e, m)
    <3>1. CASE u = t
      <4>1. e = n
        BY <2>1, <2>6, <3>1 DEF Covers
      <4>2. m \in g.skip
        BY <2>5, <2>6, <4>1 DEF InStatus
      <4>3. QED
        BY <2>1, <2>2, <3>1, <4>2 DEF Covers
    <3>2. CASE u # t
      BY <2>2, <2>6, <3>2
    <3>3. QED
      BY <3>1, <3>2
  <2>7. \A u \in Task : task'[u].pc = "mark" => task'[u] = task[u]
          \/ \A m \in InStatus(status, "Pending") :
                DependsOn[m] \cap task'[u].skip # {} => m \in task'[u].skip
    BY <2>2, <2>5
  <2>8. QED
    BY <2>3, <2>6, <2>7, ReachKept
<1>2. CASE SkipCollected(t)
  <2> DEFINE S == task[t].skip
  <2>1. PICK g : Step(t, g) /\ task[t].pc = "mark" /\ g.pc \in {"save", "next"}
    BY <1>2, SkipFrame
  <2>2. \A u \in Task : task'[u] = IF u = t THEN g ELSE task[u]
    BY <2>1 DEF Step, TypeInv, TypeOK
  <2>3. \A m \in Node : status'[m] = IF m \in S /\ status[m] = "Pending" THEN "Skipped" ELSE status[m]
    BY <1>2 DEF SkipCollected, WithStatus, InStatus
  <2>4. ASSUME NEW m \in Node, status'[m] = "Pending", NEW e \in DependsOn[m]
        PROVE  /\ status'[e] \in {"Failed", "Skipped"} => status[e] \in {"Failed", "Skipped"}
               /\ \A u \in Task : Covers(task[u], e, m) => task'[u] = task[u]
    <3>1. status[m] = "Pending" /\ m \notin S /\ e \in Node
      BY <2>3, <2>4, GraphAssumption
    <3>2. e \notin S \/ status[e] = "Completed"
      BY <2>1, <2>4, <3>1 DEF ReachInv, InStatus, At
    <3>3. status'[e] \in {"Failed", "Skipped"} => status[e] \in {"Failed", "Skipped"}
      BY <2>3, <3>1, <3>2
    <3>4. \A u \in Task : Covers(task[u], e, m) => task'[u] = task[u]
      BY <2>1, <2>2, <3>1 DEF Covers
    <3>5. QED
      BY <3>3, <3>4
  <2>5. \A m \in Node : status'[m] = "Pending" => status[m] = "Pending"
    BY <2>3
  <2>6. \A e \in Node : status[e] = "Completed" => status'[e] = "Completed"
    BY <2>3
  <2>7. \A u \in Task : task'[u].pc = "mark" => task'[u] = task[u]
    BY <2>1, <2>2
  <2>8. QED
    BY <2>4, <2>5, <2>6, <2>7, ReachKept
<1>3. QED
  BY <1>1, <1>2

\* A node goes back to Pending only if it was started, so that nothing below a
\* Failed or a Skipped one does; one that fails is below its task's cover.
LEMMA ReachSubmissionError ==
  ASSUME TypeInv, FrameInv, ClaimInv, StartedInv, ReachInv, NEW t \in Task, SubmissionError(t)
  PROVE  ReachInv'
<1> DEFINE f == task[t]
           n == f.node
           giveUp == f.op = "failed" \/ f.err = "permanent"
<1>1. PICK g : /\ Step(t, g) /\ Submits(f) /\ n \in Node \ f.todo /\ g.node = n
               /\ f.op = "failed" => Retrying(f)
               /\ giveUp => g.pc = "scan"
               /\ ~giveUp => g.pc = "next"
               /\ f.pc = "suberr"
  BY SubmissionErrorFrame
<1>2. \A m \in Node : status'[m] = IF m # n THEN status[m]
                                   ELSE IF giveUp THEN "Failed" ELSE "Pending"
  BY DEF SubmissionError, WithStatus
<1>3. f.op # "failed" => status[n] \in {"Running", "Failed"}
  <2>1. f.op # "failed" => n \in Claims(f)
    BY <1>1 DEF Claims
  <2>2. QED
    BY <2>1 DEF ClaimInv, HeldInv
<1>4. f.op = "failed" => status[n] \in {"Pending", "Skipped"}
  BY <1>1 DEF ClaimInv, RetryInv
<1>5. f.op # "failed" => \A e \in DependsOn[n] : status[e] = "Completed"
  BY <1>1, <1>3 DEF StartedInv, Started
<1>6. \A m \in Node : status'[m] = "Pending" =>
         status[m] = "Pending" \/ \A e \in DependsOn[m] : status[e] = "Completed"
  BY <1>2, <1>5
<1>7. \A e \in Node : status[e] = "Completed" => status'[e] = "Completed"
  BY <1>2, <1>3, <1>4
<1>8. \A e \in Node : status'[e] \in {"Failed", "Skipped"} /\ status[e] \notin {"Failed", "Skipped"}
         => g.pc \in {"confirm", "scan"} /\ g.node = e
  BY <1>1, <1>2
<1>9. f.pc \notin {"confirm", "scan", "mark"} /\ g.pc # "mark"
  BY <1>1
<1>10. QED
  BY <1>1, <1>6, <1>7, <1>8, <1>9, ReachStep

LEMMA ReachFailure ==
  ASSUME TypeInv, FrameInv, StartedInv, ReachInv, NEW t \in Task, ClaimFailure(t)
  PROVE  ReachInv'
<1> DEFINE n == task[t].node
<1>1. At(t, "failing")
  BY DEF ClaimFailure
<1>2. n \in Node
  BY <1>1, HeldAreNodes DEF At
<1>3. CASE ~FailureIsClaimed(n)
  <2>1. Return(t, task[t]) /\ UNCHANGED status
    BY <1>3 DEF ClaimFailure
  <2>2. CalmMove
    BY <1>1, <2>1, IgnoredFailureIsCalm
  <2>3. QED
    BY <2>1, <2>2, ReachCalm
<1>4. ASSUME FailureIsClaimed(n),
             NEW pc \in {"backoff", "confirm"}, Goto(t, pc), pc = "backoff" => ~NoRetries,
             status' = WithStatus(status, {n}, IF pc = "backoff" THEN "Pending" ELSE "Failed")
      PROVE  ReachInv'
  <2>1. PICK g : /\ Step(t, g) /\ g.node = n /\ task[t].pc = "failing" /\ g.pc = pc
    BY <1>1, <1>4, ClaimFailureFrame
  <2>2. /\ status[n] = "Running"
        /\ \A m \in Node : status'[m] = IF m # n THEN status[m]
                                        ELSE IF pc = "backoff" THEN "Pending" ELSE "Failed"
    BY <1>4 DEF FailureIsClaimed, WithStatus
  <2>3. \A e \in DependsOn[n] : status[e] = "Completed"
    BY <1>2, <2>2 DEF StartedInv, Started
  <2>4. \A m \in Node : status'[m] = "Pending" =>
           status[m] = "Pending" \/ \A e \in DependsOn[m] : status[e] = "Completed"
    BY <2>2, <2>3
  <2>5. \A e \in Node : status[e] = "Completed" => status'[e] = "Completed"
    BY <2>2
  <2>6. \A e \in Node : status'[e] \in {"Failed", "Skipped"} /\ status[e] \notin {"Failed", "Skipped"}
           => g.pc \in {"confirm", "scan"} /\ g.node = e
    BY <1>4, <2>1, <2>2
  <2>7. task[t].pc \notin {"confirm", "scan", "mark"} /\ g.pc # "mark"
    BY <1>4, <2>1
  <2>8. QED
    BY <2>1, <2>4, <2>5, <2>6, <2>7, ReachStep
<1>5. CASE FailureIsClaimed(n) /\ MayRetry(n)
  <2>1. Goto(t, "backoff") /\ status' = WithStatus(status, {n}, "Pending")
    BY <1>5 DEF ClaimFailure
  <2>2. ~NoRetries
    BY <1>2, <1>5 DEF MayRetry, NoRetries, TypeInv, TypeOK
  <2>3. QED
    BY <1>4, <1>5, <2>1, <2>2
<1>6. CASE FailureIsClaimed(n) /\ ~MayRetry(n)
  <2>1. Goto(t, "confirm") /\ status' = WithStatus(status, {n}, "Failed")
    BY <1>6 DEF ClaimFailure
  <2>2. QED
    BY <1>4, <1>6, <2>1
<1>7. QED
  BY <1>3, <1>5, <1>6

\* The second update of a Failed node leaves it to the same task.
LEMMA ReachConfirm ==
  ASSUME TypeInv, FrameInv, ClaimInv, ReachInv, NEW t \in Task, ConfirmFailed(t)
  PROVE  ReachInv'
<1> DEFINE n == task[t].node
<1>1. PICK g : Step(t, g) /\ g.node = n /\ task[t].pc = "confirm" /\ g.pc = "scan"
  BY ConfirmFrame
<1>2. \A u \in Task : task'[u] = IF u = t THEN g ELSE task[u]
  BY <1>1 DEF Step, TypeInv, TypeOK
<1>3. \A m \in Node : status'[m] = status[m]
  <2>1. status[n] = "Failed"
    BY <1>1 DEF ClaimInv, FailingInv, At
  <2>2. QED
    BY <2>1 DEF ConfirmFailed, WithStatus
<1>4. ASSUME NEW m \in Node, status'[m] = "Pending", NEW e \in DependsOn[m]
      PROVE  /\ status'[e] \in {"Failed", "Skipped"} => status[e] \in {"Failed", "Skipped"}
             /\ \A u \in Task : Covers(task[u], e, m) => Covers(task'[u], e, m)
  <2>1. status'[e] \in {"Failed", "Skipped"} => status[e] \in {"Failed", "Skipped"}
    BY <1>3, GraphAssumption
  <2>2. \A u \in Task : Covers(task[u], e, m) => Covers(task'[u], e, m)
    BY <1>1, <1>2 DEF Covers
  <2>3. QED
    BY <2>1, <2>2
<1>5. \A u \in Task : task'[u].pc = "mark" => task'[u] = task[u]
  BY <1>1, <1>2
<1>6. \A m \in Node : status'[m] = "Pending" => status[m] = "Pending"
  BY <1>3
<1>7. \A e \in Node : status[e] = "Completed" => status'[e] = "Completed"
  BY <1>3
<1>8. QED
  BY <1>4, <1>5, <1>6, <1>7, ReachKept

LEMMA ReachMarkRetry ==
  ASSUME TypeInv, FrameInv, ClaimInv, ReachInv, NEW t \in Task, MarkRetryRunning(t)
  PROVE  ReachInv'
<1> DEFINE n == task[t].node
<1>1. PICK g : /\ Step(t, g) /\ Retrying(task[t]) /\ task[t].pc = "running"
               /\ g.pc \in {"ack", "nak", "victims", "idle", "off"}
  BY MarkRetryFrame
<1>2. status[n] \in {"Pending", "Skipped"}
  BY <1>1 DEF ClaimInv, RetryInv
<1>3. \A m \in Node : status'[m] = IF m = n THEN "Running" ELSE status[m]
  BY DEF MarkRetryRunning, WithStatus
<1>4. \A m \in Node : status'[m] = "Pending" => status[m] = "Pending"
  BY <1>3
<1>5. \A e \in Node : status[e] = "Completed" => status'[e] = "Completed"
  BY <1>2, <1>3
<1>6. \A e \in Node : status'[e] \in {"Failed", "Skipped"} => status[e] \in {"Failed", "Skipped"}
  BY <1>3
<1>7. task[t].pc \notin {"confirm", "scan", "mark"} /\ g.pc # "mark"
  BY <1>1
<1>8. QED
  BY <1>1, <1>4, <1>5, <1>6, <1>7, ReachStep

LEMMA ReachPublish ==
  ASSUME TypeInv, FrameInv, ReachInv, NEW t \in Task, PublishTaskSubmit(t)
  PROVE  ReachInv'
<1>1. PICK g : Step(t, g) /\ task[t].pc = "publish" /\ g.pc \in {"running", "next"}
  BY PublishFrame
<1>2. UNCHANGED status
  BY DEF PublishTaskSubmit, graphVars
<1>3. task[t].pc \notin {"confirm", "scan", "mark"} /\ g.pc # "mark"
  BY <1>1
<1>4. QED
  BY <1>1, <1>2, <1>3, ReachStep

\* The DAG timeout and the cancellation leave no node Pending.
LEMMA ReachVictims ==
  ASSUME TypeInv, FrameInv, ReachInv, NEW t \in Task, VictimsFailed(t) \/ CancelStatuses(t)
  PROVE  ReachInv'
<1>1. CalmMove
  BY CalmVictims
<1>2. CASE VictimsFailed(t) /\ t # DagTimer
  <2>1. UNCHANGED status
    BY <1>2 DEF VictimsFailed
  <2>2. QED
    BY <1>1, <2>1, ReachCalm
<1>3. CASE CancelStatuses(t) \/ (VictimsFailed(t) /\ t = DagTimer)
  <2>1. \A m \in Node : status'[m] # "Pending"
    BY <1>3 DEF CancelStatuses, VictimsFailed, WithStatus, InStatus
  <2>2. \A m \in Node : status[m] = "Completed" => status'[m] = "Completed"
    BY <1>3 DEF CancelStatuses, VictimsFailed, WithStatus, InStatus
  <2>3. \A u \in Task : task'[u].pc = "mark" => task'[u] = task[u]
    BY <1>1 DEF CalmMove, Calm
  <2>4. QED
    BY <2>1, <2>2, <2>3, ReachKept
<1>4. QED
  BY <1>2, <1>3

LEMMA ReachNext ==
  ASSUME TypeInv, FrameInv, HistoryInv, TimersInv, ClaimInv, StartedInv, ReachInv, [Next]_vars
  PROVE  ReachInv'
<1>1. CASE CalmMove /\ UNCHANGED <<status, retries, dispatched>>
  BY <1>1, ReachCalm
<1>2. QED
  BY <1>1, CalmOrNot, ReachClaimReady, ReachComplete, ReachPublish, ReachSubmissionError, ReachSkip,
     ReachFailure, ReachConfirm, ReachMarkRetry, ReachVictims

-----------------------------------------------------------------------------
(* The invariant, and the safety properties it gives. *)

LEMMA InitInv == Init => Inv
<1> SUFFICES ASSUME Init PROVE Inv
  OBVIOUS
<1>1. /\ \A n \in Node : status[n] = "Pending" /\ dispatched[n] = 0 /\ retries[n] = 0
      /\ \A n \in Node : outstanding[n] = 0 /\ completions[n] = 0 /\ failures[n] = 0 /\ stray[n] = 0
      /\ armed = {}
      /\ \A u \in Task : task[u] = Resting(IF \/ u \in {DagTimer, StallTimer}
                                              \/ u = Canceller /\ ~Cancellable
                                           THEN "off" ELSE "idle")
  BY DEF Init
<1>2. ASSUME NEW u \in Task
      PROVE  /\ FrameOK(task[u]) /\ Claims(task[u]) = {} /\ ~Retrying(task[u])
             /\ task[u].pc = IF u \in {DagTimer, StallTimer} \/ (u = Canceller /\ ~Cancellable)
                             THEN "off" ELSE "idle"
             /\ task[u].op = "none" /\ task[u].after = "return"
  BY <1>1, RestingIsCalm
<1>3. FrameInv
  <2>1. ASSUME NEW u \in Task PROVE Place(u, task[u])
    <3>1. /\ u \in {Listener, Submitter} \cup Watcher => task[u].pc = "idle"
          /\ u \in {DagTimer, StallTimer} => task[u].pc = "off"
          /\ u = Canceller => task[u].pc \in {"idle", "off"}
          /\ u = Canceller /\ ~Cancellable => task[u].pc = "off"
          /\ task[u].op = "none" /\ task[u].after = "return"
      BY <1>2, Distinct
    <3>2. QED
      BY <3>1, Distinct DEF Place
  <2>2. QED
    BY <1>2, <2>1 DEF FrameInv
<1>4. TimersInv /\ HistoryInv
  BY <1>1, <1>2, Distinct DEF TimersInv, HistoryInv, At
<1>5. \A u \in Task : task[u].pc \in {"idle", "off"}
  BY <1>2
<1>6. ClaimInv
  <2>1. SentInv /\ PendingInv
    BY <1>1 DEF SentInv, NoDoubleExecution, PendingInv, InStatus
  <2>2. HeldInv /\ RetryInv
    BY <1>2 DEF HeldInv, RetryInv
  <2>3. FailingInv /\ QuietInv
    BY <1>1, <1>2, <1>5, Distinct DEF FailingInv, QuietInv, At
  <2>4. QED
    BY <2>1, <2>2, <2>3 DEF ClaimInv
<1>7. BranchInv
  BY <1>1 DEF BranchInv, StartedInv, ChosenInv, Started, InStatus
<1>8. ReachInv
  <2>1. \A m \in Node : \A e \in DependsOn[m] : status[e] = "Pending"
    BY <1>1, GraphAssumption
  <2>2. \A u \in Task : task[u].pc # "mark"
    BY <1>5
  <2>3. QED
    BY <2>1, <2>2 DEF ReachInv, InStatus, At
<1>9. QED
  BY <1>3, <1>4, <1>6, <1>7, <1>8 DEF Inv

LEMMA InvNext == Regular /\ TypeInv /\ Inv /\ [Next]_vars => Inv'
BY FrameNext, TimersNext, HistoryNext, ClaimsNext, BranchNext, ReachNext DEF Inv, BranchInv

LEMMA InvHolds == ASSUME Regular PROVE Spec => []Inv
<1>1. TypeInv /\ Inv /\ [Next]_vars => Inv'
  BY InvNext
<1>2. QED
  BY <1>1, InitInv, TypeInvariant, PTL DEF Spec

\* A node is sent to an agent once, and once more for each retry it was granted,
\* provided that only the listener grants retries.
THEOREM NoNodeTwice == ASSUME Regular PROVE Spec => []NoDoubleExecution
<1>1. Inv => NoDoubleExecution
  BY DEF Inv, ClaimInv, SentInv
<1>2. QED
  BY <1>1, InvHolds, PTL

\* Of the dependents of a node with conditional edges at most one is claimed.
THEOREM OnlyOneBranch == ASSUME Regular PROVE Spec => []OneBranchRuns
<1>1. ASSUME Inv, NEW n \in Node, Targets[n] # {}
      PROVE  Cardinality({m \in Dependents({n}) : \/ dispatched[m] > 0
                                                  \/ status[m] \notin {"Pending", "Skipped"}}) <= 1
  <2> DEFINE S == {m \in Dependents({n}) : Started(m)}
  <2>1. S = {m \in Dependents({n}) : \/ dispatched[m] > 0
                                     \/ status[m] \notin {"Pending", "Skipped"}}
    BY DEF Started
  <2>2. \E target : S \subseteq {target}
    <3>1. CASE status[n] = "Completed"
      <4>1. PICK target \in Node : \A m \in Dependents({n}) \ {target} : ~Started(m)
        BY <1>1, <3>1 DEF Inv, BranchInv, ChosenInv, InStatus
      <4>2. QED
        BY <4>1
    <3>2. CASE status[n] # "Completed"
      <4>1. ASSUME NEW m \in S PROVE FALSE
        <5>1. m \in Node /\ n \in DependsOn[m] /\ Started(m)
          BY <4>1 DEF Dependents
        <5>2. QED
          BY <1>1, <3>2, <5>1 DEF Inv, BranchInv, StartedInv
      <4>2. QED
        BY <4>1
    <3>3. QED
      BY <3>1, <3>2
  <2> HIDE DEF S
  <2>3. Cardinality(S) <= 1
    <3>1. CASE S = {}
      BY <3>1, FS_EmptySet
    <3>2. CASE S # {}
      <4>1. PICK m : S = {m}
        <5>1. PICK target : S \subseteq {target}
          BY <2>2
        <5>2. S = {target}
          BY <3>2, <5>1
        <5>3. QED
          BY <5>2
      <4>2. Cardinality(S) = 1
        BY <4>1, FS_Singleton
      <4>3. QED
        BY <4>2
    <3>3. QED
      BY <3>1, <3>2
  <2>4. QED
    BY <2>1, <2>3
<1>2. Inv => OneBranchRuns
  BY <1>1 DEF OneBranchRuns
<1>3. QED
  BY <1>2, InvHolds, PTL

\* With no handler under way, no Pending node depends on a Failed or a Skipped one.
THEOREM FailureReaches == ASSUME Regular PROVE Spec => []FailureReachesDependents
<1>1. ASSUME Inv, HandlersAtRest, NEW m \in InStatus(status, "Pending"), NEW e \in DependsOn[m],
             status[e] \in {"Failed", "Skipped"}
      PROVE  FALSE
  <2>1. PICK u \in Task : Covers(task[u], e, m)
    BY <1>1 DEF Inv, ReachInv
  <2>2. task[u].pc \in {"confirm", "scan", "mark"}
    BY <2>1 DEF Covers
  <2>3. QED
    BY <1>1, <2>2 DEF HandlersAtRest
<1>2. Inv => FailureReachesDependents
  BY <1>1 DEF FailureReachesDependents
<1>3. QED
  BY <1>2, InvHolds, PTL

-----------------------------------------------------------------------------
(***************************************************************************)
(* The terminal statuses.  A retry takes a node back from Skipped, and a   *)
(* transient error one from Failed if a watcher failed it between its      *)
(* claim and its submission; a node that is claimed is Running otherwise.  *)
(***************************************************************************)
Undisturbed == NoRetries /\ ~HasStallTimeout /\ ~Cancellable

Unrevived == NoRetries /\ (MaxFaults = 0 \/ Undisturbed)

RunningInv == Undisturbed => \A u \in Task : \A n \in Claims(task[u]) : status[n] = "Running"

LEMMA RunningNext ==
  ASSUME TypeInv, FrameInv, HistoryInv, TimersInv, ClaimInv, StartedInv, RunningInv, [Next]_vars
  PROVE  RunningInv'
<1> SUFFICES ASSUME Undisturbed,
                    \A u \in Task : \A n \in Claims(task[u]) : status[n] = "Running",
                    NEW u \in Task, NEW m \in Claims(task'[u])
             PROVE  status'[m] = "Running"
  BY DEF RunningInv
<1>1. CASE CalmMove /\ UNCHANGED <<status, retries, dispatched>>
  <2>1. m \in Claims(task[u])
    BY <1>1 DEF CalmMove, Calm
  <2>2. QED
    BY <1>1, <2>1
\* A step of t that claims nothing and fails no claimed node.
<1>2. ASSUME NEW t \in Task, NEW g, Step(t, g), Claims(g) \subseteq Claims(task[t]),
             m \in Claims(task[u]) /\ m \in Node /\ m \in Claims(task'[u])
               => status'[m] = status[m] \/ status[m] # "Running"
      PROVE  status'[m] = "Running"
  <2>1. m \in Claims(task[u])
    BY <1>2 DEF Step, TypeInv, TypeOK
  <2>2. m \in Node
    BY <2>1, HeldAreNodes
  <2>3. QED
    BY <1>2, <2>1, <2>2
<1>3. ASSUME NEW t \in Task, ClaimReady(t) PROVE status'[m] = "Running"
  <2>1. PICK C \in SUBSET Node :
           /\ \E st : status' = WithStatus(st, C, "Running")
           /\ Step(t, [task[t] EXCEPT !.pc = "next", !.todo = C])
    <3>1. ReadyTasks(status) \subseteq Node
      BY DEF ReadyTasks, InStatus
    <3>2. QED
      BY <1>3, <3>1 DEF ClaimReady
  <2>2. At(t, "claim") /\ t = Submitter
    BY <1>3 DEF ClaimReady
  <2>3. PICK g : Step(t, g) /\ Claims(g) = C
    BY <2>1, <2>2, ClaimFrame
  <2>4. \A w \in Task : Claims(task[w]) = {}
    BY <2>2, QuietHolds DEF At
  <2>5. m \in C
    BY <2>3, <2>4 DEF Step, TypeInv, TypeOK
  <2>6. QED
    BY <2>1, <2>5 DEF WithStatus
<1>4. ASSUME NEW t \in Task, CompleteNode(t) PROVE status'[m] = "Running"
  <2> DEFINE n == task[t].event
  <2>1. /\ t = Listener /\ At(t, "complete") /\ n \in Node /\ dispatched[n] > 0
        /\ ~CompletionIsLate(n) => /\ n \notin Dependents({n})
                                   /\ \A k \in Dependents({n}) : ~Started(k)
    BY <1>4, CompletingNode
  <2>2. CASE CompletionIsLate(n)
    <3>1. Goto(t, "ack") /\ UNCHANGED status
      BY <1>4, <2>2 DEF CompleteNode
    <3>2. CalmMove
      BY <2>1, <3>1, LateCompletionIsCalm
    <3>3. m \in Claims(task[u])
      BY <3>2 DEF CalmMove, Calm
    <3>4. QED
      BY <3>1, <3>3
  <2>3. CASE ~CompletionIsLate(n)
    <3>1. PICK R \in SUBSET Node, P \in SUBSET Node, C \in SUBSET Node : Completes(t, n, R, P, C)
      BY <1>4, <2>1, <2>3, CompletedGraph
    <3>2. /\ R \subseteq Dependents({n}) /\ P \subseteq InStatus(status, "Pending")
          /\ \A k \in Node : status'[k] = IF k \in C THEN "Running"
                                          ELSE IF k = n THEN "Completed"
                                          ELSE IF k \in R \cup P THEN "Skipped" ELSE status[k]
      BY <3>1 DEF Completes
    <3>3. Step(t, [task[t] EXCEPT !.pc = "next", !.todo = C])
      BY <3>1 DEF Completes
    <3>4. PICK g : Step(t, g) /\ Claims(g) = C
      BY <2>1, <3>3, ClaimFrame
    <3>5. CASE m \in C
      BY <3>2, <3>5
    <3>6. CASE m \notin C
      <4>1. m \in Claims(task[u])
        BY <3>4, <3>6 DEF Step, TypeInv, TypeOK
      <4>2. m \in Node /\ status[m] = "Running" /\ dispatched[m] = 0
        BY <4>1, HeldAreNodes DEF ClaimInv, HeldInv
      <4>3. m # n /\ m \notin R \cup P
        <5>1. m # n
          BY <2>1, <4>2
        <5>2. Started(m)
          BY <4>2 DEF Started
        <5>3. m \notin R
          BY <2>1, <2>3, <3>2, <5>2
        <5>4. m \notin P
          BY <3>2, <4>2 DEF InStatus
        <5>5. QED
          BY <5>1, <5>3, <5>4
      <4>4. QED
        BY <3>2, <3>6, <4>2, <4>3
    <3>7. QED
      BY <3>5, <3>6
  <2>4. QED
    BY <2>2, <2>3
<1>5. ASSUME NEW t \in Task, PublishTaskSubmit(t) PROVE status'[m] = "Running"
  <2>1. PICK g : Step(t, g) /\ Claims(g) = task[t].todo
    BY <1>5, PublishFrame
  <2>2. UNCHANGED status
    BY <1>5 DEF PublishTaskSubmit, graphVars
  <2>3. QED
    BY <1>2, <2>1, <2>2 DEF Claims
<1>6. ASSUME NEW t \in Task, SubmissionError(t) PROVE status'[m] = "Running"
  <2> DEFINE n == task[t].node
  <2>1. PICK g : /\ Step(t, g) /\ Submits(task[t]) /\ n \in Node \ task[t].todo
                 /\ g.node = n /\ Claims(g) = task[t].todo
                 /\ task[t].op = "failed" => Retrying(task[t])
    BY <1>6, SubmissionErrorFrame
  <2>2. n \in Claims(task[t])
    BY <2>1 DEF FrameInv, FrameOK, Undisturbed, Claims
  <2>3. m = n => m \notin Claims(task'[u])
    <3>1. CASE u = t
      BY <2>1, <3>1 DEF Step, TypeInv, TypeOK
    <3>2. CASE u # t
      <4>1. task'[u] = task[u]
        BY <2>1, <3>2 DEF Step, TypeInv, TypeOK
      <4>2. QED
        BY <2>2, <3>2, <4>1 DEF ClaimInv, HeldInv
    <3>3. QED
      BY <3>1, <3>2
  <2>4. \A k \in Node : k # n => status'[k] = status[k]
    BY <1>6 DEF SubmissionError, WithStatus
  <2>5. Claims(g) \subseteq Claims(task[t])
    BY <2>1 DEF Claims
  <2>6. QED
    BY <1>2, <2>1, <2>3, <2>4, <2>5
<1>7. ASSUME NEW t \in Task, CollectDownstream(t) \/ SkipCollected(t) PROVE status'[m] = "Running"
  <2>1. PICK g : Step(t, g) /\ Claims(g) = Claims(task[t])
    <3>1. CASE CollectDownstream(t)
      <4>1. PICK g : /\ Step(t, g) /\ Claims(g) = Claims(task[t])
                     /\ g.skip = PendingBelow(status, {task[t].node})
        BY <3>1, CollectFrame
      <4>2. QED
        BY <4>1
    <3>2. CASE SkipCollected(t)
      BY <3>2, SkipFrame
    <3>3. QED
      BY <1>7, <3>1, <3>2
  <2>2. \A k \in Node : status'[k] = status[k] \/ status[k] = "Pending"
    BY <1>7 DEF CollectDownstream, SkipCollected, graphVars, WithStatus, InStatus
  <2>3. QED
    BY <1>2, <2>1, <2>2
<1>8. ASSUME NEW t \in Task, ClaimFailure(t) PROVE status'[m] = "Running"
  <2> DEFINE n == task[t].node
  <2>1. At(t, "failing") /\ n \in Node
    BY <1>8, HeldAreNodes DEF ClaimFailure, At
  <2>2. CASE ~FailureIsClaimed(n)
    <3>1. Return(t, task[t]) /\ UNCHANGED status
      BY <1>8, <2>2 DEF ClaimFailure
    <3>2. CalmMove
      BY <2>1, <3>1, IgnoredFailureIsCalm
    <3>3. m \in Claims(task[u])
      BY <3>2 DEF CalmMove, Calm
    <3>4. QED
      BY <3>1, <3>3
  <2>3. CASE FailureIsClaimed(n)
    <3>1. ~MayRetry(n)
      BY <2>1 DEF MayRetry, Undisturbed, NoRetries, TypeInv, TypeOK
    <3>2. Goto(t, "confirm") /\ status' = WithStatus(status, {n}, "Failed")
      BY <1>8, <2>3, <3>1 DEF ClaimFailure
    <3>3. PICK g : /\ Step(t, g) /\ Claims(g) = {}
                   /\ t \in {Listener, StallTimer} \cup Watcher
                   /\ t = StallTimer => HasStallTimeout
      BY <2>1, <3>2, ClaimFailureFrame
    <3>4. dispatched[n] > 0
      BY <2>1, <3>3, Distinct DEF ClaimInv, FailingInv, Undisturbed, At
    <3>5. \A k \in Node : k # n => status'[k] = status[k]
      BY <3>2 DEF WithStatus
    <3>6. m \in Claims(task[u]) => m # n
      BY <2>1, <3>4 DEF ClaimInv, HeldInv
    <3>7. QED
      BY <1>2, <3>3, <3>5, <3>6
  <2>4. QED
    BY <2>2, <2>3
<1>9. ASSUME NEW t \in Task, ConfirmFailed(t) PROVE status'[m] = "Running"
  <2>1. PICK g : Step(t, g) /\ Claims(g) = Claims(task[t])
    BY <1>9, ConfirmFrame
  <2>2. \A k \in Node : status'[k] = status[k]
    BY <1>9 DEF ConfirmFailed, WithStatus, ClaimInv, FailingInv
  <2>3. QED
    BY <1>2, <2>1, <2>2
<1>10. ASSUME NEW t \in Task PROVE ~MarkRetryRunning(t)
  BY MarkRetryFrame DEF FrameInv, FrameOK, Undisturbed
<1>11. ASSUME NEW t \in Task, VictimsFailed(t) \/ CancelStatuses(t) PROVE status'[m] = "Running"
  <2>1. ~CancelStatuses(t)
    BY Distinct DEF FrameInv, Place, CancelStatuses, At, Undisturbed
  <2>2. \A k \in Node : status'[k] = status[k] \/ status[k] = "Pending"
    BY <1>11, <2>1 DEF VictimsFailed, WithStatus, InStatus
  <2>3. m \in Claims(task[u])
    BY <1>11, CalmVictims DEF CalmMove, Calm
  <2>4. m \in Node
    BY <2>3, HeldAreNodes
  <2>5. QED
    BY <2>2, <2>3, <2>4
<1>12. QED
  BY <1>1, <1>3, <1>4, <1>5, <1>6, <1>7, <1>8, <1>9, <1>10, <1>11, CalmOrNot

LEMMA RunningHolds == ASSUME Regular PROVE Spec => []RunningInv
<1>1. Init => RunningInv
  <2> SUFFICES ASSUME Init PROVE RunningInv
    OBVIOUS
  <2>1. \A u \in Task : task[u] = Resting(IF \/ u \in {DagTimer, StallTimer}
                                             \/ u = Canceller /\ ~Cancellable
                                          THEN "off" ELSE "idle")
    BY DEF Init
  <2>2. \A u \in Task : Claims(task[u]) = {}
    BY <2>1, RestingIsCalm
  <2>3. QED
    BY <2>2 DEF RunningInv
<1>2. TypeInv /\ Inv /\ RunningInv /\ [Next]_vars => RunningInv'
  BY RunningNext DEF Inv, BranchInv
<1>3. QED
  BY <1>1, <1>2, InvHolds, TypeInvariant, PTL DEF Spec

\* A node that is terminal stays what it is.
LEMMA TerminalStep ==
  ASSUME Unrevived, TypeInv, Inv, RunningInv, [Next]_vars, NEW m \in Node, status[m] \in Terminal
  PROVE  status'[m] = status[m]
<1> USE DEF Terminal
<1>1. CASE CalmMove /\ UNCHANGED <<status, retries, dispatched>>
  BY <1>1
<1>2. ASSUME NEW t \in Task, ClaimReady(t) PROVE status'[m] = status[m]
  <2>1. PICK unmet \in SUBSET (ReadyTasks(status) \cap Conditional) :
           status' = WithStatus(SkipBelow(WithStatus(status, unmet, "Skipped"), unmet),
                                ReadyTasks(status) \ unmet, "Running")
    BY <1>2 DEF ClaimReady
  <2> DEFINE mid == WithStatus(status, unmet, "Skipped")
             P == PendingBelow(mid, unmet)
  <2>2. m \notin ReadyTasks(status) /\ unmet \in SUBSET Node /\ m \notin unmet
    BY DEF ReadyTasks, InStatus
  <2>3. mid[m] = status[m]
    BY <2>2 DEF WithStatus
  <2>4. P \subseteq InStatus(mid, "Pending")
    BY <2>2, PendingBelowFacts
  <2>5. m \notin P
    BY <2>3, <2>4 DEF InStatus
  <2>6. SkipBelow(mid, unmet)[m] = mid[m]
    BY <2>5 DEF SkipBelow, WithStatus
  <2>7. QED
    BY <2>1, <2>2, <2>3, <2>6 DEF WithStatus
<1>3. ASSUME NEW t \in Task, CompleteNode(t) PROVE status'[m] = status[m]
  <2> DEFINE n == task[t].event
  <2>1. /\ n \in Node
        /\ ~CompletionIsLate(n) => /\ n \notin Dependents({n})
                                   /\ \A k \in Dependents({n}) : ~Started(k)
    BY <1>3, CompletingNode DEF Inv, BranchInv
  <2>2. CASE CompletionIsLate(n)
    BY <1>3, <2>2 DEF CompleteNode
  <2>3. CASE ~CompletionIsLate(n)
    <3>1. PICK R \in SUBSET Node, P \in SUBSET Node, C \in SUBSET Node : Completes(t, n, R, P, C)
      BY <1>3, <2>1, <2>3, CompletedGraph
    <3>2. /\ R \subseteq Dependents({n}) /\ P \cup C \subseteq InStatus(status, "Pending")
          /\ status'[m] = IF m \in C THEN "Running"
                          ELSE IF m = n THEN "Completed"
                          ELSE IF m \in R \cup P THEN "Skipped" ELSE status[m]
      BY <3>1 DEF Completes
    <3>3. m \notin P \cup C
      BY <3>2 DEF InStatus
    <3>4. m # n
      BY <2>3 DEF CompletionIsLate
    <3>5. m \in R => status[m] = "Skipped"
      BY <2>1, <2>3, <3>2 DEF Started
    <3>6. QED
      BY <3>2, <3>3, <3>4, <3>5
  <2>4. QED
    BY <2>2, <2>3
<1>4. ASSUME NEW t \in Task, PublishTaskSubmit(t) PROVE status'[m] = status[m]
  BY <1>4 DEF PublishTaskSubmit, graphVars
<1>5. ASSUME NEW t \in Task, SubmissionError(t) PROVE status'[m] = status[m]
  <2> DEFINE f == task[t]
             n == f.node
             giveUp == f.op = "failed" \/ f.err = "permanent"
  <2>1. PICK g : /\ Step(t, g) /\ Submits(f) /\ n \in Node \ f.todo
                 /\ f.op = "failed" => Retrying(f)
                 /\ ~giveUp => MaxFaults # 0
    BY <1>5, SubmissionErrorFrame DEF Inv
  <2>2. n \in Claims(f)
    BY <2>1 DEF Inv, FrameInv, FrameOK, Unrevived, Claims
  <2>3. status[n] \in {"Running", "Failed"}
    BY <2>2 DEF Inv, ClaimInv, HeldInv
  <2>4. ~giveUp => status[n] = "Running"
    BY <2>1, <2>2 DEF Unrevived, RunningInv
  <2>5. \A k \in Node : status'[k] = IF k # n THEN status[k]
                                     ELSE IF giveUp THEN "Failed" ELSE "Pending"
    BY <1>5 DEF SubmissionError, WithStatus
  <2>6. QED
    BY <2>3, <2>4, <2>5
<1>6. ASSUME NEW t \in Task, CollectDownstream(t) \/ SkipCollected(t) PROVE status'[m] = status[m]
  BY <1>6 DEF CollectDownstream, SkipCollected, graphVars, WithStatus, InStatus
<1>7. ASSUME NEW t \in Task, ClaimFailure(t) PROVE status'[m] = status[m]
  BY <1>7 DEF ClaimFailure, FailureIsClaimed, WithStatus
<1>8. ASSUME NEW t \in Task, ConfirmFailed(t) PROVE status'[m] = status[m]
  <2>1. status[task[t].node] = "Failed"
    BY <1>8 DEF ConfirmFailed, Inv, ClaimInv, FailingInv
  <2>2. QED
    BY <1>8, <2>1 DEF ConfirmFailed, WithStatus
<1>9. ASSUME NEW t \in Task PROVE ~MarkRetryRunning(t)
  BY MarkRetryFrame DEF Inv, FrameInv, FrameOK, Unrevived
<1>10. ASSUME NEW t \in Task, VictimsFailed(t) \/ CancelStatuses(t) PROVE status'[m] = status[m]
  BY <1>10 DEF VictimsFailed, CancelStatuses, WithStatus, InStatus
<1>11. QED
  BY <1>1, <1>2, <1>3, <1>4, <1>5, <1>6, <1>7, <1>8, <1>9, <1>10, CalmOrNot DEF Inv

LEMMA UnrevivedIsRegular == Unrevived => Regular
BY DEF Unrevived, Undisturbed, Regular

\* A node that reached a terminal status keeps it, whichever of the listener,
\* the watchers and the canceller brought it there.
THEOREM TerminalStaysTerminal == ASSUME Unrevived PROVE Spec => TerminalIsFinal
<1>1. Regular
  BY UnrevivedIsRegular
<1>2. TypeInv /\ Inv /\ RunningInv /\ [Next]_vars
        => [\A n \in Node : status[n] \in Terminal => status'[n] = status[n]]_vars
  BY TerminalStep
<1>3. QED
  BY <1>1, <1>2, InvHolds, RunningHolds, TypeInvariant, PTL DEF Spec, TerminalIsFinal

-----------------------------------------------------------------------------
(* The cancellation and the announcement. *)

\* Where the tasks stand that take a step which is not calm: none is the
\* canceller, and none announces the end of the DAG.
LEMMA CancellerStays ==
  ASSUME TypeInv, FrameInv, NEW t \in Task,
         \/ ClaimReady(t) \/ CompleteNode(t) \/ PublishTaskSubmit(t) \/ SubmissionError(t)
         \/ CollectDownstream(t) \/ SkipCollected(t)
         \/ ClaimFailure(t) \/ ConfirmFailed(t) \/ MarkRetryRunning(t)
  PROVE  task'[Canceller] = task[Canceller]
<1>1. task[t].pc \in {"claim", "complete", "publish", "suberr", "scan", "mark",
                      "failing", "confirm", "running"}
  BY DEF ClaimReady, CompleteNode, PublishTaskSubmit, SubmissionError, CollectDownstream,
         SkipCollected, ClaimFailure, ConfirmFailed, MarkRetryRunning, At
<1>2. t # Canceller
  BY <1>1, Distinct DEF FrameInv, Place
<1>3. \E g : Step(t, g)
  BY DEF ClaimReady, CompleteNode, PublishTaskSubmit, SubmissionError, CollectDownstream,
         SkipCollected, ClaimFailure, ConfirmFailed, MarkRetryRunning, Goto, Return
<1>4. QED
  BY <1>2, <1>3, Distinct DEF Step, TypeInv, TypeOK

\* The canceller that is past its last update left every node terminal.
CancelInv ==
    NoRetries /\ MaxFaults = 0 /\ Cancellable /\ task[Canceller].pc \notin {"idle", "victims"}
        => IsComplete(status)

LEMMA CancelNext ==
  ASSUME TypeInv, Inv, RunningInv, CancelInv, [Next]_vars
  PROVE  CancelInv'
<1> SUFFICES ASSUME NoRetries, MaxFaults = 0, Cancellable,
                    task'[Canceller].pc \notin {"idle", "victims"}
             PROVE  IsComplete(status')
  BY DEF CancelInv
<1>1. CASE task[Canceller].pc \notin {"idle", "victims"}
  <2>1. IsComplete(status)
    BY <1>1 DEF CancelInv
  <2>2. \A m \in Node : status'[m] = status[m]
    BY <2>1, TerminalStep DEF Unrevived, IsComplete
  <2>3. QED
    BY <2>1, <2>2 DEF IsComplete
<1>2. CASE task[Canceller].pc \in {"idle", "victims"}
  <2>1. task'[Canceller] # task[Canceller]
    BY <1>2
  <2>2. CalmMove
    BY <2>1, CalmOrNot, CancellerStays, CalmVictims DEF Inv
  <2>3. QED
    BY <1>2, <2>1, <2>2, Distinct DEF CalmMove, Calm
<1>3. QED
  BY <1>1, <1>2

\* After cancel_remaining_nodes, once the handlers it raced with have returned,
\* every node is terminal.
THEOREM CancellationSettles == ASSUME NoRetries, MaxFaults = 0 PROVE Spec => []CancelSettles
<1>1. Regular
  BY DEF Regular
<1>2. Init => CancelInv
  <2> SUFFICES ASSUME Init, Cancellable PROVE task[Canceller].pc = "idle"
    BY DEF CancelInv
  <2>1. task[Canceller] = Resting("idle")
    BY Distinct DEF Init
  <2>2. QED
    BY <2>1, RestingIsCalm
<1>3. TypeInv /\ Inv /\ RunningInv /\ CancelInv /\ [Next]_vars => CancelInv'
  BY CancelNext
<1>4. CancelInv => CancelSettles
  BY DEF CancelInv, CancelSettles, At
<1>5. QED
  BY <1>1, <1>2, <1>3, <1>4, InvHolds, RunningHolds, TypeInvariant, PTL DEF Spec

\* The end of the DAG is announced of a complete graph, which that step leaves alone.
LEMMA AnnounceStep ==
  ASSUME [Next]_vars
  PROVE  \/ UNCHANGED published
         \/ /\ published' = published + 1 /\ IsComplete(status)
            /\ UNCHANGED <<status, dispatched>>
<1>1. ASSUME NEW t \in Task, HandlerStart(t) PROVE UNCHANGED published
  BY <1>1
     DEF HandlerStart, SubmitGraph, OnNodeCompleted, IdleTimeout, DagTimeout, StallPoll,
         TimerExits, Cancel, gateVars
<1>2. ASSUME NEW t \in Task, HandlerStep(t), ~PublishDagComplete(t) PROVE UNCHANGED published
  BY <1>2
     DEF HandlerStep, LocalStep, ClaimReady, SubmittedAll, Peek, OnNodeFailed, TryConsumeBudget,
         SubmissionFault, CollectDownstream, SkipCollected, ConfirmFailed, RetryAfterBackoff,
         MarkRetryRunning, SaveGraph, SaveFault, SwapFinalized, NotTerminal,
         ReleaseGate, VictimsFailed, CancelStatuses, Acknowledge, Redelivery,
         DeliveriesExhausted, CompleteNode, ClaimFailure, PublishTaskSubmit, SubmissionError,
         FailNextVictim, CancelNextVictim, gateVars
<1>3. ASSUME NEW t \in Task, PublishDagComplete(t)
      PROVE  /\ published' = published + 1 /\ IsComplete(status)
             /\ UNCHANGED <<status, dispatched>>
  BY <1>3 DEF PublishDagComplete, graphVars, busVars
<1>4. ASSUME Environment \/ UNCHANGED vars PROVE UNCHANGED published
  BY <1>4
     DEF Environment, ExecutionCompletes, ExecutionFails, WatcherExits, DeadlinePasses,
         ProgressGoesStale, vars, gateVars
<1>5. QED
  BY <1>1, <1>2, <1>3, <1>4 DEF Next

\* A step sends at most the node that some task submits for the first time.
LEMMA DispatchStep ==
  ASSUME NoRetries, TypeInv, FrameInv, HistoryInv, TimersInv, [Next]_vars
  PROVE  \/ UNCHANGED dispatched
         \/ \E t \in Task : Claims(task[t]) # {}
<1>1. ASSUME NEW t \in Task, PublishTaskSubmit(t) PROVE Claims(task[t]) # {}
  <2>1. PICK g : /\ Step(t, g) /\ Submits(task[t])
                 /\ task[t].op = "failed" => Retrying(task[t])
    BY <1>1, PublishFrame
  <2>2. task[t].op # "failed"
    BY <2>1 DEF FrameInv, FrameOK
  <2>3. QED
    BY <2>1, <2>2 DEF Claims
<1>2. ASSUME NEW t \in Task,
             \/ ClaimReady(t) \/ CompleteNode(t) \/ SubmissionError(t)
             \/ CollectDownstream(t) \/ SkipCollected(t)
             \/ ClaimFailure(t) \/ ConfirmFailed(t) \/ MarkRetryRunning(t)
             \/ VictimsFailed(t) \/ CancelStatuses(t)
      PROVE  UNCHANGED dispatched
  BY <1>2 DEF ClaimReady, CompleteNode, SubmissionError, CollectDownstream, SkipCollected,
              ClaimFailure, ConfirmFailed, MarkRetryRunning, VictimsFailed, CancelStatuses, busVars
<1>3. QED
  BY <1>1, <1>2, CalmOrNot

\* What was announced stays so.
DoneInv == Undisturbed /\ published # 0 => IsComplete(status)

LEMMA DoneNext ==
  ASSUME TypeInv, Inv, RunningInv, DoneInv, [Next]_vars
  PROVE  DoneInv'
<1> SUFFICES ASSUME Undisturbed, published' # 0 PROVE IsComplete(status')
  BY DEF DoneInv
<1>1. IsComplete(status)
  BY AnnounceStep DEF DoneInv
<1>2. \A m \in Node : status'[m] = status[m]
  BY <1>1, TerminalStep DEF Unrevived, IsComplete, Undisturbed
<1>3. QED
  BY <1>1, <1>2 DEF IsComplete

\* Once the end of the DAG is published no node is sent to an agent any more.
THEOREM SilentAfterComplete == ASSUME Undisturbed PROVE Spec => NoDispatchAfterComplete
<1>1. Regular
  BY DEF Regular, Undisturbed
<1>2. Init => DoneInv
  BY DEF Init, DoneInv
<1>3. TypeInv /\ Inv /\ RunningInv /\ DoneInv /\ [Next]_vars => DoneInv'
  BY DoneNext
<1>4. ASSUME TypeInv, Inv, RunningInv, DoneInv, [Next]_vars, published = 1
      PROVE  dispatched' = dispatched
  <2>1. \A m \in Node : status[m] # "Running"
    BY <1>4 DEF DoneInv, IsComplete, Terminal
  <2>2. \A u \in Task : Claims(task[u]) = {}
    BY <1>4, <2>1, HeldAreNodes DEF Inv, RunningInv
  <2>3. QED
    BY <1>4, <2>2, DispatchStep DEF Inv, Undisturbed
<1>5. TypeInv /\ Inv /\ RunningInv /\ DoneInv /\ [Next]_vars
        => [published = 1 => dispatched' = dispatched]_vars
  BY <1>4
<1>6. QED
  BY <1>1, <1>2, <1>3, <1>5, InvHolds, RunningHolds, TypeInvariant, PTL
     DEF Spec, NoDispatchAfterComplete

-----------------------------------------------------------------------------
(* The deadline.  Only Peek lets a task submit, and Peek reads the clock. *)

Enters(f) == f.pc \in {"consume", "publish"}

NoneEnters == \A u \in Task : Enters(task'[u]) => Enters(task[u])

\* A step of t to a frame that does not submit.
LEMMA EntersStep ==
  ASSUME TypeInv, NEW t \in Task, NEW f, Step(t, f), ~Enters(f)
  PROVE  NoneEnters
BY DEF NoneEnters, Step, TypeInv, TypeOK

\* A handler that returns does not submit, nor does one that enters
\* finalize_if_terminal or resumes after it.
LEMMA NoEntry ==
  ASSUME TypeInv, NEW t \in Task, NEW f \in Frame, NEW after
  PROVE  /\ ~Enters(Returned(t, f))
         /\ ~Enters(Finalized(t))
         /\ ~Enters([f EXCEPT !.pc = "gate", !.after = after])
<1>1. \A g \in Frame : ~Enters(Returned(t, g))
  BY DEF Enters, Returned, Resting, Frame
<1>2. task[t] \in Frame
  BY DEF TypeInv, TypeOK
<1>3. ~Enters([task[t] EXCEPT !.pc = "suberr"])
  BY <1>2 DEF Enters, Frame
<1>4. ~Enters([f EXCEPT !.pc = "gate", !.after = after])
  BY DEF Enters, Frame
<1>5. QED
  BY <1>1, <1>2, <1>3, <1>4 DEF Finalized

\* The first step of a handler does not submit.
LEMMA LateStart ==
  ASSUME TypeInv, deadlinePassed, NEW t \in Task, HandlerStart(t)
  PROVE  NoneEnters
<1> task[t] \in Frame
  BY DEF TypeInv, TypeOK
<1>2. CASE SubmitGraph(t)
  <2> DEFINE f == [task[t] EXCEPT !.pc = "claim", !.op = "submit"]
  <2>1. ~Enters(Resting("off")) /\ ~Enters(Resting("idle")) /\ ~Enters(f)
    BY DEF Enters, Resting, Frame
  <2>2. CASE deadlinePassed
    BY <1>2, <2>1, <2>2, EntersStep DEF SubmitGraph
  <2>3. CASE ~deadlinePassed
    <3>1. task' = [u \in Task |->
              IF u = t THEN f
              ELSE IF (u = DagTimer /\ HasDagTimeout) \/ (u = StallTimer /\ HasStallTimeout)
              THEN Resting("idle") ELSE task[u]]
      BY <1>2, <2>3 DEF SubmitGraph
    <3> HIDE DEF f
    <3>2. \A u \in Task : Enters(task'[u]) => Enters(task[u])
      BY <2>1, <3>1
    <3>3. QED
      BY <3>2 DEF NoneEnters
  <2>4. QED
    BY <2>2, <2>3
<1>3. ASSUME NEW n \in Node, OnNodeCompleted(t, n) PROVE NoneEnters
  <2>1. ~Enters([task[t] EXCEPT !.pc = "complete", !.op = "completed", !.event = n,
                                 !.late = deadlinePassed])
    BY DEF Enters, Frame
  <2>2. QED
    BY <1>3, <2>1, EntersStep DEF OnNodeCompleted
<1>4. ASSUME NEW n \in Node, IdleTimeout(t, n) PROVE NoneEnters
  <2>1. ~Enters([Resting("fail") EXCEPT !.op = "failed", !.node = n])
    BY DEF Enters, Resting
  <2>2. QED
    BY <1>4, <2>1, EntersStep DEF IdleTimeout
<1>5. CASE TimerExits(t) \/ DagTimeout(t) \/ StallPoll(t) \/ Cancel(t)
  <2>1. /\ ~Enters(Resting("off"))
        /\ \A V : ~Enters([task[t] EXCEPT !.pc = "victims", !.victims = V])
        /\ \A V : ~Enters([task[t] EXCEPT !.pc = "victims", !.op = "cancel", !.victims = V])
    BY DEF Enters, Resting, Frame
  <2>2. QED
    BY <1>5, <2>1, NoEntry, EntersStep
       DEF TimerExits, DagTimeout, StallPoll, Cancel, Finalize
<1>6. QED
  BY <1>2, <1>3, <1>4, <1>5 DEF HandlerStart

\* Nor does, past the deadline, any other step of it.
LEMMA LateStep ==
  ASSUME TypeInv, deadlinePassed, NEW t \in Task, HandlerStep(t)
  PROVE  NoneEnters
<1> task[t] \in Frame
  BY DEF TypeInv, TypeOK
<1>2. ASSUME NEW pc \in Pc \ {"consume", "publish"}
      PROVE  /\ ~Enters([task[t] EXCEPT !.pc = pc])
             /\ \A e : ~Enters([task[t] EXCEPT !.pc = pc, !.err = e])
             /\ \A S : ~Enters([task[t] EXCEPT !.pc = pc, !.skip = S])
             /\ \A S : ~Enters([task[t] EXCEPT !.pc = pc, !.todo = S])
             /\ \A n, V : ~Enters([task[t] EXCEPT !.pc = pc, !.node = n, !.victims = V])
  BY DEF Enters, Frame
<1>3. ~Enters(Resting("idle")) /\ ~Enters(Resting("off"))
  BY DEF Enters, Resting
<1>4. /\ ~Enters(Returned(t, task[t]))
      /\ \A f \in Frame, after \in {"return", "suberr"} :
            ~Enters([f EXCEPT !.pc = "gate", !.after = after])
  BY NoEntry
<1>5. CASE SubmittedAll(t) \/ ConfirmFailed(t) \/ PublishTaskSubmit(t) \/ CancelStatuses(t)
  BY <1>2, <1>5, EntersStep
     DEF SubmittedAll, ConfirmFailed, PublishTaskSubmit, CancelStatuses, Goto, Pc
<1>6. ASSUME NEW n \in Node, Peek(t, n) PROVE NoneEnters
  <2> DEFINE f == IF At(t, "next") THEN [task[t] EXCEPT !.node = n, !.todo = @ \ {n}] ELSE task[t]
             g == [f EXCEPT !.err = "permanent"]
  <2>1. f \in Frame
    BY DEF Frame
  <2>2. Finalize(t, g, "suberr")
    BY <1>6 DEF Peek
  <2> HIDE DEF f
  <2>3. g \in Frame
    BY <2>1 DEF Frame
  <2> HIDE DEF g
  <2>4. QED
    BY <1>4, <2>2, <2>3, EntersStep DEF Finalize
<1>7. CASE TryConsumeBudget(t)
  <2>1. Enters(task[t]) /\ \E f : Step(t, f)
    BY <1>7 DEF TryConsumeBudget, Finalize, Goto, At, Enters
  <2>2. QED
    BY <2>1 DEF NoneEnters, Step, TypeInv, TypeOK
<1>8. CASE SubmissionFault(t) \/ SubmissionError(t)
  <2>1. PICK pc \in Pc \ {"consume", "publish"}, e \in {"none", "transient", "permanent"} :
                Step(t, [task[t] EXCEPT !.pc = pc, !.err = e])
    BY <1>8 DEF SubmissionFault, SubmissionError, Pc
  <2>2. QED
    BY <1>2, <2>1, EntersStep
<1>9. CASE CollectDownstream(t)
  BY <1>2, <1>9, EntersStep DEF CollectDownstream, Pc
<1>10. CASE SkipCollected(t)
  <2> DEFINE f == [task[t] EXCEPT !.skip = {}]
             g == [f EXCEPT !.pc = IF task[t].op = "failed" THEN "save" ELSE "next"]
  <2>1. f \in Frame /\ Step(t, g)
    BY <1>10 DEF Frame, SkipCollected
  <2> HIDE DEF f
  <2>2. ~Enters(g)
    BY <2>1 DEF Frame, Enters
  <2>3. QED
    BY <2>1, <2>2, EntersStep
<1>11. CASE RetryAfterBackoff(t) \/ MarkRetryRunning(t)
  BY <1>2, <1>4, <1>11, EntersStep DEF RetryAfterBackoff, MarkRetryRunning, Goto, Return, Pc
<1>12. CASE SaveGraph(t) \/ SaveFault(t)
  <2> DEFINE f == [task[t] EXCEPT !.err = "transient"]
  <2>1. f \in Frame
    BY DEF Frame
  <2>2. Return(t, task[t]) \/ Finalize(t, task[t], "return") \/ Return(t, f)
    BY <1>12 DEF SaveGraph, SaveFault
  <2> HIDE DEF f
  <2>3. ~Enters(Returned(t, f))
    BY <2>1, NoEntry
  <2>4. QED
    BY <1>4, <2>2, <2>3, EntersStep DEF Return, Finalize
<1>13. CASE \/ VictimsFailed(t) \/ Acknowledge(t) \/ Redelivery(t) \/ DeliveriesExhausted(t)
  BY <1>3, <1>13, EntersStep DEF VictimsFailed, Acknowledge, Redelivery, DeliveriesExhausted
<1>14. ASSUME NEW v \in Node \X TaskStatus, FailNextVictim(t, v) PROVE NoneEnters
  BY <1>2, <1>14, EntersStep DEF FailNextVictim, Pc
<1>15. ASSUME NEW v \in Node \X TaskStatus, CancelNextVictim(t, v) PROVE NoneEnters
  <2>1. ~Enters([task[t] EXCEPT !.victims = @ \ {v}])
    BY <1>15 DEF CancelNextVictim, At, Enters, Frame
  <2>2. QED
    BY <1>15, <2>1, EntersStep DEF CancelNextVictim
<1>16. CASE ClaimReady(t) \/ CompleteNode(t)
  <2>1. ASSUME NEW S \in SUBSET Node, Step(t, [task[t] EXCEPT !.pc = "next", !.todo = S])
        PROVE  NoneEnters
    <3> DEFINE f == [task[t] EXCEPT !.pc = "next", !.todo = S]
    <3>1. ~Enters(f) /\ Step(t, f)
      BY <2>1 DEF Frame, Enters
    <3> HIDE DEF f
    <3>2. QED
      BY <3>1, EntersStep
  <2>2. CASE ClaimReady(t)
    <3>1. PICK unmet \in SUBSET (ReadyTasks(status) \cap Conditional) :
             Step(t, [task[t] EXCEPT !.pc = "next", !.todo = ReadyTasks(status) \ unmet])
      BY <2>2, Zenon DEF ClaimReady
    <3>2. ReadyTasks(status) \ unmet \in SUBSET Node
      BY DEF ReadyTasks, InStatus
    <3>3. QED
      BY <2>1, <3>1, <3>2, Zenon
  <2>3. CASE CompleteNode(t)
    <3>1. CASE Goto(t, "ack")
      BY <1>2, <3>1, EntersStep DEF Goto, Pc
    <3>2. ASSUME NEW st, Step(t, [task[t] EXCEPT !.pc = "next", !.todo = ClaimedBy(t, st)])
          PROVE  NoneEnters
      <4>1. ClaimedBy(t, st) \in SUBSET Node
        BY DEF ClaimedBy, ReadyTasks, InStatus
      <4>2. QED
        BY <2>1, <3>2, <4>1, Zenon
    <3>3. QED
      BY <2>3, <3>1, <3>2, Zenon DEF CompleteNode
  <2>4. QED
    BY <1>16, <2>2, <2>3
<1>17. ASSUME NEW n \in Node, OnNodeFailed(t, n) PROVE NoneEnters
  <2> DEFINE f == [task[t] EXCEPT !.op = "failed", !.node = n,
                                  !.event = IF t = Listener THEN n ELSE @]
             p == [f EXCEPT !.err = "permanent"]
             g == [f EXCEPT !.pc = "failing"]
  <2>1. f \in Frame
    BY DEF Frame, Op
  <2>2. Finalize(t, p, "return") \/ Step(t, g)
    BY <1>17 DEF OnNodeFailed
  <2> HIDE DEF f
  <2>3. p \in Frame /\ ~Enters(g)
    BY <2>1 DEF Frame, Enters
  <2> HIDE DEF p, g
  <2>4. QED
    BY <1>4, <2>2, <2>3, EntersStep DEF Finalize
<1>18. CASE ClaimFailure(t)
  BY <1>2, <1>4, <1>18, EntersStep DEF ClaimFailure, Goto, Return, Pc
<1>19. CASE SwapFinalized(t) \/ PublishDagComplete(t) \/ NotTerminal(t) \/ ReleaseGate(t)
  <2>1. ~Enters(Finalized(t))
    BY NoEntry
  <2>2. CASE SwapFinalized(t) \/ NotTerminal(t) \/ ReleaseGate(t)
    BY <1>2, <2>1, <2>2, EntersStep DEF SwapFinalized, NotTerminal, ReleaseGate, Goto, Pc
  <2>3. CASE PublishDagComplete(t)
    <3>1. \A u \in Task : task'[u] = IF u \in {DagTimer, StallTimer} THEN Resting("off")
                                     ELSE IF u = t THEN Finalized(t) ELSE task[u]
      BY <2>3 DEF PublishDagComplete
    <3>2. QED
      BY <1>3, <2>1, <3>1 DEF NoneEnters
  <2>4. QED
    BY <1>19, <2>2, <2>3
<1>20. QED
  BY <1>5, <1>6, <1>7, <1>8, <1>9, <1>10, <1>11, <1>12, <1>13, <1>14, <1>15, <1>16, <1>17, <1>18,
     <1>19
     DEF HandlerStep, LocalStep

\* Once the deadline has passed no further task gets to submit, whatever reading
\* of the clock its handler began with.
THEOREM LateSubmissionsRefused == Spec => NothingSubmittedLate
<1>1. ASSUME Environment \/ UNCHANGED vars PROVE NoneEnters
  BY <1>1
     DEF NoneEnters, Environment, ExecutionCompletes, ExecutionFails, WatcherExits, DeadlinePasses,
         ProgressGoesStale, vars
<1>2. ASSUME TypeInv, deadlinePassed, [Next]_vars PROVE NoneEnters
  BY <1>1, <1>2, LateStart, LateStep DEF Next
<1>3. TypeInv /\ [Next]_vars => [deadlinePassed => Submitting' \subseteq Submitting]_vars
  BY <1>2 DEF NoneEnters, Enters, Submitting
<1>4. QED
  BY <1>3, TypeInvariant, PTL DEF Spec, NothingSubmittedLate

-----------------------------------------------------------------------------
(***************************************************************************)
(* The refinement of DagLifecycle.  A skip has a cause: what a task has    *)
(* collected is below a Failed node or below a node collected with it, and *)
(* can only be skipped from then on, for what it depends on never          *)
(* completes.  The premises leave out the steps that DagLifecycle does not *)
(* know: retries, the DAG-level watchers and the cancellation, and the     *)
(* nodes skipped because a branch or a condition was not taken.            *)
(***************************************************************************)
Plain ==
    /\ Undisturbed /\ ~HasDagTimeout
    /\ \A n \in Node : Targets[n] = {}
    /\ \A n \in Conditional : DependsOn[n] # {}

SkipInv ==
    Undisturbed => \A u \in Task :
        /\ At(u, "scan") => status[task[u].node] = "Failed"
        /\ At(u, "mark") => \A n \in task[u].skip :
              /\ status[n] \in {"Pending", "Skipped"}
              /\ \E e \in DependsOn[n] : e \in task[u].skip \/ status[e] = "Failed"

ClockInv == deadlinePassed => HasDagTimeout

LEMMA ClockNext == ClockInv /\ [Next]_vars => ClockInv'
<1> SUFFICES ASSUME ClockInv, [Next]_vars PROVE ClockInv'
  OBVIOUS
<1>1. ASSUME NEW t \in Task, HandlerStart(t) PROVE UNCHANGED deadlinePassed
  BY <1>1 DEF HandlerStart, SubmitGraph, OnNodeCompleted, IdleTimeout, DagTimeout, StallPoll,
              TimerExits, Cancel, clockVars
<1>2. ASSUME NEW t \in Task, HandlerStep(t) PROVE UNCHANGED deadlinePassed
  BY <1>2
     DEF HandlerStep, LocalStep, ClaimReady, SubmittedAll, Peek, OnNodeFailed, TryConsumeBudget,
         SubmissionFault, CollectDownstream, SkipCollected, ConfirmFailed, RetryAfterBackoff,
         MarkRetryRunning, SaveGraph, SaveFault, SwapFinalized, PublishDagComplete, NotTerminal,
         ReleaseGate, VictimsFailed, CancelStatuses, Acknowledge, Redelivery,
         DeliveriesExhausted, CompleteNode, ClaimFailure, PublishTaskSubmit, SubmissionError,
         FailNextVictim, CancelNextVictim, clockVars
<1>3. ASSUME Environment \/ UNCHANGED vars PROVE UNCHANGED deadlinePassed \/ HasDagTimeout
  BY <1>3 DEF Environment, ExecutionCompletes, ExecutionFails, WatcherExits, DeadlinePasses,
              ProgressGoesStale, vars, clockVars
<1>4. QED
  BY <1>1, <1>2, <1>3 DEF Next, ClockInv

\* A step that sends a node changes no status.
LEMMA SendOrMark ==
  ASSUME TypeInv, FrameInv, HistoryInv, TimersInv, [Next]_vars
  PROVE  UNCHANGED dispatched \/ UNCHANGED status
<1>1. ASSUME NEW t \in Task, PublishTaskSubmit(t) PROVE UNCHANGED status
  BY <1>1 DEF PublishTaskSubmit, graphVars
<1>2. ASSUME NEW t \in Task,
             \/ ClaimReady(t) \/ CompleteNode(t) \/ SubmissionError(t)
             \/ CollectDownstream(t) \/ SkipCollected(t)
             \/ ClaimFailure(t) \/ ConfirmFailed(t) \/ MarkRetryRunning(t)
             \/ VictimsFailed(t) \/ CancelStatuses(t)
      PROVE  UNCHANGED dispatched
  BY <1>2 DEF ClaimReady, CompleteNode, SubmissionError, CollectDownstream, SkipCollected,
              ClaimFailure, ConfirmFailed, MarkRetryRunning, VictimsFailed, CancelStatuses, busVars
<1>3. QED
  BY <1>1, <1>2, CalmOrNot

\* What was collected is not claimed and does not complete.
LEMMA CollectedStays ==
  ASSUME Undisturbed, TypeInv, Inv, RunningInv, SkipInv, [Next]_vars,
         NEW u \in Task, task[u].pc = "mark", NEW n \in task[u].skip
  PROVE  /\ status'[n] \in {"Pending", "Skipped"}
         /\ \E e \in DependsOn[n] : e \in task[u].skip \/ status'[e] = "Failed"
<1>1. Inv' /\ Unrevived
  BY InvNext, UnrevivedIsRegular DEF Unrevived, Undisturbed
<1>2. /\ task[u].skip \subseteq Node
      /\ \A m \in task[u].skip : status[m] \in {"Pending", "Skipped"}
  BY DEF TypeInv, TypeOK, Frame, SkipInv, At
<1>3. PICK e \in DependsOn[n] : e \in task[u].skip \/ status[e] = "Failed"
  BY DEF SkipInv, At
<1>4. e \in Node /\ n \in Node
  BY <1>2, GraphAssumption
<1>5. ASSUME NEW m \in task[u].skip PROVE status'[m] # "Completed"
  <2>1. m \in Node
    BY <1>2
  <2>2. CASE status[m] = "Skipped"
    BY <1>1, <2>1, <2>2, TerminalStep DEF Terminal
  <2>3. CASE status[m] = "Pending"
    <3>1. dispatched[m] = 0
      <4>1. ~Retrying(task[Listener])
        BY Distinct DEF Inv, FrameInv, FrameOK, Undisturbed
      <4>2. QED
        BY <2>1, <2>3, <4>1 DEF Inv, ClaimInv, PendingInv, InStatus
    <3>2. status'[m] = "Completed" => dispatched'[m] > 0
      BY <1>1, <2>1 DEF Inv, ClaimInv, SentInv, InStatus
    <3>3. QED
      BY <2>1, <2>3, <3>1, <3>2, SendOrMark DEF Inv
  <2>4. QED
    BY <1>2, <2>2, <2>3
<1>6. status[e] = "Failed" => status'[e] = "Failed"
  BY <1>1, <1>4, TerminalStep DEF Terminal
<1>7. status'[e] # "Completed"
  BY <1>3, <1>5, <1>6
<1>8. status'[n] \in {"Pending", "Skipped"}
  BY <1>1, <1>4, <1>7 DEF Inv, BranchInv, StartedInv, Started
<1>9. QED
  BY <1>3, <1>6, <1>8

LEMMA SkipNext ==
  ASSUME TypeInv, Inv, RunningInv, SkipInv, [Next]_vars
  PROVE  SkipInv'
<1> SUFFICES ASSUME Undisturbed, NEW u \in Task
             PROVE  /\ task'[u].pc = "scan" => status'[task'[u].node] = "Failed"
                    /\ task'[u].pc = "mark" => \A n \in task'[u].skip :
                          /\ status'[n] \in {"Pending", "Skipped"}
                          /\ \E e \in DependsOn[n] : e \in task'[u].skip \/ status'[e] = "Failed"
  BY DEF SkipInv, At
<1>1. Unrevived
  BY DEF Unrevived, Undisturbed
<1>2. CASE task'[u] = task[u]
  <2>1. task[u].pc = "scan" => task[u].node \in Node /\ status[task[u].node] = "Failed"
    BY HeldAreNodes DEF Inv, SkipInv, At
  <2>2. task[u].pc = "scan" => status'[task[u].node] = "Failed"
    BY <1>1, <2>1, TerminalStep DEF Terminal
  <2>3. QED
    BY <1>2, <2>2, CollectedStays
<1>3. CASE task'[u] # task[u]
  <2>1. CASE CalmMove
    BY <1>3, <2>1 DEF CalmMove, Calm
  <2>2. ASSUME NEW t \in Task, NEW g, Step(t, g), g.pc \notin {"scan", "mark"}
        PROVE  task'[u].pc \notin {"scan", "mark"}
    BY <1>3, <2>2 DEF Step, TypeInv, TypeOK
  <2>3. ASSUME NEW t \in Task, NEW g, Step(t, g), g.pc = "scan", status'[g.node] = "Failed"
        PROVE  task'[u].pc = "scan" /\ status'[task'[u].node] = "Failed"
    BY <1>3, <2>3 DEF Step, TypeInv, TypeOK
  <2>4. ASSUME NEW t \in Task, ClaimReady(t) PROVE task'[u].pc \notin {"scan", "mark"}
    <3>1. PICK C \in SUBSET Node : Step(t, [task[t] EXCEPT !.pc = "next", !.todo = C])
      <4>1. ReadyTasks(status) \subseteq Node
        BY DEF ReadyTasks, InStatus
      <4>2. QED
        BY <2>4, <4>1 DEF ClaimReady
    <3>2. PICK g : Step(t, g) /\ g.pc = "next"
      BY <2>4, <3>1, ClaimFrame DEF ClaimReady, Inv
    <3>3. QED
      BY <2>2, <3>2
  <2>5. ASSUME NEW t \in Task, CompleteNode(t) PROVE task'[u].pc \notin {"scan", "mark"}
    <3>1. At(t, "complete") /\ t = Listener
      BY <2>5 DEF CompleteNode
    <3>2. \/ Goto(t, "ack")
          \/ \E C \in SUBSET Node : Step(t, [task[t] EXCEPT !.pc = "next", !.todo = C])
      <4>1. \A st : ClaimedBy(t, st) \in SUBSET Node
        BY DEF ClaimedBy, ReadyTasks, InStatus
      <4>2. QED
        BY <2>5, <4>1 DEF CompleteNode
    <3>3. CASE Goto(t, "ack")
      <4>1. CalmMove
        BY <3>1, <3>3, LateCompletionIsCalm DEF Inv
      <4>2. QED
        BY <1>3, <4>1 DEF CalmMove, Calm
    <3>4. ASSUME NEW C \in SUBSET Node, Step(t, [task[t] EXCEPT !.pc = "next", !.todo = C])
          PROVE  task'[u].pc \notin {"scan", "mark"}
      <4>1. PICK g : Step(t, g) /\ g.pc = "next"
        BY <3>1, <3>4, ClaimFrame DEF Inv
      <4>2. QED
        BY <2>2, <4>1
    <3>5. QED
      BY <3>2, <3>3, <3>4
  <2>6. ASSUME NEW t \in Task, PublishTaskSubmit(t) PROVE task'[u].pc \notin {"scan", "mark"}
    <3>1. PICK g : Step(t, g) /\ task[t].pc = "publish" /\ g.pc \in {"running", "next"}
      BY <2>6, PublishFrame DEF Inv
    <3>2. QED
      BY <2>2, <3>1
  <2>7. ASSUME NEW t \in Task, SubmissionError(t)
        PROVE  \/ task'[u].pc \notin {"scan", "mark"}
               \/ task'[u].pc = "scan" /\ status'[task'[u].node] = "Failed"
    <3> DEFINE f == task[t]
               n == f.node
               giveUp == f.op = "failed" \/ f.err = "permanent"
    <3>1. PICK g : /\ Step(t, g) /\ Submits(f) /\ n \in Node \ f.todo /\ g.node = n
                   /\ giveUp => g.pc = "scan"
                   /\ ~giveUp => g.pc = "next"
      BY <2>7, SubmissionErrorFrame DEF Inv
    <3>2. giveUp => status'[n] = "Failed"
      BY <2>7, <3>1 DEF SubmissionError, WithStatus
    <3>3. QED
      BY <2>2, <2>3, <3>1, <3>2
  <2>8. ASSUME NEW t \in Task, CollectDownstream(t)
        PROVE  /\ task'[u].pc = "mark"
               /\ \A n \in task'[u].skip :
                     /\ status'[n] \in {"Pending", "Skipped"}
                     /\ \E e \in DependsOn[n] : e \in task'[u].skip \/ status'[e] = "Failed"
    <3> DEFINE k == task[t].node
               P == PendingBelow(status, {k})
    <3>1. PICK g : /\ Step(t, g) /\ task[t].pc = "scan" /\ g.pc = "mark" /\ k \in Node
                   /\ g.skip = PendingBelow(status, {k})
      BY <2>8, CollectFrame DEF Inv
    <3>2. task'[u] = g /\ UNCHANGED status
      BY <1>3, <2>8, <3>1 DEF Step, TypeInv, TypeOK, CollectDownstream, graphVars
    <3>3. status[k] = "Failed"
      BY <3>1 DEF SkipInv, At
    <3>4. {k} \in SUBSET Node
      BY <3>1
    <3>5. P \subseteq InStatus(status, "Pending") /\ \A m \in P : DependsOn[m] \cap ({k} \cup P) # {}
      BY <3>4, PendingBelowFacts
    <3>6. g.skip = P
      BY <3>1
    <3> HIDE DEF P
    <3>7. \A m \in P : status[m] = "Pending" /\ \E e \in DependsOn[m] : e \in P \/ status[e] = "Failed"
      BY <3>3, <3>5 DEF InStatus
    <3>8. QED
      BY <3>1, <3>2, <3>6, <3>7
  <2>9. ASSUME NEW t \in Task, SkipCollected(t) PROVE task'[u].pc \notin {"scan", "mark"}
    <3>1. PICK g : Step(t, g) /\ task[t].pc = "mark" /\ g.pc \in {"save", "next"}
      BY <2>9, SkipFrame DEF Inv
    <3>2. QED
      BY <2>2, <3>1
  <2>10. ASSUME NEW t \in Task, ClaimFailure(t) PROVE task'[u].pc \notin {"scan", "mark"}
    <3>1. At(t, "failing")
      BY <2>10 DEF ClaimFailure
    <3>2. CASE Return(t, task[t])
      <4>1. CalmMove
        BY <3>1, <3>2, IgnoredFailureIsCalm DEF Inv
      <4>2. QED
        BY <1>3, <4>1 DEF CalmMove, Calm
    <3>3. CASE ~Return(t, task[t])
      <4>1. task[t].node \in Node
        BY <3>1, HeldAreNodes DEF At, Inv
      <4>2. Goto(t, "confirm")
        BY <2>10, <3>3, <4>1
           DEF ClaimFailure, MayRetry, Undisturbed, NoRetries, TypeInv, TypeOK
      <4>3. PICK g : Step(t, g) /\ g.pc = "confirm" /\ task[t].pc = "failing"
        BY <3>1, <4>2, ClaimFailureFrame DEF Inv
      <4>4. QED
        BY <2>2, <4>3
    <3>4. QED
      BY <3>2, <3>3
  <2>11. ASSUME NEW t \in Task, ConfirmFailed(t)
         PROVE  task'[u].pc = "scan" /\ status'[task'[u].node] = "Failed"
    <3>1. PICK g : /\ Step(t, g) /\ g.node = task[t].node /\ task[t].node \in Node
                   /\ task[t].pc = "confirm" /\ g.pc = "scan"
      BY <2>11, ConfirmFrame DEF Inv
    <3>2. status'[g.node] = "Failed"
      BY <2>11, <3>1 DEF ConfirmFailed, WithStatus
    <3>3. QED
      BY <2>3, <3>1, <3>2
  <2>12. ASSUME NEW t \in Task PROVE ~MarkRetryRunning(t)
    BY MarkRetryFrame DEF Inv, FrameInv, FrameOK, Undisturbed
  <2>13. ASSUME NEW t \in Task, VictimsFailed(t) \/ CancelStatuses(t) PROVE CalmMove
    BY <2>13, CalmVictims DEF Inv
  <2>14. QED
    BY <2>1, <2>4, <2>5, <2>6, <2>7, <2>8, <2>9, <2>10, <2>11, <2>12, <2>13, CalmOrNot DEF Inv
<1>4. QED
  BY <1>2, <1>3

\* Without conditions to drop a root, submit_graph starts the ready nodes.
LEMMA ClaimReadyStarts ==
  ASSUME Plain, TypeInv, Inv, NEW t \in Task, ClaimReady(t)
  PROVE  status' = WithStatus(status, ReadyTasks(status), "Running")
<1>1. PICK unmet \in SUBSET (ReadyTasks(status) \cap Conditional) :
         status' = WithStatus(SkipBelow(WithStatus(status, unmet, "Skipped"), unmet),
                              ReadyTasks(status) \ unmet, "Running")
  BY DEF ClaimReady
<1>2. unmet = {}
  <2>1. \A n \in Node : status[n] # "Completed"
    BY QuietHolds DEF Inv, ClaimReady, At
  <2>2. ASSUME NEW n \in unmet PROVE FALSE
    <3>1. n \in Node /\ n \in Conditional /\ \A e \in DependsOn[n] : e \in Node /\ status[e] = "Completed"
      BY <2>2, GraphAssumption DEF ReadyTasks, InStatus
    <3>2. QED
      BY <2>1, <3>1 DEF Plain
  <2>3. QED
    BY <2>2
<1>3. \A st : PendingBelow(st, {}) = {}
  <2>1. \A st : Dependents({} \cup {}) \cap InStatus(st, "Pending") \subseteq {}
    BY DEF Dependents
  <2>2. QED
    BY <2>1 DEF PendingBelow
<1>4. \A st, v : WithStatus(WithStatus(WithStatus(status, {}, v), {}, v), st, "Running")
                   = WithStatus(status, st, "Running")
  BY DEF WithStatus
<1>5. SkipBelow(WithStatus(status, {}, "Skipped"), {})
        = WithStatus(WithStatus(status, {}, "Skipped"), {}, "Skipped")
  BY <1>3 DEF SkipBelow
<1>6. ReadyTasks(status) \ unmet = ReadyTasks(status)
  BY <1>2
<1>7. QED
  BY <1>1, <1>2, <1>4, <1>5, <1>6

LEMMA LifecycleStep ==
  ASSUME Plain, TypeInv, Inv, RunningInv, SkipInv, ClockInv, DagCompleteOnce', [Next]_vars
  PROVE  [Lifecycle!Next]_<<status, published>>
<1> DEFINE Abstract == [Lifecycle!Next]_<<status, published>>
<1> USE DEF Lifecycle!WithStatus, Lifecycle!InStatus, WithStatus, InStatus
<1>1. CASE published' # published
  <2>1. published' = published + 1 /\ IsComplete(status) /\ UNCHANGED status
    BY <1>1, AnnounceStep
  <2>2. published = 0
    BY <2>1 DEF DagCompleteOnce, TypeInv, TypeOK
  <2>3. Lifecycle!Announce
    BY <2>1, <2>2 DEF Lifecycle!Announce, Lifecycle!IsComplete, Lifecycle!Terminal, IsComplete,
                      Terminal
  <2>4. QED
    BY <2>3 DEF Lifecycle!Next
<1>2. CASE UNCHANGED <<status, published>>
  BY <1>2
<1>3. ASSUME UNCHANGED published, NEW n \in Node, status[n] = "Running",
             \/ status' = WithStatus(status, {n}, "Failed")
             \/ status' = WithStatus(status, {n}, "Pending")
      PROVE  Abstract
  <2>1. Lifecycle!Fail(n) \/ Lifecycle!TakeBack(n)
    BY <1>3 DEF Lifecycle!Fail, Lifecycle!TakeBack
  <2>2. QED
    BY <2>1 DEF Lifecycle!Next
<1>4. ASSUME NEW t \in Task, ClaimReady(t), UNCHANGED published PROVE Abstract
  <2> DEFINE S == ReadyTasks(status)
  <2>1. status' = WithStatus(status, S, "Running")
    BY <1>4, ClaimReadyStarts
  <2>2. CASE S = {}
    <3>1. status' = status
      BY <2>1, <2>2 DEF TypeInv, TypeOK
    <3>2. QED
      BY <1>4, <3>1
  <2>3. CASE S # {}
    <3>1. S \in SUBSET Node /\ S \subseteq Lifecycle!ReadyTasks(status)
      BY DEF ReadyTasks, Lifecycle!ReadyTasks
    <3> HIDE DEF S
    <3>2. Lifecycle!Start(S)
      BY <1>4, <2>1, <2>3, <3>1 DEF Lifecycle!Start
    <3>3. QED
      BY <3>1, <3>2 DEF Lifecycle!Next
  <2>4. QED
    BY <2>2, <2>3
<1>5. ASSUME NEW t \in Task, CompleteNode(t), UNCHANGED published, ~(UNCHANGED status) PROVE Abstract
  <2> DEFINE n == task[t].event
             st == WithStatus(status, {n}, "Completed")
             S == ClaimedBy(t, st)
  <2>1. n \in Node
    BY <1>5, CompletingNode DEF Inv, BranchInv
  <2>2. ~CompletionIsLate(n) /\ status' = WithStatus(st, S, "Running")
    <3>1. Targets[n] = {}
      BY <2>1 DEF Plain
    <3>2. QED
      BY <1>5, <3>1 DEF CompleteNode
  <2>3. status[n] \in {"Pending", "Running"}
    BY <2>1, <2>2 DEF CompletionIsLate, Terminal, TypeInv, TypeOK, TaskStatus
  <2>4. S \in SUBSET Lifecycle!ReadyTasks(st)
    BY DEF ClaimedBy, ReadyTasks, Lifecycle!ReadyTasks
  <2> HIDE DEF S
  <2>5. Lifecycle!Complete(n)
    BY <1>5, <2>1, <2>2, <2>3, <2>4 DEF Lifecycle!Complete
  <2>6. QED
    BY <2>1, <2>5 DEF Lifecycle!Next
<1>6. ASSUME NEW t \in Task, SubmissionError(t), UNCHANGED published PROVE Abstract
  <2> DEFINE f == task[t]
             n == f.node
  <2>1. PICK g : /\ Step(t, g) /\ Submits(f) /\ n \in Node \ f.todo
                 /\ f.op = "failed" => Retrying(f)
    BY <1>6, SubmissionErrorFrame DEF Inv
  <2>2. n \in Claims(f)
    BY <2>1 DEF Inv, FrameInv, FrameOK, Plain, Undisturbed, Claims
  <2>3. status[n] = "Running"
    BY <2>2 DEF RunningInv, Plain
  <2>4. \/ status' = WithStatus(status, {n}, "Failed")
        \/ status' = WithStatus(status, {n}, "Pending")
    BY <1>6 DEF SubmissionError
  <2>5. QED
    BY <1>3, <1>6, <2>1, <2>3, <2>4
<1>7. ASSUME NEW t \in Task, SkipCollected(t), UNCHANGED published PROVE Abstract
  <2> DEFINE S == task[t].skip \cap InStatus(status, "Pending")
  <2>1. status' = WithStatus(status, S, "Skipped") /\ At(t, "mark")
    BY <1>7 DEF SkipCollected
  <2>2. S \in SUBSET Node /\ S \subseteq Lifecycle!InStatus(status, "Pending")
    OBVIOUS
  <2>3. \A n \in S : \E d \in DependsOn[n] : d \in S \/ status[d] \in {"Failed", "Skipped"}
    <3>1. ASSUME NEW n \in S
          PROVE  \E d \in DependsOn[n] : d \in S \/ status[d] \in {"Failed", "Skipped"}
      <4>1. PICK d \in DependsOn[n] : d \in task[t].skip \/ status[d] = "Failed"
        BY <2>1, <3>1 DEF SkipInv, Plain
      <4>2. d \in Node
        BY <3>1, GraphAssumption
      <4>3. d \in task[t].skip => status[d] \in {"Pending", "Skipped"}
        BY <2>1 DEF SkipInv, Plain
      <4>4. QED
        BY <4>1, <4>2, <4>3
    <3>2. QED
      BY <3>1
  <2>4. CASE S = {}
    <3>1. status' = status
      BY <2>1, <2>4 DEF TypeInv, TypeOK
    <3>2. QED
      BY <1>7, <3>1
  <2>5. CASE S # {}
    <3> HIDE DEF S
    <3>1. Lifecycle!Skip(S)
      BY <1>7, <2>1, <2>2, <2>3, <2>5 DEF Lifecycle!Skip
    <3>2. QED
      BY <2>2, <3>1 DEF Lifecycle!Next
  <2>6. QED
    BY <2>4, <2>5
<1>8. ASSUME NEW t \in Task, ClaimFailure(t), UNCHANGED published PROVE Abstract
  <2> DEFINE n == task[t].node
  <2>1. n \in Node
    BY <1>8, HeldAreNodes DEF ClaimFailure, At, Inv
  <2>2. CASE FailureIsClaimed(n)
    <3>1. ~MayRetry(n)
      BY <2>1 DEF MayRetry, Plain, Undisturbed, NoRetries, TypeInv, TypeOK
    <3>2. status' = WithStatus(status, {n}, "Failed") /\ status[n] = "Running"
      BY <1>8, <2>2, <3>1 DEF ClaimFailure, FailureIsClaimed
    <3>3. QED
      BY <1>3, <1>8, <2>1, <3>2
  <2>3. CASE ~FailureIsClaimed(n)
    <3>1. UNCHANGED status
      BY <1>8, <2>3 DEF ClaimFailure
    <3>2. QED
      BY <1>8, <3>1
  <2>4. QED
    BY <2>2, <2>3
<1>9. ASSUME NEW t \in Task, ConfirmFailed(t) PROVE UNCHANGED status
  <2>1. status[task[t].node] = "Failed"
    BY <1>9 DEF ConfirmFailed, Inv, ClaimInv, FailingInv
  <2>2. QED
    BY <1>9, <2>1 DEF ConfirmFailed, TypeInv, TypeOK
<1>10. ASSUME NEW t \in Task, PublishTaskSubmit(t) \/ CollectDownstream(t) PROVE UNCHANGED status
  BY <1>10 DEF PublishTaskSubmit, CollectDownstream, graphVars
<1>11. ASSUME NEW t \in Task
       PROVE  ~MarkRetryRunning(t) /\ ~VictimsFailed(t) /\ ~CancelStatuses(t)
  <2>1. ~MarkRetryRunning(t)
    BY MarkRetryFrame DEF Inv, FrameInv, FrameOK, Plain, Undisturbed
  <2>2. ~VictimsFailed(t)
    BY Distinct DEF VictimsFailed, At, Inv, FrameInv, Place, ClockInv, Plain, Undisturbed
  <2>3. ~CancelStatuses(t)
    BY Distinct DEF CancelStatuses, At, Inv, FrameInv, Place, Plain, Undisturbed
  <2>4. QED
    BY <2>1, <2>2, <2>3
<1>12. QED
  BY <1>1, <1>2, <1>4, <1>5, <1>6, <1>7, <1>8, <1>9, <1>10, <1>11, CalmOrNot DEF Inv

\* The scheduler implements what a DAG promises: terminal statuses are final,
\* nodes start in order, skips have a cause and the end is announced once.
THEOREM SchedulerImplementsLifecycle == ASSUME Plain PROVE Spec => ImplementsLifecycle
<1>1. Regular
  BY DEF Regular, Plain, Undisturbed
<1>2. Init => Lifecycle!Init
  BY DEF Init, Lifecycle!Init
<1>3. Init => SkipInv /\ ClockInv
  <2> SUFFICES ASSUME Init PROVE SkipInv /\ ClockInv
    OBVIOUS
  <2>1. \A u \in Task : task[u] = Resting(IF \/ u \in {DagTimer, StallTimer}
                                             \/ u = Canceller /\ ~Cancellable
                                          THEN "off" ELSE "idle")
    BY DEF Init
  <2>2. \A u \in Task : task[u].pc \notin {"scan", "mark"}
    BY <2>1, RestingIsCalm
  <2>3. QED
    BY <2>2 DEF SkipInv, ClockInv, At, Init
<1>4. TypeInv /\ Inv /\ RunningInv /\ SkipInv /\ ClockInv /\ [Next]_vars => SkipInv' /\ ClockInv'
  BY SkipNext, ClockNext
<1>5. TypeInv /\ Inv /\ RunningInv /\ SkipInv /\ ClockInv /\ DagCompleteOnce' /\ [Next]_vars
        => [Lifecycle!Next]_<<status, published>>
  BY LifecycleStep
<1>6. QED
  BY <1>1, <1>2, <1>3, <1>4, <1>5, InvHolds, RunningHolds, AnnouncedOnce, TypeInvariant, PTL
     DEF Spec, ImplementsLifecycle, Lifecycle!Spec
=============================================================================
