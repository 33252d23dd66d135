--------------------- MODULE CollaborationSession_proofs ---------------------
(***************************************************************************)
(* Theorems of CollaborationSession: its type invariant, what a revision   *)
(* takes over from the one before, and, where replacements and             *)
(* cancellations have the session to themselves, that what runs for a      *)
(* session is what the registry names.                                     *)
(***************************************************************************)
EXTENDS CollaborationSession, TLAPS

Handler ==
  [pc : {"none", "enter", "look", "stop", "cancel", "clear", "register", "listen", "submit",
         "withdraw", "fail", "watch", "end", "done"},
   kind : {"none", "activate", "replace", "recover", "cancel"},
   rev : 0..MaxRevisions, old : Request \cup {NoOne}]

Dag == [rev : 0..MaxRevisions, phase : {"none", "built", "running", "stray", "lost"},
        failed : BOOLEAN, done : SUBSET Node]

Monitor == [pc : {"none", "polling", "looked", "ending", "leaving", "ended"}, failed : BOOLEAN]

Building == {"activate", "replace", "recover"}

\* The handlers that have not registered a DAG yet.
Early == {"none", "enter", "look", "stop", "cancel", "clear", "register"}

(***************************************************************************)
(* What a handler may hold where, and that a DAG which was built has a     *)
(* revision: those of the handlers that have not come so far are blank.    *)
(***************************************************************************)
HandlerOK(f) ==
  /\ f.kind \in Building => f.rev \in Revision
  /\ f.kind = "recover" => f.old \in Request
  /\ f.pc = "none" => f.kind = "none"
  /\ f.pc = "enter" => f.kind = "activate"
  /\ f.pc \in {"look", "stop", "cancel", "clear"} => f.kind \in {"replace", "cancel"}
  /\ f.pc \in {"register", "listen", "submit", "withdraw", "fail", "watch"} => f.kind \in Building
  /\ f.pc = "end" => f.kind = "cancel"
  /\ f.pc = "cancel" \/ (f.pc = "stop" /\ f.kind = "replace") => f.old \in Request

DagOK(h) ==
  /\ handler[h].pc \in Early => dag[h].rev = 0
  /\ handler[h].pc \in {"listen", "submit", "withdraw", "watch"} => dag[h].rev # 0
  /\ dag[h].rev = 0 => dag[h].phase = "none" /\ dag[h].done = {}
  /\ monitor[h].pc # "none" => dag[h].rev # 0

FramesOK == \A h \in Request : HandlerOK(handler[h]) /\ DagOK(h)

TypeInv == TypeOK /\ FramesOK

LEMMA Types ==
  ASSUME TypeInv
  PROVE  /\ handler \in [Request -> Handler] /\ dag \in [Request -> Dag]
         /\ monitor \in [Request -> Monitor]
BY DEF TypeInv, TypeOK, Handler, Dag, Monitor

-----------------------------------------------------------------------------
(* What the steps do to the frames, field by field. *)

Pc == {"none", "enter", "look", "stop", "cancel", "clear", "register", "listen", "submit",
       "withdraw", "fail", "watch", "end", "done"}

\* h goes on to pc, and remembers what it did.
Moved(h, pc) ==
  /\ handler' \in [Request -> Handler]
  /\ \A g \in Request : g # h => handler'[g] = handler[g]
  /\ handler'[h].pc = pc /\ handler'[h].kind = handler[h].kind
  /\ handler'[h].rev = handler[h].rev /\ handler'[h].old = handler[h].old

LEMMA GotoMoves ==
  ASSUME TypeInv, NEW h \in Request, NEW pc \in Pc, Goto(h, pc)
  PROVE  Moved(h, pc)
<1>1. handler' = [handler EXCEPT ![h].pc = pc] /\ handler \in [Request -> Handler]
  BY Types DEF Goto
<1>2. [handler[h] EXCEPT !.pc = pc] \in Handler
  BY <1>1 DEF Handler, Pc
<1>3. handler' = [handler EXCEPT ![h] = [handler[h] EXCEPT !.pc = pc]]
  BY <1>1
<1>4. QED
  BY <1>1, <1>2, <1>3 DEF Moved, Handler

\* A request that arrives.
Begun(h, kind, pc, rev, old) ==
  /\ handler' \in [Request -> Handler]
  /\ \A g \in Request : g # h => handler'[g] = handler[g]
  /\ handler'[h].pc = pc /\ handler'[h].kind = kind
  /\ handler'[h].rev = rev /\ handler'[h].old = old

LEMMA BeginBegins ==
  ASSUME TypeInv, NEW h \in Request, NEW pc \in Pc, NEW kind \in Building \cup {"cancel"},
         NEW rev \in 0..MaxRevisions, NEW old \in Request \cup {NoOne}, Begin(h, kind, pc, rev, old)
  PROVE  Begun(h, kind, pc, rev, old)
<1>1. [pc |-> pc, kind |-> kind, rev |-> rev, old |-> old] \in Handler
  BY DEF Handler, Pc, Building
<1>2. QED
  BY <1>1, Types DEF Begun, Begin

LEMMA LookMoves ==
  ASSUME TypeInv, NEW h \in Request, Look(h)
  PROVE  Begun(h, handler[h].kind,
               IF handler[h].kind = "replace"
               THEN IF registered = NoOne THEN "register" ELSE "stop"
               ELSE IF registered = NoOne THEN "stop" ELSE "cancel",
               handler[h].rev, registered)
<1> DEFINE pc == IF handler[h].kind = "replace"
                 THEN IF registered = NoOne THEN "register" ELSE "stop"
                 ELSE IF registered = NoOne THEN "stop" ELSE "cancel"
<1>1. handler[h] \in Handler /\ registered \in Request \cup {NoOne} /\ pc \in Pc
  BY Types DEF TypeInv, TypeOK, Pc
<1>2. handler' = [handler EXCEPT ![h].old = registered, ![h].pc = pc]
  BY DEF Look
<1> HIDE DEF pc
<1>3. [[handler[h] EXCEPT !.old = registered] EXCEPT !.pc = pc] \in Handler
  BY <1>1 DEF Handler, Pc
<1>4. handler' = [handler EXCEPT ![h] = [[handler[h] EXCEPT !.old = registered] EXCEPT !.pc = pc]]
  BY <1>1, <1>2, Types
<1>5. Begun(h, handler[h].kind, pc, handler[h].rev, registered)
  BY <1>1, <1>3, <1>4, Types DEF Begun, Handler
<1>6. QED
  BY <1>5 DEF pc

\* A DAG goes on; the others keep as they are.
Turned(h, phase, failed, done) ==
  /\ dag' \in [Request -> Dag]
  /\ \A g \in Request : g # h => dag'[g] = dag[g]
  /\ dag'[h].rev = dag[h].rev /\ dag'[h].phase = phase
  /\ dag'[h].failed = failed /\ dag'[h].done = done

LEMMA SubmitFaultTurns ==
  ASSUME TypeInv, NEW h \in Request, SubmitFault(h)
  PROVE  Turned(h, "stray", dag[h].failed, dag[h].done)
<1>1. dag' = [dag EXCEPT ![h] = [dag[h] EXCEPT !.phase = "stray"]] /\ dag[h] \in Dag
  BY Types DEF SubmitFault
<1>2. QED
  BY <1>1, Types DEF Turned, Dag

LEMMA NodeFailsTurns ==
  ASSUME TypeInv, NEW h \in Request, NodeFails(h)
  PROVE  Turned(h, dag[h].phase, TRUE, dag[h].done)
<1>1. dag' = [dag EXCEPT ![h] = [dag[h] EXCEPT !.failed = TRUE]] /\ dag[h] \in Dag
  BY Types DEF NodeFails
<1>2. QED
  BY <1>1, Types DEF Turned, Dag

LEMMA NodeCompletesTurns ==
  ASSUME TypeInv, NEW h \in Request, NEW n \in Node, NodeCompletes(h, n)
  PROVE  Turned(h, dag[h].phase, dag[h].failed, dag[h].done \cup {n})
<1>1. dag' = [dag EXCEPT ![h] = [dag[h] EXCEPT !.done = dag[h].done \cup {n}]] /\ dag[h] \in Dag
  BY Types DEF NodeCompletes
<1>2. QED
  BY <1>1, Types DEF Turned, Dag

\* The DAG that h builds.
BuiltBy(h) ==
  [rev |-> handler[h].rev, phase |-> "built",
   failed |-> handler[h].kind = "recover" /\ dag[handler[h].old].failed,
   done |-> IF handler[h].kind = "recover" THEN dag[handler[h].old].done
                                           ELSE preserved[handler[h].rev]]

LEMMA BuildsDag ==
  ASSUME TypeInv, NEW h \in Request, At(h, "register")
  PROVE  /\ BuiltBy(h) \in Dag /\ Built(h) = [dag EXCEPT ![h] = BuiltBy(h)]
         /\ BuiltBy(h).rev = handler[h].rev /\ BuiltBy(h).phase = "built"
         /\ handler[h].rev \in Revision
         /\ Built(h) \in [Request -> Dag]
<1>1. /\ handler[h].rev \in Revision /\ handler[h].rev \in 0..MaxRevisions
      /\ handler[h].kind = "recover" => handler[h].old \in Request
      /\ preserved \in [Revision -> SUBSET Node]
  BY Types DEF TypeInv, TypeOK, FramesOK, HandlerOK, At, Handler
<1>2. (handler[h].kind = "recover" /\ dag[handler[h].old].failed) \in BOOLEAN
  OBVIOUS
<1>3. (IF handler[h].kind = "recover" THEN dag[handler[h].old].done ELSE preserved[handler[h].rev])
         \in SUBSET Node
  <2>1. CASE handler[h].kind = "recover"
    BY <1>1, <2>1, Types DEF Dag
  <2>2. CASE handler[h].kind # "recover"
    BY <1>1, <2>2
  <2>3. QED
    BY <2>1, <2>2
<1>4. BuiltBy(h) \in Dag
  BY <1>1, <1>2, <1>3 DEF BuiltBy, Dag
<1>5. Built(h) = [dag EXCEPT ![h] = BuiltBy(h)]
  BY DEF Built, BuiltBy
<1>6. QED
  BY <1>1, <1>4, <1>5, Types DEF BuiltBy

LEMMA SubmitTurns ==
  ASSUME TypeInv, NEW h \in Request, SubmitGraph(h)
  PROVE  /\ dag' \in [Request -> Dag]
         /\ \A g \in Request : /\ dag'[g].rev = dag[g].rev /\ dag'[g].failed = dag[g].failed
                                /\ dag'[g].done = dag[g].done
         /\ dag'[h].phase = "running"
         /\ \A g \in Request : g # h =>
               \/ dag'[g].phase = dag[g].phase
               \/ dag'[g].phase = "none" /\ ~Live(g) /\ ~Stray(g) /\ dag[g].rev = dag[h].rev
<1> DEFINE d(g) == IF g = h THEN [dag[g] EXCEPT !.phase = "running"]
                   ELSE IF dag[g].rev = dag[h].rev /\ ~Live(g) /\ ~Stray(g)
                        THEN [dag[g] EXCEPT !.phase = "none"] ELSE dag[g]
<1>1. \A g \in Request : dag[g] \in Dag
  BY Types
<1>2. dag' = [g \in Request |-> d(g)]
  BY DEF SubmitGraph
<1>3. \A g \in Request : d(g) \in Dag
  BY <1>1 DEF Dag
<1>4. QED
  BY <1>1, <1>2, <1>3 DEF Dag

LEMMA CancelTurns ==
  ASSUME TypeInv, NEW h \in Request, CancelDag(h)
  PROVE  /\ dag' \in [Request -> Dag] /\ handler[h].old \in Request
         /\ \A g \in Request : g # handler[h].old => dag'[g] = dag[g]
         /\ LET old == handler[h].old
            IN  /\ dag'[old].rev = dag[old].rev /\ dag'[old].phase = dag[old].phase
                /\ dag'[old].done = dag[old].done
                /\ IF Live(old) THEN dag'[old].failed ELSE dag'[old].failed = dag[old].failed
<1> DEFINE old == handler[h].old
           d(g) == IF g = old /\ Live(g) THEN [dag[g] EXCEPT !.failed = TRUE] ELSE dag[g]
<1>1. \A g \in Request : dag[g] \in Dag
  BY Types
<1>2. dag' = [g \in Request |-> d(g)] /\ old \in Request
  BY DEF CancelDag, TypeInv, FramesOK, HandlerOK, At
<1>3. \A g \in Request : d(g) \in Dag
  BY <1>1 DEF Dag
<1>4. QED
  BY <1>1, <1>2, <1>3 DEF Dag

LEMMA RestartTurns ==
  ASSUME TypeInv, Restart
  PROVE  /\ dag' \in [Request -> Dag] /\ handler' \in [Request -> Handler]
         /\ \A h \in Request :
              /\ dag'[h].rev = dag[h].rev /\ dag'[h].done = dag[h].done
              /\ dag'[h].failed = dag[h].failed
              /\ dag'[h].phase \in {"none", "lost"}
              /\ dag[h].phase = "none" => dag'[h].phase = "none"
              /\ IF At(h, "none") THEN handler'[h] = handler[h]
                 ELSE /\ handler'[h].pc = "done" /\ handler'[h].kind = handler[h].kind
                      /\ handler'[h].rev = handler[h].rev /\ handler'[h].old = handler[h].old
<1> DEFINE d(h) == IF dag[h].phase = "none" THEN dag[h]
                   ELSE [dag[h] EXCEPT !.phase = IF dag[h].phase \in {"built", "stray"} THEN "none" ELSE "lost"]
           f(h) == IF At(h, "none") THEN handler[h] ELSE [handler[h] EXCEPT !.pc = "done"]
<1>1. \A h \in Request : dag[h] \in Dag /\ handler[h] \in Handler
  BY Types
<1>2. dag' = [h \in Request |-> d(h)] /\ handler' = [h \in Request |-> f(h)]
  BY DEF Restart
<1>3. \A h \in Request : d(h) \in Dag /\ f(h) \in Handler
  BY <1>1 DEF Dag, Handler
<1>4. QED
  BY <1>1, <1>2, <1>3 DEF Dag, Handler

\* A monitor goes on.
LEMMA MonitorMoves ==
  ASSUME TypeInv, NEW h \in Request, MonitorStep(h) \/ Watch(h)
  PROVE  /\ monitor' \in [Request -> Monitor]
         /\ \A g \in Request : g # h => monitor'[g] = monitor[g]
         /\ monitor'[h].pc # "none" => Watch(h) \/ monitor[h].pc # "none"
<1>1. monitor \in [Request -> Monitor] /\ monitor[h] \in Monitor /\ dag[h].failed \in BOOLEAN
  BY Types DEF Dag
<1>2. CASE Snapshot(h)
  BY <1>1, <1>2 DEF Snapshot, Monitor
<1>3. CASE CheckEnd(h) \/ MonitorEnds(h)
  <2>1. \E pc \in {"ending", "polling", "leaving"} :
           monitor' = [monitor EXCEPT ![h] = [monitor[h] EXCEPT !.pc = pc]] /\ monitor[h].pc # "none"
    BY <1>1, <1>3 DEF CheckEnd, MonitorEnds
  <2>2. QED
    BY <1>1, <2>1 DEF Monitor
<1>4. CASE MonitorLeaves(h)
  BY <1>1, <1>4 DEF MonitorLeaves, Monitor
<1>5. CASE Watch(h)
  <2>1. monitor' = monitor \/ monitor' = [monitor EXCEPT ![h] = [monitor[h] EXCEPT !.pc = "polling"]]
    BY <1>1, <1>5 DEF Watch
  <2>2. QED
    BY <1>1, <1>5, <2>1 DEF Monitor
<1>6. QED
  BY <1>2, <1>3, <1>4, <1>5 DEF MonitorStep

LEMMA StopMoves ==
  ASSUME TypeInv, StopMonitor
  PROVE  /\ monitor' \in [Request -> Monitor] /\ watched' = NoOne
         /\ \A g \in Request : monitor'[g].pc # "none" => monitor[g].pc # "none"
<1> DEFINE m(h) == IF h = watched /\ monitor[h].pc \in {"polling", "looked"}
                   THEN [pc |-> "ended", failed |-> FALSE] ELSE monitor[h]
<1>1. monitor \in [Request -> Monitor]
  BY Types
<1>2. CASE monitor' = [h \in Request |-> m(h)]
  <2>1. \A h \in Request : m(h) \in Monitor
    BY <1>1 DEF Monitor
  <2>2. QED
    BY <1>2, <2>1 DEF StopMonitor
<1>3. CASE UNCHANGED monitor
  BY <1>1, <1>3 DEF StopMonitor
<1>4. QED
  BY <1>2, <1>3 DEF StopMonitor

\* A listener that stops may leave an end undone, and begins none.
LEMMA ListenerStops ==
  ASSUME TypeInv, StopListener
  PROVE  /\ listening' \subseteq Request /\ listener' = NoOne
         /\ ending' \in [Request -> {"open", "listener", "task", "closed"}]
         /\ \A g \in Request : ending'[g] = ending[g] \/ ending'[g] = "open"
<1> DEFINE e(h) == IF h = listener /\ ending[h] = "listener" THEN "open" ELSE ending[h]
<1>1. ending \in [Request -> {"open", "listener", "task", "closed"}] /\ listening \subseteq Request
  BY DEF TypeInv, TypeOK
<1>2. \A h \in Request : e(h) \in {"open", "listener", "task", "closed"}
  BY <1>1
<1>3. ending' = ending \/ ending' = [h \in Request |-> e(h)]
  BY DEF StopListener
<1>4. QED
  BY <1>1, <1>2, <1>3 DEF StopListener


-----------------------------------------------------------------------------
(* Which steps change what. *)

LEMMA Steps ==
  ASSUME [Next]_vars
  PROVE  \/ (\E s \in UserStates : Transition(s)) \/ CreatePlanRevision
         \/ \E a \in 1..MaxApprovals : CreateApproval(a) \/ DecideApproval(a)
         \/ \E h \in Request :
              \/ Activate(h) \/ Replace(h) \/ Interact(h) \/ Cancel(h)
              \/ \E g \in Request : Recover(h, g)
              \/ Enter(h) \/ Look(h) \/ Stop(h) \/ CancelDag(h) \/ Clear(h)
              \/ Register(h) \/ Listen(h) \/ SubmitGraph(h) \/ SubmitFault(h) \/ Withdraw(h)
              \/ Fail(h) \/ Watch(h) \/ CancelSession(h)
              \/ Snapshot(h) \/ CheckEnd(h) \/ MonitorEnds(h) \/ MonitorLeaves(h)
              \/ NodeFails(h) \/ Finalize(h) \/ \E n \in Node : NodeCompletes(h, n)
         \/ Restart
         \/ UNCHANGED vars
BY DEF Next, HandlerStep, MonitorStep

LEMMA SessionSteps ==
  ASSUME [Next]_vars
  PROVE  \/ UNCHANGED sessionVars
         \/ (\E s \in UserStates : Transition(s)) \/ CreatePlanRevision
         \/ \E a \in 1..MaxApprovals : CreateApproval(a) \/ DecideApproval(a)
         \/ \E h \in Request : Interact(h) \/ Enter(h) \/ Fail(h) \/ CancelSession(h)
                               \/ Snapshot(h) \/ MonitorEnds(h)
<1>1. ASSUME NEW h \in Request,
             \/ Activate(h) \/ Replace(h) \/ Cancel(h) \/ \E g \in Request : Recover(h, g)
             \/ Look(h) \/ Stop(h) \/ CancelDag(h) \/ Clear(h) \/ Register(h) \/ Listen(h)
             \/ SubmitGraph(h) \/ SubmitFault(h) \/ Withdraw(h) \/ Watch(h)
             \/ CheckEnd(h) \/ MonitorLeaves(h) \/ NodeFails(h) \/ Finalize(h)
             \/ \E n \in Node : NodeCompletes(h, n)
      PROVE  UNCHANGED sessionVars
  BY <1>1 DEF Activate, Replace, Cancel, Recover, Look, Stop, CancelDag, Clear, Register, Listen,
              SubmitGraph, SubmitFault, Withdraw, Watch, CheckEnd, MonitorLeaves, NodeFails,
              Finalize, NodeCompletes
<1>2. CASE Restart \/ UNCHANGED vars
  BY <1>2 DEF Restart, vars, sessionVars
<1>3. QED
  BY <1>1, <1>2, Steps

LEMMA HandlerSteps ==
  ASSUME [Next]_vars
  PROVE  \/ UNCHANGED handler
         \/ \E h \in Request :
              \/ Activate(h) \/ Replace(h) \/ Interact(h) \/ Cancel(h)
              \/ \E g \in Request : Recover(h, g)
              \/ Enter(h) \/ Look(h) \/ Stop(h) \/ CancelDag(h) \/ Clear(h)
              \/ Register(h) \/ Listen(h) \/ SubmitGraph(h) \/ SubmitFault(h) \/ Withdraw(h)
              \/ Fail(h) \/ Watch(h) \/ CancelSession(h)
         \/ Restart
<1>1. ASSUME NEW h \in Request,
             \/ Snapshot(h) \/ CheckEnd(h) \/ MonitorEnds(h) \/ MonitorLeaves(h)
             \/ NodeFails(h) \/ Finalize(h) \/ \E n \in Node : NodeCompletes(h, n)
      PROVE  UNCHANGED handler
  BY <1>1 DEF Snapshot, CheckEnd, MonitorEnds, MonitorLeaves, NodeFails, Finalize, NodeCompletes
<1>2. CASE \/ (\E s \in UserStates : Transition(s)) \/ CreatePlanRevision
           \/ \E a \in 1..MaxApprovals : CreateApproval(a) \/ DecideApproval(a)
           \/ UNCHANGED vars
  BY <1>2 DEF Transition, CreatePlanRevision, CreateApproval, DecideApproval, vars
<1>3. QED
  BY <1>1, <1>2, Steps

LEMMA DagSteps ==
  ASSUME [Next]_vars
  PROVE  \/ UNCHANGED dag
         \/ \E h \in Request :
              \/ CancelDag(h) \/ Register(h) \/ SubmitGraph(h) \/ SubmitFault(h)
              \/ NodeFails(h) \/ \E n \in Node : NodeCompletes(h, n)
         \/ Restart
<1>1. ASSUME NEW h \in Request,
             \/ Activate(h) \/ Replace(h) \/ Interact(h) \/ Cancel(h)
             \/ \E g \in Request : Recover(h, g)
             \/ Enter(h) \/ Look(h) \/ Stop(h) \/ Clear(h) \/ Listen(h) \/ Withdraw(h)
             \/ Fail(h) \/ Watch(h) \/ CancelSession(h)
             \/ Snapshot(h) \/ CheckEnd(h) \/ MonitorEnds(h) \/ MonitorLeaves(h) \/ Finalize(h)
      PROVE  UNCHANGED dag
  BY <1>1 DEF Activate, Replace, Interact, Cancel, Recover, Enter, Look, Stop, Clear, Listen, Withdraw,
              Fail, Watch, CancelSession, Snapshot, CheckEnd, MonitorEnds, MonitorLeaves, Finalize
<1>2. CASE \/ (\E s \in UserStates : Transition(s)) \/ CreatePlanRevision
           \/ \E a \in 1..MaxApprovals : CreateApproval(a) \/ DecideApproval(a)
           \/ UNCHANGED vars
  BY <1>2 DEF Transition, CreatePlanRevision, CreateApproval, DecideApproval, vars
<1>3. QED
  BY <1>1, <1>2, Steps

LEMMA MonitorSteps ==
  ASSUME [Next]_vars
  PROVE  \/ UNCHANGED monitor
         \/ \E h \in Request : MonitorStep(h) \/ Watch(h) \/ Stop(h)
         \/ Restart
<1>1. ASSUME NEW h \in Request,
             \/ Activate(h) \/ Replace(h) \/ Interact(h) \/ Cancel(h)
             \/ \E g \in Request : Recover(h, g)
             \/ Enter(h) \/ Look(h) \/ CancelDag(h) \/ Clear(h)
             \/ Register(h) \/ Listen(h) \/ SubmitGraph(h) \/ SubmitFault(h) \/ Withdraw(h)
             \/ Fail(h) \/ CancelSession(h)
             \/ NodeFails(h) \/ Finalize(h) \/ \E n \in Node : NodeCompletes(h, n)
      PROVE  UNCHANGED monitor
  BY <1>1 DEF Activate, Replace, Interact, Cancel, Recover, Enter, Look, CancelDag, Clear, Register,
              Listen, SubmitGraph, SubmitFault, Withdraw, Fail, CancelSession, NodeFails, Finalize,
              NodeCompletes, taskVars
<1>2. CASE \/ (\E s \in UserStates : Transition(s)) \/ CreatePlanRevision
           \/ \E a \in 1..MaxApprovals : CreateApproval(a) \/ DecideApproval(a)
           \/ UNCHANGED vars
  BY <1>2 DEF Transition, CreatePlanRevision, CreateApproval, DecideApproval, vars, taskVars
<1>3. QED
  BY <1>1, <1>2, Steps DEF MonitorStep

-----------------------------------------------------------------------------
(* The types. *)

SessionOK ==
  /\ state \in States /\ active \in 0..MaxRevisions
  /\ preserved \in [Revision -> SUBSET Node]
  /\ recorded \subseteq Revision \X Node
  /\ pending \subseteq 1..MaxApprovals

TasksOK ==
  /\ {registered, listener, watched} \subseteq Request \cup {NoOne}
  /\ ending \in [Request -> {"open", "listener", "task", "closed"}]
  /\ listening \subseteq Request
  /\ faults \in 0..MaxFaults

LEMMA Parts ==
  TypeOK <=> /\ SessionOK /\ TasksOK /\ handler \in [Request -> Handler]
             /\ dag \in [Request -> Dag] /\ monitor \in [Request -> Monitor]
BY DEF TypeOK, SessionOK, TasksOK, Handler, Dag, Monitor

LEMMA InitTypes == Init => TypeInv
<1> SUFFICES ASSUME Init PROVE TypeInv
  OBVIOUS
<1>1. handler \in [Request -> Handler] /\ dag \in [Request -> Dag] /\ monitor \in [Request -> Monitor]
  BY CollaborationAssumption DEF CollaborationAssumption, Init, Handler, Dag, Monitor, NoMonitor
<1>2. SessionOK /\ TasksOK
  BY CollaborationAssumption DEF CollaborationAssumption, Init, SessionOK, TasksOK, States
<1>3. \A h \in Request : HandlerOK(handler[h]) /\ DagOK(h)
  BY DEF Init, HandlerOK, DagOK, NoMonitor, Early, Building
<1>4. QED
  BY <1>1, <1>2, <1>3, Parts DEF TypeInv, FramesOK

LEMMA SessionNext == ASSUME TypeInv, [Next]_vars PROVE SessionOK'
<1>1. /\ SessionOK /\ UserStates \subseteq States /\ MaxRevisions \in Nat
      /\ \A h \in Request : dag[h] \in Dag /\ DagOK(h)
  BY CollaborationAssumption, Parts, Types DEF CollaborationAssumption, TypeInv, FramesOK
<1>2. ASSUME NEW s \in UserStates, Transition(s) PROVE SessionOK'
  BY <1>1, <1>2 DEF Transition, SessionOK
<1>3. CASE CreatePlanRevision \/ \E h \in Request : Interact(h)
  <2>1. Revise
    BY <1>3 DEF CreatePlanRevision, Interact
  <2>2. Completed \subseteq Node
    BY DEF Completed
  <2>3. QED
    BY <1>1, <2>1, <2>2 DEF Revise, SessionOK, States, Revision
<1>4. ASSUME NEW a \in 1..MaxApprovals, CreateApproval(a) \/ DecideApproval(a) PROVE SessionOK'
  BY <1>1, <1>4 DEF CreateApproval, DecideApproval, SessionOK, States
<1>5. ASSUME NEW h \in Request, Enter(h) \/ Fail(h) \/ MonitorEnds(h) PROVE SessionOK'
  BY <1>1, <1>5 DEF Enter, Fail, MonitorEnds, TransitionIfAllowed, SessionOK, States
<1>6. ASSUME NEW h \in Request, CancelSession(h) PROVE SessionOK'
  BY <1>1, <1>6 DEF CancelSession, SessionOK, States
<1>7. ASSUME NEW h \in Request, Snapshot(h) PROVE SessionOK'
  <2>1. dag[h].rev \in Revision /\ dag[h].done \subseteq Node
    BY <1>1, <1>7 DEF Snapshot, DagOK, Dag, Revision
  <2>2. {<<dag[h].rev, n>> : n \in dag[h].done} \subseteq Revision \X Node
    BY <2>1
  <2>3. QED
    BY <1>1, <1>7, <2>2 DEF Snapshot, SessionOK
<1>8. CASE UNCHANGED sessionVars
  BY <1>1, <1>8 DEF sessionVars, SessionOK
<1>9. QED
  BY <1>2, <1>3, <1>4, <1>5, <1>6, <1>7, <1>8, SessionSteps

LEMMA TasksNext == ASSUME TypeInv, [Next]_vars PROVE TasksOK'
<1>1. TasksOK /\ MaxFaults \in Nat
  BY CollaborationAssumption, Parts DEF CollaborationAssumption, TypeInv
<1>2. ASSUME NEW h \in Request, Stop(h) PROVE TasksOK'
  BY <1>1, <1>2, StopMoves, ListenerStops DEF Stop, TasksOK
<1>3. ASSUME NEW h \in Request, CancelDag(h) PROVE TasksOK'
  <2>1. ending[handler[h].old] # "x" /\ handler[h].old \in Request
    BY <1>1, <1>3, CancelTurns DEF TasksOK
  <2>2. QED
    BY <1>1, <1>3, <2>1 DEF CancelDag, TasksOK
<1>4. ASSUME NEW h \in Request, Clear(h) \/ Register(h) \/ Listen(h) \/ SubmitFault(h) \/ Watch(h)
                               \/ NodeFails(h) \/ Finalize(h) PROVE TasksOK'
  BY <1>1, <1>4 DEF Clear, Register, Listen, SubmitFault, Watch, NodeFails, Finalize, taskVars, TasksOK
<1>5. ASSUME NEW h \in Request, Withdraw(h) \/ MonitorLeaves(h) PROVE TasksOK'
  BY <1>1, <1>5, ListenerStops DEF Withdraw, MonitorLeaves, TasksOK
<1>6. ASSUME NEW h \in Request, NEW n \in Node, NodeCompletes(h, n) PROVE TasksOK'
  BY <1>1, <1>6 DEF NodeCompletes, TasksOK
<1>7. CASE Restart
  BY <1>1, <1>7 DEF Restart, TasksOK
<1>8. ASSUME NEW h \in Request,
             \/ Activate(h) \/ Replace(h) \/ Interact(h) \/ Cancel(h)
             \/ \E g \in Request : Recover(h, g)
             \/ Enter(h) \/ Look(h) \/ SubmitGraph(h) \/ Fail(h) \/ CancelSession(h)
             \/ Snapshot(h) \/ CheckEnd(h) \/ MonitorEnds(h)
      PROVE  TasksOK'
  BY <1>1, <1>8 DEF Activate, Replace, Interact, Cancel, Recover, Enter, Look, SubmitGraph, Fail,
                    CancelSession, Snapshot, CheckEnd, MonitorEnds, taskVars, TasksOK
<1>9. CASE \/ (\E s \in UserStates : Transition(s)) \/ CreatePlanRevision
           \/ \E a \in 1..MaxApprovals : CreateApproval(a) \/ DecideApproval(a)
           \/ UNCHANGED vars
  BY <1>1, <1>9 DEF Transition, CreatePlanRevision, CreateApproval, DecideApproval, vars, taskVars, TasksOK
<1>10. QED
  BY <1>2, <1>3, <1>4, <1>5, <1>6, <1>7, <1>8, <1>9, Steps

LEMMA HandlersNext ==
  ASSUME TypeInv, [Next]_vars
  PROVE  handler' \in [Request -> Handler] /\ \A h \in Request : HandlerOK(handler'[h])
<1> DEFINE G == handler' \in [Request -> Handler] /\ \A h \in Request : HandlerOK(handler'[h])
<1>1. /\ \A h \in Request : HandlerOK(handler[h]) /\ handler[h] \in Handler /\ DagOK(h) /\ dag[h] \in Dag
      /\ registered \in Request \cup {NoOne} /\ active \in 0..MaxRevisions /\ MaxRevisions \in Nat
  BY CollaborationAssumption, Parts, Types
     DEF CollaborationAssumption, TypeInv, FramesOK, SessionOK, TasksOK
<1>2. ASSUME NEW h \in Request, NEW kind \in Building \cup {"cancel"}, NEW pc \in Pc,
             NEW rev \in 0..MaxRevisions, NEW old \in Request \cup {NoOne},
             Begin(h, kind, pc, rev, old), kind \in Building => rev # 0,
             \/ kind = "activate" /\ pc = "enter"
             \/ kind = "replace" /\ pc = "look"
             \/ kind = "recover" /\ pc = "register" /\ old \in Request
             \/ kind = "cancel" /\ pc = "look"
      PROVE  G
  <2>1. Begun(h, kind, pc, rev, old)
    BY <1>2, BeginBegins
  <2>2. QED
    BY <1>1, <1>2, <2>1 DEF Begun, HandlerOK, Building, Revision
<1>3. ASSUME NEW h \in Request, Activate(h) \/ Replace(h) \/ Interact(h) \/ Cancel(h) PROVE G
  <2>1. CASE Activate(h) \/ Replace(h)
    <3>1. active # 0 /\ (Begin(h, "activate", "enter", active, NoOne) \/ Begin(h, "replace", "look", active, NoOne))
      BY <2>1 DEF Activate, Replace
    <3>2. "activate" \in Building /\ "replace" \in Building /\ "enter" \in Pc /\ "look" \in Pc
      BY DEF Building, Pc
    <3>3. CASE Begin(h, "activate", "enter", active, NoOne)
      BY <1>1, <1>2, <3>1, <3>2, <3>3
    <3>4. CASE Begin(h, "replace", "look", active, NoOne)
      BY <1>1, <1>2, <3>1, <3>2, <3>4
    <3>5. QED
      BY <3>1, <3>3, <3>4
  <2>2. CASE Interact(h)
    <3>1. active + 1 \in 0..MaxRevisions /\ active + 1 # 0
      BY <1>1, <2>2 DEF Interact, Revise
    <3>2. Begin(h, "activate", "enter", active + 1, NoOne) \/ Begin(h, "replace", "look", active + 1, NoOne)
      BY <2>2 DEF Interact
    <3>3. "activate" \in Building /\ "replace" \in Building /\ "enter" \in Pc /\ "look" \in Pc
      BY DEF Building, Pc
    <3>4. CASE Begin(h, "activate", "enter", active + 1, NoOne)
      BY <1>2, <3>1, <3>3, <3>4
    <3>5. CASE Begin(h, "replace", "look", active + 1, NoOne)
      BY <1>2, <3>1, <3>3, <3>5
    <3>6. QED
      BY <3>2, <3>4, <3>5
  <2>3. CASE Cancel(h)
    BY <1>1, <1>2, <2>3 DEF Cancel, Building, Pc
  <2>4. QED
    BY <1>3, <2>1, <2>2, <2>3
<1>4. ASSUME NEW h \in Request, NEW g \in Request, Recover(h, g) PROVE G
  BY <1>1, <1>2, <1>4 DEF Recover, DagOK, Building, Pc
<1>5. ASSUME NEW h \in Request, Look(h) PROVE G
  <2>1. HandlerOK(handler[h]) /\ handler[h].pc = "look"
    BY <1>1, <1>5 DEF Look, At
  <2>2. HandlerOK(handler'[h])
    BY <1>1, <1>5, <2>1, LookMoves DEF Begun, HandlerOK, Building
  <2>3. QED
    BY <1>1, <1>5, <2>2, LookMoves DEF Begun
<1>6. ASSUME NEW h \in Request, NEW pc \in Pc, Goto(h, pc), pc # "none",
             pc = "enter" => FALSE, pc = "look" => FALSE, pc = "stop" => handler[h].kind = "cancel",
             pc = "cancel" => handler[h].old \in Request /\ handler[h].kind = "replace",
             pc = "clear" => handler[h].kind \in {"replace", "cancel"},
             pc \in {"register", "listen", "submit", "withdraw", "fail", "watch"} => handler[h].kind \in Building,
             pc = "end" => handler[h].kind = "cancel"
      PROVE  G
  <2>1. Moved(h, pc)
    BY <1>6, GotoMoves
  <2>2. QED
    BY <1>1, <1>6, <2>1 DEF Moved, HandlerOK, Building
<1>7. ASSUME NEW h \in Request,
             \/ Enter(h) \/ Register(h) \/ Listen(h) \/ SubmitGraph(h) \/ SubmitFault(h) \/ Withdraw(h)
             \/ Fail(h) \/ Watch(h) \/ CancelSession(h)
      PROVE  G
  <2> USE <1>1, <1>6, <1>7
  <2>1. CASE Enter(h) \/ Fail(h) \/ CancelSession(h)
    BY <2>1 DEF Enter, Fail, CancelSession, HandlerOK, At, Pc, Building
  <2>2. CASE Register(h)
    BY <2>2 DEF Register, HandlerOK, At, Pc, Building
  <2>3. CASE Listen(h) \/ SubmitGraph(h) \/ SubmitFault(h) \/ Withdraw(h) \/ Watch(h)
    BY <2>3 DEF Listen, SubmitGraph, SubmitFault, Withdraw, Watch, HandlerOK, At, Pc, Building
  <2>4. QED
    BY <2>1, <2>2, <2>3
<1>8. ASSUME NEW h \in Request, Stop(h) \/ CancelDag(h) \/ Clear(h) PROVE G
  <2> USE <1>1, <1>6, <1>8
  <2>1. CASE Stop(h)
    BY <2>1 DEF Stop, HandlerOK, At, Pc
  <2>2. CASE CancelDag(h)
    BY <2>2 DEF CancelDag, HandlerOK, At, Pc
  <2>3. CASE Clear(h)
    BY <2>3 DEF Clear, HandlerOK, At, Pc, Building
  <2>4. QED
    BY <2>1, <2>2, <2>3
<1>9. CASE Restart
  BY <1>1, <1>9, RestartTurns DEF HandlerOK, At
<1>10. CASE UNCHANGED handler
  BY <1>1, <1>10, Types
<1>11. QED
  BY <1>3, <1>4, <1>5, <1>7, <1>8, <1>9, <1>10, HandlerSteps

LEMMA DagsNext ==
  ASSUME TypeInv, [Next]_vars
  PROVE  dag' \in [Request -> Dag] /\ monitor' \in [Request -> Monitor]
<1>1. dag' \in [Request -> Dag]
  <2>1. ASSUME NEW h \in Request, Register(h) PROVE dag' \in [Request -> Dag]
    BY <2>1, BuildsDag, Types DEF Register
  <2>2. QED
    BY <2>1, DagSteps, Types, CancelTurns, SubmitTurns, SubmitFaultTurns, NodeFailsTurns,
       NodeCompletesTurns, RestartTurns DEF Turned
<1>2. monitor' \in [Request -> Monitor]
  <2>1. CASE Restart
    BY <2>1 DEF Restart, NoMonitor, Monitor
  <2>2. QED
    BY <2>1, MonitorSteps, Types, MonitorMoves, StopMoves DEF Stop
<1>3. QED
  BY <1>1, <1>2

\* A DAG is built once, and what it has done is not undone.
LEMMA DagMoves ==
  ASSUME TypeInv, [Next]_vars, NEW h \in Request
  PROVE  \/ Register(h) /\ registered = NoOne /\ dag'[h] = BuiltBy(h)
         \/ /\ dag'[h].rev = dag[h].rev /\ dag[h].done \subseteq dag'[h].done
            /\ dag[h].failed => dag'[h].failed
            /\ dag[h].rev = 0 => dag'[h].phase = "none" /\ dag'[h].done = {}
<1> DEFINE G == /\ dag'[h].rev = dag[h].rev /\ dag[h].done \subseteq dag'[h].done
                /\ dag[h].failed => dag'[h].failed
                /\ dag[h].rev = 0 => dag'[h].phase = "none" /\ dag'[h].done = {}
<1>1. dag[h] \in Dag /\ \A g \in Request : DagOK(g)
  BY Types DEF TypeInv, FramesOK
<1>2. CASE UNCHANGED dag
  BY <1>1, <1>2 DEF DagOK
<1>3. ASSUME NEW g \in Request, Register(g)
      PROVE  G \/ (Register(h) /\ registered = NoOne /\ dag'[h] = BuiltBy(h))
  <2>1. CASE dag' = dag
    <3>1. G
      BY <1>1, <2>1 DEF DagOK
    <3>2. QED
      BY <3>1
  <2>2. CASE registered = NoOne /\ dag' = Built(g)
    <3>1. dag' = [dag EXCEPT ![g] = BuiltBy(g)] /\ dag \in [Request -> Dag]
      BY <1>3, <2>2, BuildsDag, Types DEF Register
    <3>2. CASE g = h
      BY <1>3, <2>2, <3>1, <3>2
    <3>3. CASE g # h
      <4>1. dag'[h] = dag[h]
        BY <3>1, <3>3
      <4>2. G
        BY <1>1, <4>1 DEF DagOK
      <4>3. QED
        BY <4>2
    <3>4. QED
      BY <3>2, <3>3
  <2>3. QED
    BY <1>3, <2>1, <2>2 DEF Register
<1>4. ASSUME NEW g \in Request, CancelDag(g) PROVE G
  BY <1>1, <1>4, CancelTurns DEF DagOK, Dag
<1>5. ASSUME NEW g \in Request, SubmitGraph(g) PROVE G
  BY <1>1, <1>5, SubmitTurns DEF DagOK, SubmitGraph, At
<1>6. ASSUME NEW g \in Request, SubmitFault(g) PROVE G
  BY <1>1, <1>6, SubmitFaultTurns DEF Turned, DagOK, SubmitFault, At
<1>7. ASSUME NEW g \in Request, NodeFails(g) PROVE G
  BY <1>1, <1>7, NodeFailsTurns DEF Turned, DagOK
<1>8. ASSUME NEW g \in Request, NEW n \in Node, NodeCompletes(g, n) PROVE G
  BY <1>1, <1>8, NodeCompletesTurns DEF Turned, DagOK, NodeCompletes, Runs
<1>9. CASE Restart
  BY <1>1, <1>9, RestartTurns DEF DagOK
<1>10. QED
  BY <1>2, <1>3, <1>4, <1>5, <1>6, <1>7, <1>8, <1>9, DagSteps

Held == {"listen", "submit", "withdraw", "watch"}

LEMMA HandlerMoves ==
  ASSUME TypeInv, [Next]_vars, NEW h \in Request
  PROVE  \/ handler'[h] = handler[h]
         \/ Register(h)
         \/ /\ handler'[h].pc \in Early => handler[h].pc \in Early
            /\ handler'[h].pc \in Held => handler[h].pc \in Held
<1> DEFINE Q(g) == /\ handler'[g].pc \in Early => handler[g].pc \in Early
                   /\ handler'[g].pc \in Held => handler[g].pc \in Held
<1>0. HandlerOK(handler[h]) /\ active \in 0..MaxRevisions /\ MaxRevisions \in Nat
  BY CollaborationAssumption, Parts DEF CollaborationAssumption, TypeInv, FramesOK, SessionOK
<1>1. ASSUME NEW g \in Request, NEW pc \in Pc, Goto(g, pc)
      PROVE  handler'[h] = handler[h] \/ (g = h /\ handler'[h].pc = pc)
  BY <1>1, GotoMoves DEF Moved
<1>2. ASSUME NEW g \in Request, Enter(g) \/ Stop(g) \/ CancelDag(g) \/ Clear(g)
      PROVE  handler'[h] = handler[h] \/ Q(h)
  BY <1>1, <1>2 DEF Enter, Stop, CancelDag, Clear, At, Pc, Early, Held
<1>3. ASSUME NEW g \in Request, Listen(g) \/ SubmitGraph(g) \/ SubmitFault(g) \/ Withdraw(g)
                               \/ Fail(g) \/ Watch(g) \/ CancelSession(g)
      PROVE  handler'[h] = handler[h] \/ Q(h)
  BY <1>1, <1>3 DEF Listen, SubmitGraph, SubmitFault, Withdraw, Fail, Watch, CancelSession, At, Pc, Early, Held
<1>4. ASSUME NEW g \in Request, Register(g) PROVE handler'[h] = handler[h] \/ Register(h)
  BY <1>1, <1>4 DEF Register, Pc
<1>5. ASSUME NEW g \in Request, Look(g) PROVE handler'[h] = handler[h] \/ Q(h)
  <2>1. /\ handler[g].pc = "look" /\ handler'[g].pc \in {"register", "stop", "cancel"}
        /\ g # h => handler'[h] = handler[h]
    BY <1>5, LookMoves DEF Look, Begun, At
  <2>2. QED
    BY <2>1 DEF Early, Held
<1>6. ASSUME NEW g \in Request,
             \/ Activate(g) \/ Replace(g) \/ Interact(g) \/ Cancel(g) \/ \E f \in Request : Recover(g, f)
      PROVE  handler'[h] = handler[h] \/ Q(h)
  <2>1. PICK f : handler' = [handler EXCEPT ![g] = f] /\ f.pc \in {"enter", "look", "register"} /\ At(g, "none")
    BY <1>6 DEF Activate, Replace, Interact, Cancel, Recover, Begin
  <2>2. QED
    BY <2>1, Types DEF At, Early, Held
<1>7. CASE Restart
  BY <1>7, RestartTurns DEF Early, Held
<1>8. QED
  BY <1>2, <1>3, <1>4, <1>5, <1>6, <1>7, HandlerSteps

LEMMA MonitorsFollow ==
  ASSUME TypeInv, [Next]_vars, NEW h \in Request, monitor'[h].pc # "none"
  PROVE  monitor[h].pc # "none" \/ Watch(h)
BY MonitorSteps, MonitorMoves, StopMoves DEF Stop, Restart, NoMonitor

LEMMA TypeNext == ASSUME TypeInv, [Next]_vars PROVE TypeInv'
<1>1. ASSUME NEW h \in Request PROVE DagOK(h)'
  <2>1. DagOK(h) /\ HandlerOK(handler[h]) /\ handler \in [Request -> Handler]
    BY Types DEF TypeInv, FramesOK
  <2>2. CASE Register(h)
    <3>1. handler[h].rev \in Revision /\ monitor' = monitor /\ dag[h].rev = 0
      BY <2>1, <2>2, BuildsDag DEF Register, taskVars, DagOK, At, Early
    <3>2. CASE registered = NoOne
      <4>1. dag'[h] = BuiltBy(h)
        BY <2>2, <3>2, BuildsDag, Types DEF Register
      <4>2. handler'[h].pc = "listen" /\ dag'[h].rev # 0
        BY <2>2, <3>1, <3>2, <4>1, GotoMoves, BuildsDag DEF Register, Moved, Pc, Revision
      <4>3. QED
        BY <4>2 DEF DagOK, Early
    <3>3. CASE registered # NoOne
      <4>1. handler'[h].pc \in {"fail", "done"} /\ dag' = dag
        BY <2>2, <3>3, GotoMoves DEF Register, Moved, Pc
      <4>2. QED
        BY <2>1, <3>1, <4>1 DEF DagOK, Early
    <3>4. QED
      BY <3>2, <3>3
  <2>3. CASE ~Register(h)
    <3>1. /\ dag'[h].rev = dag[h].rev
          /\ dag[h].rev = 0 => dag'[h].phase = "none" /\ dag'[h].done = {}
      BY <2>3, DagMoves
    <3>2. /\ handler'[h].pc \in Early => handler[h].pc \in Early
          /\ handler'[h].pc \in Held => handler[h].pc \in Held
      BY <2>3, HandlerMoves
    <3>3. monitor'[h].pc # "none" => dag[h].rev # 0
      BY <2>1, MonitorsFollow DEF DagOK, Watch, At
    <3>4. QED
      BY <2>1, <3>1, <3>2, <3>3 DEF DagOK, Held
  <2>4. QED
    BY <2>2, <2>3
<1>2. SessionOK' /\ TasksOK' /\ dag' \in [Request -> Dag] /\ monitor' \in [Request -> Monitor]
  BY SessionNext, TasksNext, DagsNext
<1>3. handler' \in [Request -> Handler] /\ \A h \in Request : HandlerOK(handler'[h])
  BY HandlersNext
<1>4. TypeOK'
  BY <1>2, <1>3 DEF TypeOK, SessionOK, TasksOK, Handler, Dag, Monitor
<1>5. QED
  BY <1>1, <1>3, <1>4 DEF TypeInv, FramesOK

LEMMA TypeInvariant == Spec => []TypeInv
BY InitTypes, TypeNext, PTL DEF Spec

\* Every variable of a session has its type.
THEOREM TypeCorrect == Spec => []TypeOK
<1>1. TypeInv => TypeOK
  BY DEF TypeInv
<1>2. QED
  BY <1>1, TypeInvariant, PTL

-----------------------------------------------------------------------------
(***************************************************************************)
(* What a revision takes over.  An event says that a node was completed    *)
(* only of a DAG that has completed it, and a DAG is of no later revision  *)
(* than the active one; no revision to come takes over anything.           *)
(***************************************************************************)
RecordInv ==
  /\ \A r \in Revision : \A n \in Node : <<r, n>> \in recorded =>
        \E h \in Request : dag[h].rev = r /\ n \in dag[h].done
  /\ \A h \in Request : dag[h].rev <= active /\ handler[h].rev <= active
  /\ \A r \in Revision : r > active => preserved[r] = {}

HistoryInv == RecordInv /\ PreservedWasDone

\* A DAG that has done something keeps its revision.
LEMMA DoneStays ==
  ASSUME TypeInv, [Next]_vars, NEW h \in Request, dag[h].rev # 0
  PROVE  dag'[h].rev = dag[h].rev /\ dag[h].done \subseteq dag'[h].done
<1>1. ~Register(h)
  BY DEF TypeInv, FramesOK, DagOK, Register, At, Early
<1>2. QED
  BY <1>1, DagMoves

\* The active revision goes up only by a new revision.
LEMMA ActiveMoves ==
  ASSUME TypeInv, [Next]_vars
  PROVE  (active' = active /\ preserved' = preserved) \/ Revise
BY SessionSteps
   DEF sessionVars, Transition, CreatePlanRevision, CreateApproval, DecideApproval, Interact, Enter, Fail,
       CancelSession, Snapshot, MonitorEnds

LEMMA RevisionsFollow ==
  ASSUME TypeInv, RecordInv, [Next]_vars, NEW h \in Request
  PROVE  dag'[h].rev <= active' /\ handler'[h].rev <= active'
<1>1. /\ active \in 0..MaxRevisions /\ active' \in 0..MaxRevisions /\ active <= active'
      /\ MaxRevisions \in Nat
  BY ActiveMoves, CollaborationAssumption, Parts, SessionNext
     DEF CollaborationAssumption, TypeInv, SessionOK, Revise
<1>2. /\ dag[h].rev <= active /\ handler[h].rev <= active
      /\ dag[h].rev \in Nat /\ handler[h].rev \in Nat
  BY Types DEF RecordInv, Dag, Handler
<1>3. dag'[h].rev = dag[h].rev \/ dag'[h].rev = handler[h].rev
  BY DagMoves, BuildsDag DEF Register
<1>4. handler'[h].rev \in {handler[h].rev, 0, active, active'}
  <2>1. ASSUME NEW g \in Request, NEW pc \in Pc, Goto(g, pc) PROVE handler'[h].rev = handler[h].rev
    BY <2>1, GotoMoves DEF Moved
  <2>2. ASSUME NEW g \in Request,
               \/ Enter(g) \/ Stop(g) \/ CancelDag(g) \/ Clear(g) \/ Listen(g) \/ SubmitGraph(g)
               \/ SubmitFault(g) \/ Withdraw(g) \/ Fail(g) \/ Watch(g) \/ CancelSession(g) \/ Register(g)
        PROVE  handler'[h].rev = handler[h].rev
    BY <2>1, <2>2 DEF Enter, Stop, CancelDag, Clear, Listen, SubmitGraph, SubmitFault, Withdraw, Fail,
                      Watch, CancelSession, Register, Pc
  <2>3. ASSUME NEW g \in Request, Look(g) PROVE handler'[h].rev = handler[h].rev
    BY <2>3, LookMoves DEF Begun
  <2>4. ASSUME NEW g \in Request,
               \/ Activate(g) \/ Replace(g) \/ Interact(g) \/ Cancel(g) \/ \E f \in Request : Recover(g, f)
        PROVE  handler'[h].rev \in {handler[h].rev, 0, active, active'}
    <3>1. \E kind, pc, old : \E rev \in {0, active, active'} : Begin(g, kind, pc, rev, old)
      BY <2>4 DEF Activate, Replace, Interact, Revise, Cancel, Recover
    <3>2. QED
      BY <3>1, Types DEF Begin
  <2>5. QED
    BY <2>2, <2>3, <2>4, HandlerSteps, RestartTurns
<1>5. QED
  BY <1>1, <1>2, <1>3, <1>4

LEMMA HistoryNext == ASSUME TypeInv, HistoryInv, [Next]_vars PROVE HistoryInv'
<1>1. /\ active \in 0..MaxRevisions /\ MaxRevisions \in Nat /\ recorded \subseteq Revision \X Node
      /\ preserved \in [Revision -> SUBSET Node] /\ RecordInv /\ PreservedWasDone
  BY CollaborationAssumption, Parts DEF CollaborationAssumption, TypeInv, SessionOK, HistoryInv
\* What was done stays done.
<1>2. ASSUME NEW r \in Revision, NEW n \in Node, NEW h \in Request, dag[h].rev = r, n \in dag[h].done
      PROVE  dag'[h].rev = r /\ n \in dag'[h].done
  BY <1>2, DoneStays DEF Revision
<1>3. ASSUME NEW r \in Revision, NEW n \in Node, <<r, n>> \in recorded'
      PROVE  \E h \in Request : dag'[h].rev = r /\ n \in dag'[h].done
  <2>1. <<r, n>> \in recorded \/ \E h \in Request : Snapshot(h) /\ dag[h].rev = r /\ n \in dag[h].done
    BY <1>3, SessionSteps
       DEF sessionVars, Transition, CreatePlanRevision, CreateApproval, DecideApproval, Interact, Revise,
           Enter, Fail, CancelSession, Snapshot, MonitorEnds
  <2>2. QED
    BY <1>1, <1>2, <2>1 DEF RecordInv
<1>4. ASSUME NEW r \in Revision, r > active' PROVE preserved'[r] = {}
  BY <1>1, <1>4, ActiveMoves DEF Revise, RecordInv, Revision
<1>5. ASSUME NEW r \in Revision, NEW n \in preserved'[r]
      PROVE  \E h \in Request : dag'[h].rev \in 1..(r - 1) /\ n \in dag'[h].done \ preserved'[dag'[h].rev]
  <2>1. ASSUME NEW h \in Request, NEW q \in Revision, q <= active, dag[h].rev = q, n \in dag[h].done,
               n \notin preserved[q], q < r
        PROVE  \E g \in Request : dag'[g].rev \in 1..(r - 1) /\ n \in dag'[g].done \ preserved'[dag'[g].rev]
    <3>1. preserved'[q] = preserved[q]
      BY <1>1, <2>1, ActiveMoves DEF Revise, Revision
    <3>2. n \in Node
      BY <2>1, Types DEF Dag
    <3>3. dag'[h].rev = q /\ n \in dag'[h].done
      BY <1>2, <2>1, <3>2
    <3>4. q \in 1..(r - 1)
      BY <1>1, <2>1 DEF Revision
    <3>5. QED
      BY <2>1, <3>1, <3>3, <3>4
  <2>2. CASE n \in preserved[r]
    <3>1. PICK h \in Request : dag[h].rev \in 1..(r - 1) /\ n \in dag[h].done \ preserved[dag[h].rev]
      BY <1>1, <2>2 DEF PreservedWasDone
    <3>2. dag[h].rev \in Revision /\ dag[h].rev <= active /\ dag[h].rev < r
      BY <1>1, <3>1 DEF Revision, RecordInv
    <3>3. QED
      BY <2>1, <3>1, <3>2
  <2>3. CASE n \notin preserved[r]
    <3>1. Revise /\ r = active + 1 /\ n \in Completed
      BY <1>1, <1>5, <2>3, ActiveMoves DEF Revise, Revision
    <3>2. n \in Node /\ <<active, n>> \in recorded /\ active \in Revision
      BY <1>1, <3>1 DEF Completed
    <3>3. PICK h \in Request : dag[h].rev = active /\ n \in dag[h].done
      BY <1>1, <3>2 DEF RecordInv
    <3>4. CASE n \in preserved[active]
      <4>1. PICK g \in Request : dag[g].rev \in 1..(active - 1) /\ n \in dag[g].done \ preserved[dag[g].rev]
        BY <1>1, <3>2, <3>4 DEF PreservedWasDone
      <4>2. dag[g].rev \in Revision /\ dag[g].rev <= active /\ dag[g].rev < r
        BY <1>1, <3>1, <4>1 DEF Revision
      <4>3. QED
        BY <2>1, <4>1, <4>2
    <3>5. CASE n \notin preserved[active]
      BY <1>1, <2>1, <3>1, <3>2, <3>3, <3>5
    <3>6. QED
      BY <3>4, <3>5
  <2>4. QED
    BY <2>2, <2>3
<1>6. \A h \in Request : dag'[h].rev <= active' /\ handler'[h].rev <= active'
  BY <1>1, RevisionsFollow
<1>7. QED
  BY <1>3, <1>4, <1>5, <1>6 DEF HistoryInv, RecordInv, PreservedWasDone

\* A node that a new plan revision takes over as completed was executed by the
\* DAG of an earlier revision: create_plan_revision reads the task_completed
\* events of the revision before, which the monitor of a DAG appends.
THEOREM TakenOverWasDone == Spec => []PreservedWasDone
<1>1. Init => HistoryInv
  BY CollaborationAssumption DEF CollaborationAssumption, Init, HistoryInv, RecordInv, PreservedWasDone
<1>2. HistoryInv => PreservedWasDone
  BY DEF HistoryInv
<1>3. QED
  BY <1>1, <1>2, HistoryNext, TypeInvariant, PTL DEF Spec

-----------------------------------------------------------------------------
(***************************************************************************)
(* One DAG at a time, where replacements and cancellations have the        *)
(* session to themselves.  While one of them is busy no other handler is,  *)
(* no DAG comes to its end, and the one that it looked up stays the one in *)
(* the registry until it is cancelled.                                     *)
(***************************************************************************)
Busy(h) == handler[h].pc \notin {"none", "done"}
Silencer(h) == Busy(h) /\ handler[h].kind \in {"replace", "cancel"}

AloneInv ==
  \A h \in Request : Silencer(h) =>
     /\ \A g \in Request : g # h => ~Busy(g)
     /\ \A g \in Request : ~Ending(g)
     /\ At(h, "cancel") \/ (At(h, "stop") /\ handler[h].kind = "replace")
           => registered = handler[h].old

\* Which handler a step is one of.
LEMMA Movers ==
  ASSUME TypeInv, [Next]_vars
  PROVE  \/ UNCHANGED handler
         \/ Restart
         \/ \E g \in Request :
              /\ \E kind, pc, rev, old : Begin(g, kind, pc, rev, old)
              /\ Activate(g) \/ Replace(g) \/ Interact(g) \/ Cancel(g) \/ \E f \in Request : Recover(g, f)
              /\ \A h \in Request : h # g => handler'[h] = handler[h]
         \/ \E g \in Request :
              /\ Busy(g) /\ handler'[g].kind = handler[g].kind
              /\ \A h \in Request : h # g => handler'[h] = handler[h]
<1>1. ASSUME NEW g \in Request, NEW pc \in Pc, Goto(g, pc)
      PROVE  /\ handler'[g].kind = handler[g].kind
             /\ \A h \in Request : h # g => handler'[h] = handler[h]
  BY <1>1, GotoMoves DEF Moved
<1>2. ASSUME NEW g \in Request,
             \/ Enter(g) \/ Stop(g) \/ CancelDag(g) \/ Clear(g) \/ Listen(g) \/ SubmitGraph(g)
             \/ SubmitFault(g) \/ Withdraw(g) \/ Fail(g) \/ Watch(g) \/ CancelSession(g) \/ Register(g)
      PROVE  /\ Busy(g) /\ handler'[g].kind = handler[g].kind
             /\ \A h \in Request : h # g => handler'[h] = handler[h]
  <2>1. Busy(g)
    BY <1>2 DEF Enter, Stop, CancelDag, Clear, Listen, SubmitGraph, SubmitFault, Withdraw, Fail, Watch,
                CancelSession, Register, At, Busy
  <2>2. \E pc \in Pc : Goto(g, pc)
    BY <1>2 DEF Enter, Stop, CancelDag, Clear, Listen, SubmitGraph, SubmitFault, Withdraw, Fail, Watch,
                CancelSession, Register, Pc
  <2>3. QED
    BY <1>1, <2>1, <2>2
<1>3. ASSUME NEW g \in Request, Look(g)
      PROVE  /\ Busy(g) /\ handler'[g].kind = handler[g].kind
             /\ \A h \in Request : h # g => handler'[h] = handler[h]
  BY <1>3, LookMoves DEF Begun, Look, At, Busy
<1>4. ASSUME NEW g \in Request,
             Activate(g) \/ Replace(g) \/ Interact(g) \/ Cancel(g) \/ \E f \in Request : Recover(g, f)
      PROVE  /\ \E kind, pc, rev, old : Begin(g, kind, pc, rev, old)
             /\ \A h \in Request : h # g => handler'[h] = handler[h]
  <2>1. \E kind, pc, rev, old : Begin(g, kind, pc, rev, old)
    BY <1>4 DEF Activate, Replace, Interact, Cancel, Recover
  <2>2. QED
    BY <2>1, Types DEF Begin
<1>5. QED
  BY <1>2, <1>3, <1>4, HandlerSteps

\* Where its own steps take a handler.
LEMMA Goes ==
  ASSUME TypeInv, NEW h \in Request
  PROVE  /\ Enter(h) => Moved(h, "register") \/ Moved(h, "done")
         /\ Stop(h) => Moved(h, IF handler[h].kind = "replace" THEN "cancel" ELSE "end")
         /\ CancelDag(h) => Moved(h, "clear") \/ Moved(h, "done")
         /\ Clear(h) => Moved(h, IF handler[h].kind = "replace" THEN "register" ELSE "stop")
         /\ Register(h) => IF registered = NoOne THEN Moved(h, "listen")
                                                 ELSE Moved(h, "fail") \/ Moved(h, "done")
         /\ Listen(h) => Moved(h, "submit")
         /\ SubmitGraph(h) => Moved(h, "watch")
         /\ SubmitFault(h) => Moved(h, "withdraw")
         /\ Withdraw(h) => Moved(h, "fail")
         /\ Fail(h) \/ Watch(h) \/ CancelSession(h) => Moved(h, "done")
<1>1. \A pc \in Pc : Goto(h, pc) => Moved(h, pc)
  BY GotoMoves
<1>2. Stop(h) => Moved(h, IF handler[h].kind = "replace" THEN "cancel" ELSE "end")
  BY <1>1 DEF Stop, Pc
<1>3. Clear(h) => Moved(h, IF handler[h].kind = "replace" THEN "register" ELSE "stop")
  BY <1>1 DEF Clear, Pc
<1>4. Register(h) => IF registered = NoOne THEN Moved(h, "listen") ELSE Moved(h, "fail") \/ Moved(h, "done")
  BY <1>1 DEF Register, Pc
<1>5. CancelDag(h) => Moved(h, "clear") \/ Moved(h, "done")
  BY <1>1 DEF CancelDag, Pc
<1>6. QED
  BY <1>1, <1>2, <1>3, <1>4, <1>5
     DEF Enter, Listen, SubmitGraph, SubmitFault, Withdraw, Fail, Watch, CancelSession, Pc

\* A handler goes on by its own steps.
LEMMA OwnSteps ==
  ASSUME TypeInv, [Next]_vars, NEW h \in Request
  PROVE  \/ handler'[h] = handler[h]
         \/ Restart
         \/ /\ At(h, "none")
            /\ Activate(h) \/ Replace(h) \/ Interact(h) \/ Cancel(h) \/ \E g \in Request : Recover(h, g)
         \/ Enter(h) \/ Look(h) \/ Stop(h) \/ CancelDag(h) \/ Clear(h) \/ Register(h) \/ Listen(h)
         \/ SubmitGraph(h) \/ SubmitFault(h) \/ Withdraw(h) \/ Fail(h) \/ Watch(h) \/ CancelSession(h)
<1>1. ASSUME NEW g \in Request, g # h,
             \/ Activate(g) \/ Replace(g) \/ Interact(g) \/ Cancel(g) \/ \E f \in Request : Recover(g, f)
      PROVE  handler'[h] = handler[h]
  <2>1. \E kind, pc, rev, old : Begin(g, kind, pc, rev, old)
    BY <1>1 DEF Activate, Replace, Interact, Cancel, Recover
  <2>2. QED
    BY <1>1, <2>1, Types DEF Begin
<1>2. ASSUME NEW g \in Request, g # h,
             \/ Enter(g) \/ Look(g) \/ Stop(g) \/ CancelDag(g) \/ Clear(g) \/ Register(g) \/ Listen(g)
             \/ SubmitGraph(g) \/ SubmitFault(g) \/ Withdraw(g) \/ Fail(g) \/ Watch(g) \/ CancelSession(g)
      PROVE  handler'[h] = handler[h]
  <2>1. CASE Look(g)
    BY <1>2, <2>1, LookMoves DEF Begun
  <2>2. CASE ~Look(g)
    <3>1. \E pc \in Pc : Moved(g, pc)
      BY <1>2, <2>2, Goes DEF Pc
    <3>2. QED
      BY <1>2, <3>1 DEF Moved
  <2>3. QED
    BY <2>1, <2>2
<1>3. Activate(h) \/ Replace(h) \/ Interact(h) \/ Cancel(h) \/ (\E g \in Request : Recover(h, g))
        => At(h, "none")
  BY DEF Activate, Replace, Interact, Cancel, Recover, Begin
<1>4. QED
  BY <1>1, <1>2, <1>3, HandlerSteps

\* A DAG comes to its end by its nodes, and they do not end it while a handler
\* silences the session.
LEMMA Ends ==
  ASSUME ~Overlap, TypeInv, [Next]_vars, NEW g \in Request, ending'[g] \in {"listener", "task"}, ~Ending(g)
  PROVE  ~Silencing /\ (NodeFails(g) \/ \E n \in Node : NodeCompletes(g, n) /\ dag[g].done \cup {n} = Node)
<1>1. ending \in [Request -> {"open", "listener", "task", "closed"}]
  BY Parts DEF TypeInv, TasksOK
<1>2. ASSUME NEW h \in Request, CancelDag(h) PROVE FALSE
  <2>1. ending' = ending \/ ending' = [ending EXCEPT ![handler[h].old] = "closed"]
    BY <1>2 DEF CancelDag
  <2>2. QED
    BY <1>1, <2>1 DEF Ending
<1>3. ASSUME NEW h \in Request, Stop(h) \/ Withdraw(h) \/ MonitorLeaves(h) PROVE FALSE
  BY <1>3, ListenerStops DEF Stop, Withdraw, MonitorLeaves, Ending
<1>4. ASSUME NEW h \in Request, Finalize(h) PROVE FALSE
  BY <1>1, <1>4 DEF Finalize, Ending
<1>5. ASSUME NEW h \in Request, NodeFails(h)
      PROVE  ~Silencing /\ NodeFails(g)
  BY <1>1, <1>5 DEF NodeFails, MayEnd, Ending
<1>6. ASSUME NEW h \in Request, NEW n \in Node, NodeCompletes(h, n)
      PROVE  ~Silencing /\ NodeCompletes(g, n) /\ dag[g].done \cup {n} = Node
  BY <1>1, <1>6 DEF NodeCompletes, MayEnd, Ending
<1>7. CASE Restart
  BY <1>7 DEF Restart
<1>8. ASSUME NEW h \in Request,
             \/ Activate(h) \/ Replace(h) \/ Interact(h) \/ Cancel(h)
             \/ \E f \in Request : Recover(h, f)
             \/ Enter(h) \/ Look(h) \/ Clear(h) \/ Register(h) \/ Listen(h) \/ SubmitGraph(h)
             \/ SubmitFault(h) \/ Fail(h) \/ Watch(h) \/ CancelSession(h)
             \/ Snapshot(h) \/ CheckEnd(h) \/ MonitorEnds(h)
      PROVE  FALSE
  <2>1. UNCHANGED ending
    BY <1>8 DEF Activate, Replace, Interact, Cancel, Recover, Enter, Look, Clear, Register, Listen,
                SubmitGraph, SubmitFault, Fail, Watch, CancelSession, Snapshot, CheckEnd, MonitorEnds, taskVars
  <2>2. QED
    BY <2>1 DEF Ending
<1>9. CASE \/ (\E s \in UserStates : Transition(s)) \/ CreatePlanRevision
           \/ \E a \in 1..MaxApprovals : CreateApproval(a) \/ DecideApproval(a)
           \/ UNCHANGED vars
  <2>1. UNCHANGED ending
    BY <1>9 DEF Transition, CreatePlanRevision, CreateApproval, DecideApproval, vars, taskVars
  <2>2. QED
    BY <2>1 DEF Ending
<1>10. QED
  BY <1>2, <1>3, <1>4, <1>5, <1>6, <1>7, <1>8, <1>9, Steps

\* The registry changes in the hands of those who write it.
LEMMA RegistrySteps ==
  ASSUME [Next]_vars
  PROVE  \/ UNCHANGED registered
         \/ \E h \in Request : CancelDag(h) \/ Clear(h) \/ Register(h) \/ Withdraw(h) \/ Finalize(h)
         \/ Restart
<1>1. ASSUME NEW h \in Request,
             \/ Activate(h) \/ Replace(h) \/ Interact(h) \/ Cancel(h)
             \/ \E f \in Request : Recover(h, f)
             \/ Enter(h) \/ Look(h) \/ Stop(h) \/ Listen(h) \/ SubmitGraph(h) \/ SubmitFault(h)
             \/ Fail(h) \/ Watch(h) \/ CancelSession(h)
             \/ Snapshot(h) \/ CheckEnd(h) \/ MonitorEnds(h) \/ MonitorLeaves(h)
             \/ NodeFails(h) \/ \E n \in Node : NodeCompletes(h, n)
      PROVE  UNCHANGED registered
  BY <1>1 DEF Activate, Replace, Interact, Cancel, Recover, Enter, Look, Stop, Listen, SubmitGraph,
              SubmitFault, Fail, Watch, CancelSession, Snapshot, CheckEnd, MonitorEnds, MonitorLeaves,
              NodeFails, NodeCompletes
<1>2. CASE \/ (\E s \in UserStates : Transition(s)) \/ CreatePlanRevision
           \/ \E a \in 1..MaxApprovals : CreateApproval(a) \/ DecideApproval(a)
           \/ UNCHANGED vars
  BY <1>2 DEF Transition, CreatePlanRevision, CreateApproval, DecideApproval, vars
<1>3. QED
  BY <1>1, <1>2, Steps

LEMMA AloneNext ==
  ASSUME ~Overlap, TypeInv, AloneInv, [Next]_vars
  PROVE  AloneInv'
<1> SUFFICES ASSUME NEW h \in Request, Silencer(h)'
             PROVE  /\ \A g \in Request : g # h => ~Busy(g)'
                    /\ \A g \in Request : ~Ending(g)'
                    /\ At(h, "cancel")' \/ (At(h, "stop")' /\ handler'[h].kind = "replace")
                          => registered' = handler'[h].old
  BY DEF AloneInv
<1>0. ~Restart
  BY RestartTurns DEF Silencer, Busy, At
<1>1. CASE Silencer(h)
  <2>0. Silencing
    BY <1>1 DEF Silencing, Silencer, Busy
  <2>1. /\ \A g \in Request : g # h => ~Busy(g)
        /\ \A g \in Request : ~Ending(g)
        /\ At(h, "cancel") \/ (At(h, "stop") /\ handler[h].kind = "replace") => registered = handler[h].old
    BY <1>1 DEF AloneInv
  <2>2. \A g \in Request : g # h => handler'[g] = handler[g]
    <3>1. ASSUME NEW g \in Request, NEW kind, NEW pc, NEW rev, NEW old, Begin(g, kind, pc, rev, old)
          PROVE  FALSE
      BY <1>1, <2>0, <3>1 DEF Begin, MayBegin, AtRest, Silencer, Busy
    <3>2. QED
      BY <1>0, <2>1, <3>1, Movers
  <2>3. \A g \in Request : g # h => ~Busy(g)'
    BY <2>1, <2>2 DEF Busy
  <2>4. \A g \in Request : ~Ending(g)'
    BY <2>0, <2>1, Ends DEF Ending
  <2>5. ASSUME At(h, "cancel")' \/ (At(h, "stop")' /\ handler'[h].kind = "replace")
        PROVE  registered' = handler'[h].old
    <3>1. CancelDag(h) \/ Clear(h) \/ Register(h) \/ Withdraw(h) => FALSE
      BY <2>5, Goes DEF Moved, At
    <3>2. registered' = registered
      <4>1. ASSUME NEW g \in Request, CancelDag(g) \/ Clear(g) \/ Register(g) \/ Withdraw(g) PROVE g = h
        BY <2>1, <4>1 DEF CancelDag, Clear, Register, Withdraw, At, Busy
      <4>2. QED
        BY <1>0, <2>1, <3>1, <4>1, RegistrySteps DEF Finalize
    <3>3. CASE handler'[h] = handler[h]
      BY <2>1, <2>5, <3>2, <3>3 DEF At
    <3>4. CASE Look(h)
      BY <3>2, <3>4, LookMoves DEF Begun
    <3>5. CASE Stop(h)
      <4>1. At(h, "stop") /\ handler'[h].old = handler[h].old /\ handler[h].kind = "replace"
        BY <2>5, <3>5, Goes DEF Stop, Moved, At
      <4>2. QED
        BY <2>1, <3>2, <4>1
    <3>6. CASE \/ Enter(h) \/ Listen(h) \/ SubmitGraph(h) \/ SubmitFault(h) \/ Fail(h) \/ Watch(h)
               \/ CancelSession(h)
      BY <2>5, <3>6, Goes DEF Moved, At
    <3>7. ~At(h, "none")
      BY <1>1 DEF Silencer, Busy, At
    <3>8. QED
      BY <1>0, <3>1, <3>3, <3>4, <3>5, <3>6, <3>7, OwnSteps
  <2>6. QED
    BY <2>3, <2>4, <2>5
<1>2. CASE ~Silencer(h)
  <2>1. At(h, "none") /\ (Replace(h) \/ Interact(h) \/ Cancel(h))
    <3>1. handler'[h] # handler[h]
      BY <1>2 DEF Silencer, Busy
    <3>2. ASSUME \/ Enter(h) \/ Look(h) \/ Stop(h) \/ CancelDag(h) \/ Clear(h) \/ Register(h) \/ Listen(h)
                 \/ SubmitGraph(h) \/ SubmitFault(h) \/ Withdraw(h) \/ Fail(h) \/ Watch(h)
                 \/ CancelSession(h)
          PROVE  FALSE
      <4>1. Busy(h)
        BY <3>2 DEF Enter, Look, Stop, CancelDag, Clear, Register, Listen, SubmitGraph, SubmitFault,
                    Withdraw, Fail, Watch, CancelSession, At, Busy
      <4>2. handler'[h].kind = handler[h].kind
        BY <3>2, LookMoves, Goes DEF Begun, Moved
      <4>3. QED
        BY <1>2, <4>1, <4>2 DEF Silencer
    <3>3. ASSUME Activate(h) \/ \E g \in Request : Recover(h, g) PROVE FALSE
      BY <3>3, Types DEF Activate, Recover, Begin, Silencer
    <3>4. QED
      BY <1>0, <3>1, <3>2, <3>3, OwnSteps
  <2>2. \E kind \in {"replace", "activate", "cancel"} : \E pc \in {"look", "enter"} :
        \E rev \in {0, active, active + 1} :
           /\ Begin(h, kind, pc, rev, NoOne) /\ UNCHANGED ending /\ (kind # "activate" => pc = "look")
    BY <2>1 DEF Replace, Interact, Cancel, taskVars
  <2>3. PICK kind \in {"replace", "cancel"}, rev \in {0, active, active + 1} :
           Begin(h, kind, "look", rev, NoOne) /\ UNCHANGED ending
    <3>1. PICK kind \in {"replace", "activate", "cancel"}, pc \in {"look", "enter"},
               rev \in {0, active, active + 1} :
             /\ Begin(h, kind, pc, rev, NoOne) /\ UNCHANGED ending /\ (kind # "activate" => pc = "look")
      BY <2>2
    <3>2. handler'[h].kind = kind
      BY <3>1, Types DEF Begin
    <3>3. kind \in {"replace", "cancel"}
      BY <3>2 DEF Silencer
    <3>4. QED
      BY <3>1, <3>3
  <2>4. AtRest /\ \A g \in Request : ~Ending(g)
    BY <2>3 DEF Begin, MayBegin
  <2>5. handler'[h].pc = "look" /\ \A g \in Request : g # h => handler'[g] = handler[g]
    BY <2>3, Types DEF Begin
  <2>6. QED
    BY <2>3, <2>4, <2>5 DEF AtRest, Busy, Ending, At
<1>3. QED
  BY <1>1, <1>2

-----------------------------------------------------------------------------
(***************************************************************************)
(* A DAG that was built waits for its handler to submit it; one whose      *)
(* submission fails is a stray one, and stays so until the process         *)
(* restarts.                                                               *)
(***************************************************************************)
BuiltInv ==
  \A h \in Request :
    /\ dag[h].phase = "built" => handler[h].pc \in {"listen", "submit"}
    /\ At(h, "withdraw") => Stray(h)
    /\ Stray(h) => handler[h].pc \in {"withdraw", "fail", "done"}

\* What a step may do to the phase of a DAG.
LEMMA Phases ==
  ASSUME TypeInv, [Next]_vars, NEW h \in Request
  PROVE  \/ dag'[h].phase = dag[h].phase
         \/ Register(h) /\ registered = NoOne /\ registered' = h /\ dag'[h].phase = "built"
         \/ SubmitGraph(h) /\ dag'[h].phase = "running"
         \/ SubmitFault(h) /\ dag'[h].phase = "stray"
         \/ /\ dag'[h].phase = "none" /\ ~Live(h) /\ ~Stray(h)
            /\ \E g \in Request : g # h /\ SubmitGraph(g)
         \/ Restart /\ dag'[h].phase \in {"none", "lost"}
<1>1. CASE \E g \in Request : CancelDag(g)
  BY <1>1, CancelTurns
<1>2. CASE \E g \in Request : Register(g)
  <2>1. PICK g \in Request : Register(g)
    BY <1>2
  <2>2. CASE registered # NoOne
    BY <2>1, <2>2 DEF Register
  <2>3. CASE registered = NoOne
    BY <2>1, <2>3, BuildsDag, Types DEF Register
  <2>4. QED
    BY <2>2, <2>3
<1>3. CASE \E g \in Request : SubmitGraph(g)
  BY <1>3, SubmitTurns
<1>4. CASE \E g \in Request : SubmitFault(g)
  BY <1>4, SubmitFaultTurns DEF Turned
<1>5. CASE \E g \in Request : NodeFails(g) \/ \E n \in Node : NodeCompletes(g, n)
  BY <1>5, NodeFailsTurns, NodeCompletesTurns DEF Turned
<1>6. CASE Restart
  BY <1>6, RestartTurns
<1>7. QED
  BY <1>1, <1>2, <1>3, <1>4, <1>5, <1>6, DagSteps

LEMMA BuiltNext == ASSUME TypeInv, BuiltInv, [Next]_vars PROVE BuiltInv'
<1> SUFFICES ASSUME NEW h \in Request
             PROVE  /\ dag'[h].phase = "built" => handler'[h].pc \in {"listen", "submit"}
                    /\ handler'[h].pc = "withdraw" => dag'[h].phase = "stray"
                    /\ dag'[h].phase = "stray" => handler'[h].pc \in {"withdraw", "fail", "done"}
  BY DEF BuiltInv, At, Stray
<1>0. /\ dag[h].phase = "built" => handler[h].pc \in {"listen", "submit"}
      /\ handler[h].pc = "withdraw" => dag[h].phase = "stray"
      /\ dag[h].phase = "stray" => handler[h].pc \in {"withdraw", "fail", "done"}
  BY DEF BuiltInv, At, Stray
<1>1. CASE Restart
  BY <1>1, RestartTurns DEF At
<1>2. CASE Register(h)
  <2>1. handler[h].pc = "register" /\ dag[h].phase = "none"
    BY <1>2 DEF Register, At, TypeInv, FramesOK, DagOK, Early
  <2>2. CASE registered = NoOne
    BY <1>2, <2>2, Goes, BuildsDag, Types DEF Register, Moved
  <2>3. CASE registered # NoOne
    BY <1>2, <2>1, <2>3, Goes DEF Register, Moved
  <2>4. QED
    BY <2>2, <2>3
<1>3. CASE SubmitGraph(h)
  BY <1>3, Goes, SubmitTurns DEF Moved
<1>4. CASE SubmitFault(h)
  BY <1>4, Goes, SubmitFaultTurns DEF Moved, Turned
<1>5. CASE ~Restart /\ ~Register(h) /\ ~SubmitGraph(h) /\ ~SubmitFault(h)
  <2>1. dag'[h].phase = dag[h].phase \/ (dag'[h].phase = "none" /\ ~Stray(h))
    BY <1>5, Phases
  <2>2. handler[h].pc = "withdraw" /\ handler'[h].pc = "withdraw" => dag'[h].phase = "stray"
    BY <1>0, <2>1 DEF Stray
  <2>3. CASE handler'[h] = handler[h]
    BY <1>0, <2>1, <2>2, <2>3
  <2>4. CASE \/ At(h, "none") /\ (Activate(h) \/ Replace(h) \/ Interact(h) \/ Cancel(h)
                                  \/ \E g \in Request : Recover(h, g))
    <3>1. handler'[h].pc \in {"enter", "look", "register"} /\ handler[h].pc = "none"
      BY <2>4, Types DEF Activate, Replace, Interact, Cancel, Recover, Begin, At
    <3>2. QED
      BY <1>0, <2>1, <3>1
  <2>5. CASE Look(h)
    <3>1. handler'[h].pc \in {"register", "stop", "cancel"} /\ handler[h].pc = "look"
      BY <2>5, LookMoves DEF Begun, Look, At
    <3>2. QED
      BY <1>0, <2>1, <3>1
  <2>6. CASE \/ Enter(h) \/ Stop(h) \/ CancelDag(h) \/ Clear(h) \/ Watch(h) \/ CancelSession(h)
    <3>1. /\ handler[h].pc \notin {"listen", "submit", "withdraw", "fail", "done"}
          /\ handler'[h].pc # "withdraw"
      BY <2>6, Goes DEF Moved, Enter, Stop, CancelDag, Clear, Watch, CancelSession, At
    <3>2. QED
      BY <1>0, <2>1, <3>1
  <2>7. CASE Listen(h)
    BY <1>0, <2>1, <2>7, Goes DEF Moved, Listen, At
  <2>8. CASE Withdraw(h) \/ Fail(h)
    BY <1>0, <2>1, <2>8, Goes DEF Moved, Withdraw, Fail, At
  <2>9. QED
    BY <1>5, <2>3, <2>4, <2>5, <2>6, <2>7, <2>8, OwnSteps
<1>6. QED
  BY <1>1, <1>2, <1>3, <1>4, <1>5

\* What is complete stays so, and nothing runs that did not, but by a submission.
LEMMA EndsStay ==
  ASSUME TypeInv, [Next]_vars, NEW h \in Request
  PROVE  /\ dag[h].rev # 0 => dag'[h].rev = dag[h].rev
         /\ dag[h].rev # 0 /\ IsComplete(h) => IsComplete(h)'
         /\ Live(h)' => Live(h) \/ (SubmitGraph(h) /\ At(h, "submit"))
<1>1. dag[h] \in Dag /\ dag'[h] \in Dag
  BY Types, DagsNext
<1>2. Register(h) => dag[h].rev = 0
  BY DEF TypeInv, FramesOK, DagOK, Register, At, Early
<1>3. ASSUME dag[h].rev # 0
      PROVE  dag'[h].rev = dag[h].rev /\ (IsComplete(h) => IsComplete(h)')
  BY <1>1, <1>2, <1>3, DagMoves DEF IsComplete, Dag
<1>4. ASSUME Live(h)' PROVE Live(h) \/ (SubmitGraph(h) /\ At(h, "submit"))
  <2>1. dag'[h].phase = "running" /\ ~IsComplete(h)'
    BY <1>4 DEF Live
  <2>2. CASE SubmitGraph(h)
    BY <2>2 DEF SubmitGraph
  <2>3. CASE ~SubmitGraph(h)
    <3>1. dag[h].phase = "running"
      BY <2>1, <2>3, Phases
    <3>2. dag[h].rev # 0
      BY <3>1 DEF TypeInv, FramesOK, DagOK
    <3>3. QED
      BY <1>3, <2>1, <3>1, <3>2 DEF Live
  <2>4. QED
    BY <2>2, <2>3
<1>5. QED
  BY <1>3, <1>4

\* A stray DAG stays one until the process restarts.
LEMMA StraysStay ==
  ASSUME TypeInv, BuiltInv, [Next]_vars, ~Restart, NEW h \in Request, Stray(h)
  PROVE  Stray(h)'
<1>1. ~Register(h) /\ ~SubmitGraph(h)
  BY DEF BuiltInv, Register, SubmitGraph, At
<1>2. QED
  BY <1>1, Phases DEF Stray

-----------------------------------------------------------------------------
(***************************************************************************)
(* The registry.  While no submission has left a stray DAG, a DAG that is  *)
(* built or runs is the one in the registry; so is one whose end is on its *)
(* way, and nothing is left of a session whose DAG was cancelled.          *)
(***************************************************************************)
NoStray == \A h \in Request : ~Stray(h)
Standing(h) == Live(h) \/ dag[h].phase = "built"
AllQuiet == \A h \in Request : ~Standing(h)

\* The old DAG has been cancelled, or there was none.
Silenced(h) == At(h, "clear") \/ (At(h, "stop") /\ handler[h].kind = "cancel") \/ At(h, "end")

RegisteredInv ==
  NoStray => \A h \in Request :
    /\ Standing(h) => registered = h
    /\ handler[h].pc \in {"listen", "submit"} => dag[h].phase = "built"
    /\ Ending(h) => registered = h /\ IsComplete(h) /\ dag[h].phase # "built" /\ dag[h].rev # 0
    /\ Silenced(h) => AllQuiet

SessionInv == TypeInv /\ AloneInv /\ BuiltInv /\ RegisteredInv

\* Who silences the session is alone.
LEMMA SilencersAlone ==
  ASSUME TypeInv, AloneInv, NEW h \in Request,
         CancelDag(h) \/ Clear(h) \/ CancelSession(h) \/ Silenced(h) \/ At(h, "cancel")
  PROVE  /\ \A g \in Request : g # h => ~Busy(g)
         /\ \A g \in Request : ~Ending(g)
         /\ At(h, "cancel") => registered = handler[h].old
<1>1. Silencer(h)
  BY DEF CancelDag, Clear, CancelSession, Silenced, Silencer, Busy, At, TypeInv, FramesOK, HandlerOK
<1>2. QED
  BY <1>1 DEF AloneInv

\* A step that neither registers a DAG nor submits one lets nothing rise.
LEMMA QuietStays ==
  ASSUME TypeInv, [Next]_vars, NEW h \in Request, Standing(h)'
  PROVE  \/ Standing(h)
         \/ Register(h) /\ registered = NoOne /\ registered' = h
         \/ SubmitGraph(h)
<1>1. CASE Live(h)'
  BY <1>1, EndsStay DEF Standing
<1>2. CASE dag'[h].phase = "built"
  BY <1>2, Phases DEF Standing
<1>3. QED
  BY <1>1, <1>2 DEF Standing

\* The registry's entry stays while what it names stands or comes to its end.
LEMMA EntryStays ==
  ASSUME ~Overlap, SessionInv, [Next]_vars, ~Restart, NoStray, NEW h \in Request, registered = h,
         \/ Standing(h) /\ Standing(h)'
         \/ Ending(h) /\ Ending(h)'
  PROVE  registered' = h
<1>1. /\ Standing(h) => ~(\E g \in Request : Silenced(g))
      /\ Ending(h) => ~Standing(h)
      /\ \A g \in Request : Ending(g) => registered = g
  BY EndsStay DEF SessionInv, RegisteredInv, AllQuiet, Standing, Live
<1>2. h # NoOne
  BY CollaborationAssumption DEF CollaborationAssumption
<1>3. ASSUME NEW g \in Request, CancelDag(g) PROVE registered' = h
  <2>1. handler[g].old = h /\ ~Ending(h) /\ (\A f \in Request : f # g => ~Busy(f)) /\ At(g, "cancel")
    BY <1>3, SilencersAlone DEF SessionInv, CancelDag
  <2>2. dag[h].phase # "built"
    BY <2>1 DEF SessionInv, BuiltInv, Busy, At
  <2>3. Live(h) /\ Standing(h)'
    BY <2>1, <2>2 DEF Standing
  <2>4. dag'[h].failed /\ dag'[h].phase = "running"
    BY <1>3, <2>1, <2>3, CancelTurns DEF SessionInv, Live
  <2>5. QED
    BY <2>3, <2>4 DEF Standing, Live, IsComplete
<1>4. ASSUME NEW g \in Request, Clear(g) PROVE FALSE
  BY <1>1, <1>4, SilencersAlone DEF SessionInv, Silenced, Clear
<1>5. ASSUME NEW g \in Request, Register(g) PROVE registered' = h
  BY <1>2, <1>5 DEF Register
<1>6. ASSUME NEW g \in Request, Withdraw(g) PROVE FALSE
  BY <1>6 DEF SessionInv, BuiltInv, NoStray, Withdraw
<1>7. ASSUME NEW g \in Request, Finalize(g) PROVE FALSE
  <2>1. g = h /\ Ending(h) /\ ~Standing(h)
    BY <1>1, <1>7 DEF Finalize
  <2>2. ending'[h] = "closed"
    BY <1>7, <2>1, Parts DEF Finalize, SessionInv, TypeInv, TasksOK
  <2>3. QED
    BY <2>1, <2>2 DEF Ending
<1>8. QED
  BY <1>3, <1>4, <1>5, <1>6, <1>7, RegistrySteps

LEMMA RegisteredNext == ASSUME ~Overlap, SessionInv, [Next]_vars PROVE RegisteredInv'
<1> USE DEF SessionInv
<1>1. CASE Restart
  <2>1. \A h \in Request : /\ dag'[h].phase \in {"none", "lost"} /\ ending'[h] = "open"
                           /\ handler'[h].pc \in {"none", "done"}
    BY <1>1, RestartTurns DEF At, Restart
  <2>2. QED
    BY <2>1 DEF RegisteredInv, Standing, Live, Ending, Silenced, At
<1>2. CASE ~Restart
  <2> SUFFICES ASSUME NoStray', NEW h \in Request
               PROVE  /\ Standing(h)' => registered' = h
                      /\ handler'[h].pc \in {"listen", "submit"} => dag'[h].phase = "built"
                      /\ Ending(h)' => /\ registered' = h /\ IsComplete(h)'
                                       /\ dag'[h].phase # "built" /\ dag'[h].rev # 0
                      /\ Silenced(h)' => AllQuiet'
    BY DEF RegisteredInv
  <2>1. NoStray
    BY <1>2, StraysStay DEF NoStray
  <2>2. \A g \in Request :
          /\ Standing(g) => registered = g
          /\ handler[g].pc \in {"listen", "submit"} => dag[g].phase = "built"
          /\ Ending(g) => registered = g /\ IsComplete(g) /\ dag[g].phase # "built" /\ dag[g].rev # 0
          /\ Silenced(g) => AllQuiet
    BY <2>1 DEF RegisteredInv
  <2>3. registered \in Request => registered # NoOne
    BY CollaborationAssumption DEF CollaborationAssumption
  <2>4. \A g \in Request : SubmitGraph(g) => Standing(g) /\ registered = g
    BY <2>2 DEF SubmitGraph, At, Standing
  <2>5. ASSUME Standing(h)' PROVE registered' = h
    <3>1. CASE Standing(h)
      BY <1>2, <2>1, <2>2, <2>5, <3>1, EntryStays
    <3>2. CASE ~Standing(h)
      BY <2>4, <2>5, <3>2, QuietStays
    <3>3. QED
      BY <3>1, <3>2
  <2>6. ASSUME handler'[h].pc \in {"listen", "submit"} PROVE dag'[h].phase = "built"
    <3>1. CASE handler[h].pc \in {"listen", "submit"}
      <4>1. dag[h].phase = "built" /\ registered = h
        BY <2>2, <3>1 DEF Standing
      <4>2. ~SubmitGraph(h) /\ ~SubmitFault(h)
        BY <2>6, Goes DEF Moved
      <4>3. \A g \in Request : g # h => ~SubmitGraph(g)
        BY <2>4, <4>1
      <4>4. QED
        BY <1>2, <4>1, <4>2, <4>3, Phases
    <3>2. CASE handler[h].pc \notin {"listen", "submit"}
      <4>1. Register(h) /\ registered = NoOne
        <5>1. CASE Look(h)
          BY <2>6, <5>1, LookMoves DEF Begun
        <5>2. CASE At(h, "none") /\ (Activate(h) \/ Replace(h) \/ Interact(h) \/ Cancel(h)
                                     \/ \E g \in Request : Recover(h, g))
          BY <2>6, <5>2, Types DEF Activate, Replace, Interact, Cancel, Recover, Begin
        <5>3. CASE \/ Enter(h) \/ Stop(h) \/ CancelDag(h) \/ Clear(h) \/ SubmitGraph(h) \/ SubmitFault(h)
                   \/ Withdraw(h) \/ Fail(h) \/ Watch(h) \/ CancelSession(h)
          BY <2>6, <5>3, Goes DEF Moved
        <5>4. CASE Register(h)
          BY <2>6, <5>4, Goes DEF Moved
        <5>5. QED
          BY <1>2, <2>6, <3>2, <5>1, <5>2, <5>3, <5>4, OwnSteps DEF Listen, At
      <4>2. QED
        BY <4>1, BuildsDag, Types DEF Register
    <3>3. QED
      BY <3>1, <3>2
  <2>7. ASSUME Ending(h)'
        PROVE  registered' = h /\ IsComplete(h)' /\ dag'[h].phase # "built" /\ dag'[h].rev # 0
    <3>1. CASE Ending(h)
      <4>1. registered = h /\ IsComplete(h) /\ dag[h].phase # "built" /\ dag[h].rev # 0
        BY <2>2, <3>1
      <4>2. ~Register(h)
        BY <4>1 DEF TypeInv, FramesOK, DagOK, Register, At, Early
      <4>3. dag'[h].phase # "built"
        BY <4>1, <4>2, Phases
      <4>4. registered' = h
        BY <1>2, <2>1, <2>7, <3>1, <4>1, EntryStays
      <4>5. QED
        BY <4>1, <4>3, <4>4, EndsStay
    <3>2. CASE ~Ending(h)
      <4>1. NodeFails(h) \/ \E n \in Node : NodeCompletes(h, n) /\ dag[h].done \cup {n} = Node
        BY <2>7, <3>2, Ends DEF Ending
      <4>2. Runs(h) /\ UNCHANGED registered
        BY <4>1 DEF NodeFails, NodeCompletes
      <4>3. registered = h /\ dag[h].phase = "running"
        BY <2>1, <2>2, <4>2 DEF Runs, Live, NoStray, Stray, Standing
      <4>4. dag[h].rev # 0
        BY <4>3 DEF TypeInv, FramesOK, DagOK
      <4>5. IsComplete(h)' /\ dag'[h].phase = dag[h].phase
        BY <4>1, NodeFailsTurns, NodeCompletesTurns DEF Turned, IsComplete
      <4>6. QED
        BY <4>2, <4>3, <4>4, <4>5, EndsStay
    <3>3. QED
      BY <3>1, <3>2
  <2>8. ASSUME Silenced(h)' PROVE AllQuiet'
    \* Nothing rises: a handler that silences the session is alone.
    <3>1. ASSUME AllQuiet, ~Register(h), \A g \in Request : g # h => ~Busy(g) PROVE AllQuiet'
      <4> SUFFICES ASSUME NEW g \in Request, Standing(g)' PROVE FALSE
        BY DEF AllQuiet
      <4>1. ~SubmitGraph(g)
        BY <2>4, <3>1 DEF AllQuiet
      <4>2. g # h => ~Register(g)
        BY <3>1 DEF Register, At, Busy
      <4>3. QED
        BY <3>1, <4>1, <4>2, QuietStays DEF AllQuiet
    <3>2. CASE handler'[h] = handler[h]
      <4>1. Silenced(h) /\ AllQuiet
        BY <2>2, <2>8, <3>2 DEF Silenced, At
      <4>2. ~Register(h)
        BY <3>2, <4>1, Goes DEF Silenced, Register, At
      <4>3. QED
        BY <3>1, <4>1, <4>2, SilencersAlone
    <3>3. CASE Look(h)
      <4>1. registered = NoOne /\ Silencer(h)
        <5>1. At(h, "look") /\ handler[h].kind \in {"replace", "cancel"}
          BY <3>3 DEF Look, At, TypeInv, FramesOK, HandlerOK
        <5>2. registered # NoOne /\ handler[h].kind = "cancel" => handler'[h].pc = "cancel"
          BY <3>3, LookMoves DEF Begun
        <5>3. handler[h].kind = "replace" => handler'[h].kind = "replace" /\ handler'[h].pc \in {"register", "stop"}
          BY <3>3, LookMoves DEF Begun
        <5>4. QED
          BY <2>8, <5>1, <5>2, <5>3 DEF Silenced, Silencer, Busy, At
      <4>2. AllQuiet
        BY <2>2, <2>3, <4>1 DEF AllQuiet
      <4>3. QED
        BY <3>1, <3>3, <4>1, <4>2 DEF AloneInv, Look, Register, At
    <3>4. CASE CancelDag(h)
      <4>1. registered = handler[h].old /\ \A g \in Request : g # h => ~Busy(g)
        BY <3>4, SilencersAlone DEF CancelDag
      <4>2. At(h, "cancel")
        BY <3>4 DEF CancelDag
      <4> SUFFICES ASSUME NEW g \in Request, Standing(g)' PROVE FALSE
        BY DEF AllQuiet
      <4>3. ~Register(g) /\ ~SubmitGraph(g)
        BY <4>1, <4>2 DEF Register, SubmitGraph, At, Busy
      <4>4. Standing(g) /\ dag[g].phase # "built"
        BY <4>1, <4>2, <4>3, QuietStays DEF BuiltInv, Busy, At
      <4>5. Live(g) /\ g = handler[h].old
        BY <2>2, <4>1, <4>4 DEF Standing
      <4>6. dag'[g].failed /\ dag'[g].phase = "running"
        BY <3>4, <4>5, CancelTurns DEF Live
      <4>7. QED
        BY <4>6 DEF Standing, Live, IsComplete
    <3>5. CASE Clear(h)
      BY <2>2, <3>1, <3>5, SilencersAlone DEF Clear, Silenced, Register, At
    <3>6. CASE Stop(h)
      <4>1. At(h, "stop") /\ handler[h].kind = "cancel"
        BY <2>8, <3>6, Goes DEF Stop, Moved, Silenced, At, TypeInv, FramesOK, HandlerOK
      <4>2. Silenced(h) /\ ~Register(h)
        BY <4>1 DEF Silenced, Register, At
      <4>3. QED
        BY <2>2, <3>1, <4>2, SilencersAlone
    <3>7. CASE \/ Enter(h) \/ Register(h) \/ Listen(h) \/ SubmitGraph(h) \/ SubmitFault(h) \/ Withdraw(h)
               \/ Fail(h) \/ Watch(h) \/ CancelSession(h)
      BY <2>8, <3>7, Goes DEF Moved, Silenced, At
    <3>8. CASE At(h, "none") /\ (Activate(h) \/ Replace(h) \/ Interact(h) \/ Cancel(h)
                                 \/ \E g \in Request : Recover(h, g))
      BY <2>8, <3>8, Types DEF Activate, Replace, Interact, Cancel, Recover, Begin, Silenced, At
    <3>9. QED
      BY <1>2, <3>2, <3>3, <3>4, <3>5, <3>6, <3>7, <3>8, OwnSteps
  <2>9. QED
    BY <2>5, <2>6, <2>7, <2>8
<1>3. QED
  BY <1>1, <1>2

LEMMA SessionInvariant ==
  ASSUME ~Overlap
  PROVE  Spec => []SessionInv
<1>1. Init => SessionInv
  <2>1. ASSUME Init
        PROVE  \A h \in Request : /\ handler[h].pc = "none" /\ dag[h].phase = "none"
                                  /\ ending[h] = "open"
    BY <2>1 DEF Init
  <2>2. QED
    BY <2>1, InitTypes
       DEF SessionInv, AloneInv, BuiltInv, RegisteredInv, Silencer, Busy, Stray, Standing, Live, Ending,
           Silenced, At
<1>2. SessionInv /\ [Next]_vars => SessionInv'
  BY TypeNext, AloneNext, BuiltNext, RegisteredNext DEF SessionInv
<1>3. QED
  BY <1>1, <1>2, PTL DEF Spec

\* Where replacements and cancellations have the session to themselves, a DAG
\* that runs is the one in the registry, so a session runs one DAG at a time:
\* unless a submission has failed, which leaves a DAG in no registry.
THEOREM OneDagRuns == ~Overlap => (Spec => []LiveIsRegistered)
<1> SUFFICES ASSUME ~Overlap PROVE Spec => []LiveIsRegistered
  OBVIOUS
<1>1. SessionInv => LiveIsRegistered
  BY DEF SessionInv, RegisteredInv, NoStray, Standing, LiveIsRegistered
<1>2. QED
  BY <1>1, SessionInvariant, PTL

-----------------------------------------------------------------------------
(***************************************************************************)
(* Cancelled sessions.  Once a session is cancelled no handler is busy     *)
(* with it but one that cancels, and nothing stands.                       *)
(***************************************************************************)
QuietInv ==
  state = "cancelled" =>
    /\ \A h \in Request : Busy(h) => handler[h].kind = "cancel"
    /\ NoStray => AllQuiet

LEMMA CancelledSteps ==
  ASSUME "cancelled" \notin UserStates, [Next]_vars, state' = "cancelled"
  PROVE  state = "cancelled" \/ \E h \in Request : CancelSession(h)
BY SessionSteps
   DEF sessionVars, Transition, CreatePlanRevision, CreateApproval, DecideApproval, Interact, Revise, Enter,
       Fail, Snapshot, MonitorEnds, TransitionIfAllowed

LEMMA QuietNext ==
  ASSUME ~Overlap, "cancelled" \notin UserStates, SessionInv, QuietInv, [Next]_vars
  PROVE  QuietInv'
<1> USE DEF SessionInv
<1> SUFFICES ASSUME state' = "cancelled"
             PROVE  /\ \A h \in Request : Busy(h)' => handler'[h].kind = "cancel"
                    /\ NoStray' => AllQuiet'
  BY DEF QuietInv
<1>1. CASE Restart
  BY <1>1, RestartTurns DEF At, Busy, AllQuiet, Standing, Live
<1>2. CASE ~Restart
  <2>1. NoStray' => NoStray
    BY <1>2, StraysStay DEF NoStray
  <2>2. /\ \A h \in Request : Busy(h) => handler[h].kind = "cancel"
        /\ NoStray => AllQuiet
    <3>1. CASE state = "cancelled"
      BY <3>1 DEF QuietInv
    <3>2. CASE state # "cancelled"
      <4>1. PICK h \in Request : CancelSession(h)
        BY <3>2, CancelledSteps
      <4>2. handler[h].kind = "cancel" /\ Silenced(h)
        BY <4>1 DEF CancelSession, Silenced, At, TypeInv, FramesOK, HandlerOK
      <4>3. QED
        BY <4>1, <4>2, SilencersAlone DEF RegisteredInv
    <3>3. QED
      BY <3>1, <3>2
  <2>3. ASSUME NEW h \in Request, Busy(h)' PROVE handler'[h].kind = "cancel"
    <3>1. CASE handler'[h] = handler[h]
      BY <2>2, <2>3, <3>1 DEF Busy
    <3>2. CASE \/ Enter(h) \/ Look(h) \/ Stop(h) \/ CancelDag(h) \/ Clear(h) \/ Register(h) \/ Listen(h)
               \/ SubmitGraph(h) \/ SubmitFault(h) \/ Withdraw(h) \/ Fail(h) \/ Watch(h) \/ CancelSession(h)
      <4>1. Busy(h)
        BY <3>2 DEF Enter, Look, Stop, CancelDag, Clear, Register, Listen, SubmitGraph, SubmitFault,
                    Withdraw, Fail, Watch, CancelSession, At, Busy
      <4>2. handler'[h].kind = handler[h].kind
        BY <3>2, LookMoves, Goes DEF Begun, Moved
      <4>3. QED
        BY <2>2, <4>1, <4>2
    <3>3. CASE At(h, "none") /\ (Activate(h) \/ Replace(h) \/ Interact(h) \/ Cancel(h)
                                 \/ \E g \in Request : Recover(h, g))
      <4>1. ~Activate(h) /\ ~Replace(h) /\ ~Interact(h) /\ \A g \in Request : ~Recover(h, g)
        BY DEF Activate, Replace, Interact, Recover, Revise, sessionVars
      <4>2. QED
        BY <3>3, <4>1, Types DEF Cancel, Begin
    <3>4. QED
      BY <1>2, <3>1, <3>2, <3>3, OwnSteps
  <2>4. ASSUME NoStray', NEW h \in Request, Standing(h)' PROVE FALSE
    <3>1. ~Register(h) /\ ~SubmitGraph(h)
      BY <2>2 DEF Register, SubmitGraph, At, Busy, TypeInv, FramesOK, HandlerOK, Building
    <3>2. QED
      BY <2>1, <2>2, <2>4, <3>1, QuietStays DEF AllQuiet
  <2>5. QED
    BY <2>3, <2>4 DEF AllQuiet
<1>3. QED
  BY <1>1, <1>2

\* Where, besides, nobody writes the state "cancelled" by hand, nothing runs for
\* a session that cancel_session has cancelled, with the same exception.
THEOREM CancelledSilences ==
  ~Overlap /\ "cancelled" \notin UserStates => (Spec => []CancelledIsQuiet)
<1> SUFFICES ASSUME ~Overlap, "cancelled" \notin UserStates PROVE Spec => []CancelledIsQuiet
  OBVIOUS
<1>1. Init => QuietInv
  BY DEF Init, QuietInv
<1>2. QuietInv => CancelledIsQuiet
  BY DEF QuietInv, CancelledIsQuiet, NoStray, AllQuiet, Standing
<1>3. QED
  BY <1>1, <1>2, QuietNext, SessionInvariant, PTL DEF Spec
==============================================================================
