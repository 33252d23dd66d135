------------------------ MODULE CollaborationSession ------------------------
(***************************************************************************)
(* A collaboration session: its state and its plan revisions in the        *)
(* database, the registries that name the DAG, the event listener and the  *)
(* monitor of the session, and the request handlers that activate, replace,*)
(* recover and cancel its DAG.  A handler is an element of Request and     *)
(* names the DAG it creates.  One action is one transaction, one hold of a *)
(* registry's lock, or one await.                                          *)
(***************************************************************************)
EXTENDS Naturals, FiniteSets

CONSTANTS
  Node,          \* the nodes of every plan
  DependsOn,     \* the nodes that each of them depends on
  Request,       \* request handlers, each of which runs once
  UserStates,    \* what users ask of POST /state
  Overlap,       \* replacements and cancellations overlap other handlers and ends of DAGs
  MaxRevisions, MaxApprovals,
  MaxFaults      \* bound: writes and submissions that fail, and restarts

NoOne == "nobody"

States == {"idle", "planning", "executing", "waiting_input", "waiting_approval",
           "synthesizing", "completed", "failed", "cancelled"}

ASSUME CollaborationAssumption ==
  /\ NoOne \notin Request
  /\ UserStates \subseteq States
  /\ Overlap \in BOOLEAN
  /\ {MaxRevisions, MaxApprovals, MaxFaults} \subseteq Nat

VARIABLES
  state,       \* collaboration_sessions.state
  active,      \* the active plan revision; those before it are superseded
  preserved,   \* the nodes each revision's snapshot takes over as completed
  recorded,    \* the task_completed events, as pairs of revision and node
  pending,     \* the approvals that are pending
  handler,     \* where each request is
  dag,         \* the DAG each request has built
  ending,      \* the gate of each DAG's finalization, and who is on the way to it
  registered,  \* the entry of the session in SESSION_DAGS
  listening,   \* the DAGs whose event listener runs
  listener,    \* the entry in SESSION_EVENT_LISTENERS
  monitor,     \* where the monitor of each DAG is
  watched,     \* the entry in SESSION_MONITORS
  faults

sessionVars == <<state, active, preserved, recorded, pending>>
taskVars == <<ending, listening, listener, monitor, watched>>
vars == <<sessionVars, handler, dag, registered, taskVars, faults>>

Revision == 1..MaxRevisions
Ended == {"completed", "failed", "cancelled"}

\* SessionState::can_transition_to.
Successors(s) ==
  CASE s = "idle" -> {"planning", "waiting_input"} \cup Ended
    [] s = "planning" -> {"executing", "waiting_input", "waiting_approval", "failed", "cancelled"}
    [] s = "executing" -> {"waiting_input", "waiting_approval", "synthesizing", "planning",
                           "failed", "cancelled"}
    [] s = "waiting_input" -> {"planning", "executing", "failed", "cancelled"}
    [] s = "waiting_approval" -> {"executing", "planning", "synthesizing", "failed", "cancelled"}
    [] s = "synthesizing" -> {"planning"} \cup Ended
    [] OTHER -> {"planning"}

\* transition_if_allowed where its error is dropped.
TransitionIfAllowed(next) == state' = IF next \in Successors(state) THEN next ELSE state

At(h, pc) == handler[h].pc = pc
Goto(h, pc) == handler' = [handler EXCEPT ![h].pc = pc]

AtRest == \A h \in Request : handler[h].pc \in {"none", "done"}

\* A task is on the way to finalize_if_terminal, or in it.
Ending(h) == ending[h] \in {"listener", "task"}

\* Replacements and cancellations have the session to themselves, or not.
Silencing == \E h \in Request : /\ handler[h].pc \notin {"none", "done"}
                               /\ handler[h].kind \in {"replace", "cancel"}
MayBegin(kind) ==
  \/ Overlap
  \/ ~Silencing /\ kind \in {"activate", "recover"}
  \/ AtRest /\ \A h \in Request : ~Ending(h)
MayEnd == Overlap \/ ~Silencing

\* TaskGraph::is_complete: with a failed node the others are failed or skipped.
IsComplete(h) == dag[h].failed \/ dag[h].done = Node
Live(h) == dag[h].phase = "running" /\ ~IsComplete(h)

\* A DAG whose submission has failed: its watchers, and nodes that were published,
\* go on.
Stray(h) == dag[h].phase = "stray"
Runs(h) == dag[h].phase \in {"running", "stray"} /\ ~IsComplete(h)

NoMonitor == [pc |-> "none", failed |-> FALSE]

Init ==
  /\ state = "idle" /\ active = 0
  /\ preserved = [r \in Revision |-> {}]
  /\ recorded = {}
  /\ pending = {}
  /\ handler = [h \in Request |-> [pc |-> "none", kind |-> "none", rev |-> 0, old |-> NoOne]]
  /\ dag = [h \in Request |-> [rev |-> 0, phase |-> "none", failed |-> FALSE, done |-> {}]]
  /\ registered = NoOne
  /\ ending = [h \in Request |-> "open"]
  /\ listening = {} /\ listener = NoOne
  /\ monitor = [h \in Request |-> NoMonitor] /\ watched = NoOne
  /\ faults = 0

-----------------------------------------------------------------------------
(* The session in the database. *)

\* transition_state, asked for by a user.
Transition(next) ==
  /\ next \in UserStates \cap Successors(state)
  /\ state' = next
  /\ UNCHANGED <<active, preserved, recorded, pending, handler, dag, registered, taskVars, faults>>

\* Mutated form of Completed: what the revision's DAG has begun counts.
CompletedOrStarted == {n \in Node : \E h \in Request : Live(h) /\ dag[h].rev = active}

\* What the events say that the active revision has completed.
Completed == {n \in Node : <<active, n>> \in recorded}

\* create_plan_revision: the new revision supersedes the active one.
Revise ==
  /\ state \in {"idle", "planning", "executing"}
  /\ active < MaxRevisions
  /\ active' = active + 1
  /\ preserved' = [preserved EXCEPT ![active + 1] = Completed]
  /\ state' = IF state = "idle" THEN "planning" ELSE state
  /\ UNCHANGED <<recorded, pending>>

CreatePlanRevision ==
  /\ Revise
  /\ UNCHANGED <<handler, dag, registered, taskVars, faults>>

CreateApproval(a) ==
  /\ state = "executing" /\ a \notin pending
  /\ pending' = pending \cup {a}
  /\ state' = "waiting_approval"
  /\ UNCHANGED <<active, preserved, recorded, handler, dag, registered, taskVars, faults>>

\* decide_approval: any pending approval of the session, however old.
DecideApproval(a) ==
  /\ state = "waiting_approval" /\ a \in pending
  /\ pending' = pending \ {a}
  /\ state' \in {"executing", "planning"}
  /\ UNCHANGED <<active, preserved, recorded, handler, dag, registered, taskVars, faults>>

-----------------------------------------------------------------------------
(* The handlers: how they begin.  A request that is refused changes nothing. *)

Begin(h, kind, pc, rev, old) ==
  /\ At(h, "none") /\ MayBegin(kind)
  /\ handler' = [handler EXCEPT ![h] = [pc |-> pc, kind |-> kind, rev |-> rev, old |-> old]]

\* activate_plan_revision, up to its first write.
Activate(h) ==
  /\ active # 0 /\ registered = NoOne
  /\ state \in {"planning", "waiting_input", "waiting_approval"}
  /\ Begin(h, "activate", "enter", active, NoOne)
  /\ UNCHANGED <<sessionVars, dag, registered, taskVars, faults>>

\* replace_session_plan_revision, up to its look at the registry.
Replace(h) ==
  /\ active # 0 /\ state = "executing"
  /\ Begin(h, "replace", "look", active, NoOne)
  /\ UNCHANGED <<sessionVars, dag, registered, taskVars, faults>>

\* submit_session_interaction: a plan for a message, and its execution.
Interact(h) ==
  /\ Revise
  /\ IF state = "executing"
     THEN Begin(h, "replace", "look", active + 1, NoOne)
     ELSE registered = NoOne /\ Begin(h, "activate", "enter", active + 1, NoOne)
  /\ UNCHANGED <<dag, registered, taskVars, faults>>

\* recover_session_dag, for a DAG that was saved before the restart.
Recover(h, g) ==
  /\ dag[g].phase = "lost" /\ dag[g].rev = active
  /\ state = "executing" /\ registered = NoOne
  /\ Begin(h, "recover", "register", active, g)
  /\ UNCHANGED <<sessionVars, dag, registered, taskVars, faults>>

\* cancel_session_execution.
Cancel(h) ==
  /\ Begin(h, "cancel", "look", 0, NoOne)
  /\ UNCHANGED <<sessionVars, dag, registered, taskVars, faults>>

-----------------------------------------------------------------------------
(* The handlers: their steps. *)

\* The session is Executing before the DAG is registered.
Enter(h) ==
  /\ At(h, "enter")
  /\ IF "executing" \in Successors(state) THEN state' = "executing" /\ Goto(h, "register")
                                          ELSE UNCHANGED state /\ Goto(h, "done")
  /\ UNCHANGED <<active, preserved, recorded, pending, dag, registered, taskVars, faults>>

\* A replacement silences the old DAG before it cancels it, a cancellation after.
Look(h) ==
  /\ At(h, "look")
  /\ handler' = [handler EXCEPT ![h].old = registered,
       ![h].pc = IF handler[h].kind = "replace"
                 THEN IF registered = NoOne THEN "register" ELSE "stop"
                 ELSE IF registered = NoOne THEN "stop" ELSE "cancel"]
  /\ UNCHANGED <<sessionVars, dag, registered, taskVars, faults>>

\* stop_session_event_listener; it may break off an end that is on its way there.
StopListener ==
  /\ listening' = listening \ {listener}
  /\ listener' = NoOne
  /\ ending' \in {ending, [h \in Request |-> IF h = listener /\ ending[h] = "listener"
                                             THEN "open" ELSE ending[h]]}

\* stop_session_monitor: the monitor ends where it waits.  It waits in its sleep,
\* and may wait for the graph; once it has seen the end it does not wait again.
StopMonitor ==
  /\ watched' = NoOne
  /\ \/ monitor' = [h \in Request |-> IF h = watched /\ monitor[h].pc \in {"polling", "looked"}
                                    THEN [pc |-> "ended", failed |-> FALSE] ELSE monitor[h]]
     \/ /\ \A h \in Request : h = watched => monitor[h].pc # "polling"
        /\ UNCHANGED monitor

Stop(h) ==
  /\ At(h, "stop")
  /\ StopMonitor /\ StopListener
  /\ Goto(h, IF handler[h].kind = "replace" THEN "cancel" ELSE "end")
  /\ UNCHANGED <<sessionVars, dag, registered, faults>>

\* Mutated form of CancelDag: the nodes that run are left to end.
CancelNothing(h) ==
  /\ At(h, "cancel")
  /\ Goto(h, "clear")
  /\ UNCHANGED <<sessionVars, dag, registered, taskVars, faults>>

\* cancel_remaining_nodes of the DAG that was looked up.  The handler finalizes
\* the DAG, unless the gate is shut or another task comes first, and gives up when
\* the graph cannot be saved.
CancelDag(h) ==
  LET old == handler[h].old
  IN  /\ At(h, "cancel")
      /\ dag' = [g \in Request |-> IF g = old /\ Live(g) THEN [dag[g] EXCEPT !.failed = TRUE]
                                                          ELSE dag[g]]
      /\ \/ /\ ending[old] # "closed"
            /\ registered' = NoOne /\ ending' = [ending EXCEPT ![old] = "closed"]
            /\ Goto(h, "clear") /\ UNCHANGED faults
         \/ /\ Live(old) => Overlap
            /\ ending' = IF Live(old) THEN [ending EXCEPT ![old] = "task"] ELSE ending
            /\ Goto(h, "clear") /\ UNCHANGED <<registered, faults>>
         \/ /\ faults < MaxFaults /\ faults' = faults + 1
            /\ Goto(h, "done") /\ UNCHANGED <<registered, ending>>
  /\ UNCHANGED <<sessionVars, listening, listener, monitor, watched>>

\* clear_session_dag_scheduler, whosever the entry is.
Clear(h) ==
  /\ At(h, "clear")
  /\ registered' = NoOne
  /\ Goto(h, IF handler[h].kind = "replace" THEN "register" ELSE "stop")
  /\ UNCHANGED <<sessionVars, dag, taskVars, faults>>

\* The graph of a new DAG: it is the saved one, or what is preserved is completed.
Built(h) ==
  LET saved == handler[h].kind = "recover"
      old   == handler[h].old
  IN  [dag EXCEPT ![h] = [rev |-> handler[h].rev, phase |-> "built",
                          failed |-> saved /\ dag[old].failed,
                          done |-> IF saved THEN dag[old].done ELSE preserved[handler[h].rev]]]

\* Mutated form of Register: set_session_dag_scheduler, which overwrites.
RegisterOver(h) ==
  /\ At(h, "register")
  /\ registered' = h /\ dag' = Built(h) /\ Goto(h, "listen")
  /\ UNCHANGED <<sessionVars, taskVars, faults>>

\* try_set_session_dag_scheduler.
Register(h) ==
  /\ At(h, "register")
  /\ IF registered = NoOne
     THEN registered' = h /\ dag' = Built(h) /\ Goto(h, "listen")
     ELSE /\ Goto(h, IF handler[h].kind = "replace" THEN "fail" ELSE "done")
          /\ UNCHANGED <<registered, dag>>
  /\ UNCHANGED <<sessionVars, taskVars, faults>>

\* start_event_listener; a handle in the registry is overwritten.
Listen(h) ==
  /\ At(h, "listen")
  /\ listening' = listening \cup {h} /\ listener' = h
  /\ Goto(h, "submit")
  /\ UNCHANGED <<sessionVars, dag, registered, ending, monitor, watched, faults>>

\* submit_graph saves the graph, over the file of an earlier DAG of the revision.
SubmitGraph(h) ==
  /\ At(h, "submit")
  /\ dag' = [g \in Request |->
       IF g = h THEN [dag[g] EXCEPT !.phase = "running"]
       ELSE IF dag[g].rev = dag[h].rev /\ ~Live(g) /\ ~Stray(g) THEN [dag[g] EXCEPT !.phase = "none"] ELSE dag[g]]
  /\ Goto(h, "watch")
  /\ UNCHANGED <<sessionVars, registered, taskVars, faults>>

\* It fails after it has armed the watchers, perhaps after it has published nodes.
SubmitFault(h) ==
  /\ At(h, "submit") /\ faults < MaxFaults
  /\ faults' = faults + 1
  /\ dag' = [dag EXCEPT ![h].phase = "stray"]
  /\ Goto(h, "withdraw")
  /\ UNCHANGED <<sessionVars, registered, taskVars>>

\* The registries forget the session, whosever the entries are.
Withdraw(h) ==
  /\ At(h, "withdraw")
  /\ StopListener /\ registered' = NoOne
  /\ Goto(h, "fail")
  /\ UNCHANGED <<sessionVars, dag, monitor, watched, faults>>

Fail(h) ==
  /\ At(h, "fail")
  /\ TransitionIfAllowed("failed")
  /\ Goto(h, "done")
  /\ UNCHANGED <<active, preserved, recorded, pending, dag, registered, taskVars, faults>>

\* spawn_context_monitor, unless the event before it cannot be appended.
Watch(h) ==
  /\ At(h, "watch")
  /\ \/ monitor' = [monitor EXCEPT ![h].pc = "polling"] /\ watched' = h /\ UNCHANGED faults
     \/ faults < MaxFaults /\ faults' = faults + 1 /\ UNCHANGED <<monitor, watched>>
  /\ Goto(h, "done")
  /\ UNCHANGED <<sessionVars, dag, registered, ending, listening, listener>>

\* cancel_session, which refuses a session that has ended.
CancelSession(h) ==
  /\ At(h, "end")
  /\ IF state \in {"idle"} \cup Ended
     THEN UNCHANGED <<state, pending>>
     ELSE /\ state' = "cancelled"
          /\ pending' = {}
  /\ Goto(h, "done")
  /\ UNCHANGED <<active, preserved, recorded, dag, registered, taskVars, faults>>

-----------------------------------------------------------------------------
(* The DAG and its monitor. *)

\* The DAG learns of a completed node from its listener.
NodeCompletes(h, n) ==
  /\ Runs(h) /\ h \in listening
  /\ n \notin dag[h].done /\ DependsOn[n] \subseteq dag[h].done
  /\ dag' = [dag EXCEPT ![h].done = @ \cup {n}]
  /\ IF dag[h].done \cup {n} = Node
     THEN MayEnd /\ ending' = [ending EXCEPT ![h] = "listener"]
     ELSE UNCHANGED ending
  /\ UNCHANGED <<sessionVars, handler, registered, listening, listener, monitor, watched, faults>>

\* A node fails, by an event or by a watcher, and with it the DAG.
NodeFails(h) ==
  /\ Runs(h) /\ MayEnd
  /\ dag' = [dag EXCEPT ![h].failed = TRUE]
  /\ \/ ending' = [ending EXCEPT ![h] = "task"]
     \/ h \in listening /\ ending' = [ending EXCEPT ![h] = "listener"]
  /\ UNCHANGED <<sessionVars, handler, registered, listening, listener, monitor, watched, faults>>

\* finalize_if_terminal clears the session's entry, whosever that is by now.
Finalize(h) ==
  /\ Ending(h)
  /\ ending' = [ending EXCEPT ![h] = "closed"]
  /\ registered' = NoOne
  /\ UNCHANGED <<sessionVars, handler, dag, listening, listener, monitor, watched, faults>>

\* The monitor takes a snapshot of the graph and records what has changed.
Snapshot(h) ==
  /\ monitor[h].pc = "polling"
  /\ recorded' = recorded \cup {<<dag[h].rev, n>> : n \in dag[h].done}
  /\ monitor' = [monitor EXCEPT ![h] = [pc |-> "looked", failed |-> dag[h].failed]]
  /\ UNCHANGED <<state, active, preserved, pending, handler, dag, registered, ending, listening,
                 listener, watched, faults>>

\* It asks whether the DAG is complete of the graph as it is by now.
CheckEnd(h) ==
  /\ monitor[h].pc = "looked"
  /\ monitor' = [monitor EXCEPT ![h].pc = IF IsComplete(h) THEN "ending" ELSE "polling"]
  /\ UNCHANGED <<sessionVars, handler, dag, registered, ending, listening, listener, watched, faults>>

\* Mutated form of MonitorEnds: every end completes the session.
MonitorCompletes(h) ==
  /\ monitor[h].pc = "ending"
  /\ TransitionIfAllowed("completed")
  /\ monitor' = [monitor EXCEPT ![h].pc = "leaving"]
  /\ UNCHANGED <<active, preserved, recorded, pending, handler, dag, registered, ending, listening,
                 listener, watched, faults>>

\* How it ended is what the snapshot says.
MonitorEnds(h) ==
  /\ monitor[h].pc = "ending"
  /\ TransitionIfAllowed(IF monitor[h].failed THEN "failed" ELSE "completed")
  /\ monitor' = [monitor EXCEPT ![h].pc = "leaving"]
  /\ UNCHANGED <<active, preserved, recorded, pending, handler, dag, registered, ending, listening,
                 listener, watched, faults>>

\* It takes the session's listener with it, whosever that is by now.
MonitorLeaves(h) ==
  /\ monitor[h].pc = "leaving"
  /\ StopListener
  /\ watched' = NoOne
  /\ monitor' = [monitor EXCEPT ![h] = [pc |-> "ended", failed |-> FALSE]]
  /\ UNCHANGED <<sessionVars, handler, dag, registered, faults>>

\* The process restarts: the database and the saved DAGs remain.
Restart ==
  /\ faults < MaxFaults /\ faults' = faults + 1
  /\ handler' = [h \in Request |-> IF At(h, "none") THEN handler[h] ELSE [handler[h] EXCEPT !.pc = "done"]]
  /\ dag' = [h \in Request |-> IF dag[h].phase = "none" THEN dag[h]
                               ELSE [dag[h] EXCEPT !.phase = IF @ \in {"built", "stray"} THEN "none" ELSE "lost"]]
  /\ registered' = NoOne
  /\ ending' = [h \in Request |-> "open"]
  /\ listening' = {} /\ listener' = NoOne
  /\ monitor' = [h \in Request |-> NoMonitor] /\ watched' = NoOne
  /\ UNCHANGED sessionVars

HandlerStep(h) ==
  \/ Enter(h) \/ Look(h) \/ Stop(h) \/ CancelDag(h) \/ Clear(h)
  \/ Register(h) \/ Listen(h) \/ SubmitGraph(h) \/ SubmitFault(h) \/ Withdraw(h) \/ Fail(h)
  \/ Watch(h) \/ CancelSession(h)

MonitorStep(h) == Snapshot(h) \/ CheckEnd(h) \/ MonitorEnds(h) \/ MonitorLeaves(h)

Next ==
  \/ \E s \in UserStates : Transition(s)
  \/ CreatePlanRevision
  \/ \E a \in 1..MaxApprovals : CreateApproval(a) \/ DecideApproval(a)
  \/ \E h \in Request :
       \/ Activate(h) \/ Replace(h) \/ Interact(h) \/ Cancel(h)
       \/ \E g \in Request : Recover(h, g)
       \/ HandlerStep(h) \/ MonitorStep(h)
       \/ NodeFails(h) \/ Finalize(h) \/ \E n \in Node : NodeCompletes(h, n)
  \/ Restart

Spec == Init /\ [][Next]_vars

\* A monitor that was spawned goes on.
FairSpec == Spec /\ \A h \in Request : WF_vars(MonitorStep(h))

-----------------------------------------------------------------------------
(* Correctness. *)

TypeOK ==
  /\ state \in States /\ active \in 0..MaxRevisions
  /\ preserved \in [Revision -> SUBSET Node]
  /\ recorded \subseteq Revision \X Node
  /\ pending \subseteq 1..MaxApprovals
  /\ handler \in [Request ->
       [pc : {"none", "enter", "look", "stop", "cancel", "clear", "register", "listen", "submit",
              "withdraw", "fail", "watch", "end", "done"},
        kind : {"none", "activate", "replace", "recover", "cancel"},
        rev : 0..MaxRevisions, old : Request \cup {NoOne}]]
  /\ dag \in [Request -> [rev : 0..MaxRevisions,
                          phase : {"none", "built", "running", "stray", "lost"},
                          failed : BOOLEAN, done : SUBSET Node]]
  /\ {registered, listener, watched} \subseteq Request \cup {NoOne}
  /\ ending \in [Request -> {"open", "listener", "task", "closed"}]
  /\ listening \subseteq Request
  /\ monitor \in [Request -> [pc : {"none", "polling", "looked", "ending", "leaving", "ended"},
                              failed : BOOLEAN]]
  /\ faults \in 0..MaxFaults

\* A DAG that runs is the one in the registry, through which alone it can be
\* seen and cancelled, so a session runs one DAG at a time; unless a submission
\* has failed, which leaves a DAG that is in no registry.
LiveIsRegistered == \A h \in Request : Live(h) => registered = h \/ \E g \in Request : Stray(g)

\* Nothing runs for a session that was cancelled, with the same exception.
CancelledIsQuiet ==
  state = "cancelled" => \A h \in Request : Live(h) => \E g \in Request : Stray(g)

\* A node that a revision takes over as completed was executed by the DAG of an
\* earlier revision.
PreservedWasDone ==
  \A r \in Revision : \A n \in preserved[r] :
    \E h \in Request : dag[h].rev \in 1..(r - 1) /\ n \in dag[h].done \ preserved[dag[h].rev]

\* A DAG that its monitor finds failed ends the session, unless somebody replaces
\* or cancels it, or the process restarts.
FailureEndsSession ==
  \A h \in Request :
    monitor[h].pc = "polling" /\ dag[h].failed
      ~> \/ state \in Ended \/ monitor[h] = NoMonitor
         \/ \E g \in Request : handler[g].kind \in {"replace", "cancel"}
=============================================================================
