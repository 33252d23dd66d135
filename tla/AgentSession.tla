---------------------------- MODULE AgentSession ----------------------------
(***************************************************************************)
(* An agent session from its launch to the event that ends its node: the   *)
(* launcher (ergatai-collab/src/agent_launcher.rs), the watcher it leaves  *)
(* behind, the system token it registers (ergatai-lock/src/lock_manager.rs)*)
(* with the heartbeat task that keeps it alive, and the watchdogs that     *)
(* expire tokens (ergatai-lock/src/watchdog.rs, manager.rs).               *)
(*                                                                         *)
(* A submission has one agent, and its task id is the project id under     *)
(* which file access is initialized, so that every session has a lock      *)
(* manager and a watchdog of its own.  They all work on the same database, *)
(* where each watchdog sees the tokens of all; what it knows of busy       *)
(* sessions it keeps in memory, for its own session.                       *)
(*                                                                         *)
(* Time is counted in ticks of one heartbeat interval, as ages that stop   *)
(* growing once they have passed every threshold.  In a tick each          *)
(* heartbeat task and each watchdog runs once, in any order; a launch gets *)
(* from its token to its heartbeat, and a check to its end, within a tick. *)
(***************************************************************************)
EXTENDS Naturals, FiniteSets

CONSTANTS
  Session,     \* "session-{task}|{agent}"
  Patience,    \* timeout_multiplier: a heartbeat is late when it is older
  Grace1,      \* grace_period_1_secs
  Grace2,      \* grace_period_2_secs
  Ttl,         \* the token's expires_at
  Busy,        \* how long mark_busy lasts
  Unstartable, \* sessions whose agent can be neither reached nor spawned
  MaxRestarts  \* bound on the restarts of the process

ASSUME SessionAssumption ==
  /\ Patience \in Nat \ {0} /\ Grace1 \in Nat /\ Grace2 \in Nat
  /\ Ttl \in Nat \ {0} /\ Busy \in Nat \ {0, 1}
  /\ Unstartable \subseteq Session
  /\ MaxRestarts \in Nat

VARIABLES
  token,       \* the status of the session's row in system_tokens
  beat,        \* the age of its heartbeat_at
  age,         \* the age of its issued_at
  projects,    \* sessions whose file access is initialized, with a watchdog
  busy,        \* ticks until busy_until, in the session's own watchdog
  hearts,      \* heartbeat_cancellations: keys of running heartbeat tasks
  beaten,      \* sessions whose heartbeat task has run in this tick
  grace,       \* timeout_states of each watchdog
  checked,     \* sessions whose watchdog has run in this tick
  reclaim,     \* tokens each watchdog has decided to expire
  launch,      \* how far launch_agent is
  record,      \* running_agents: the status of the session's entry
  process,     \* the agent's own process
  result,      \* sessions whose result file exists
  slot,        \* sessions whose watcher waits for the file monitor
  watcher,     \* the watcher left behind by the launch
  event,       \* the event it published
  clearing,    \* sessions clear_stale_agents has removed and not cleaned up
  restarts

tokenVars == <<token, beat, age>>
dogVars == <<projects, busy, grace, checked, reclaim>>
heartVars == <<hearts, beaten>>
agentVars == <<record, process, result, slot, watcher, event, clearing>>
vars == <<tokenVars, dogVars, heartVars, launch, agentVars, restarts>>

-----------------------------------------------------------------------------
Older(n, limit) == IF n > limit THEN n ELSE n + 1
\* The age of a heartbeat at which a token has no grace left.
Lapse == Patience + Grace1 + Grace2
Late(s) == beat[s] > Patience
Dead(s) == age[s] > Ttl

\* The registry of heartbeat tasks is keyed by session id; the agent id is
\* another string.
SessionKey(s) == <<"session", s>>
AgentKey(s) == <<"agent", s>>
HasHeart(s) == SessionKey(s) \in hearts

NoGrace == [state |-> "normal", since |-> 0]
NoWatcher == [pc |-> "none", reused |-> FALSE, found |-> FALSE]

Init ==
  /\ token = [s \in Session |-> "none"]
  /\ beat = [s \in Session |-> 0]
  /\ age = [s \in Session |-> 0]
  /\ projects = {}
  /\ busy = [s \in Session |-> 0]
  /\ hearts = {}
  /\ beaten = {}
  /\ grace = [p \in Session |-> [s \in Session |-> NoGrace]]
  /\ checked = {}
  /\ reclaim = [p \in Session |-> {}]
  /\ launch = [s \in Session |-> "idle"]
  /\ record = [s \in Session |-> "none"]
  /\ process = [s \in Session |-> "none"]
  /\ result = {}
  /\ slot = {}
  /\ watcher = [s \in Session |-> NoWatcher]
  /\ event = [s \in Session |-> "none"]
  /\ clearing = {}
  /\ restarts = 0

-----------------------------------------------------------------------------
\* AgentLauncher::launch_agent

\* init_file_access and register_system_token.  The insert fails when the
\* session ever had a token: session_id is unique, and no row is deleted.
Launch(s) ==
  /\ launch[s] = "idle"
  /\ projects' = projects \cup {s}
  /\ IF token[s] = "none"
     THEN /\ token' = [token EXCEPT ![s] = "ACTIVE"]
          /\ beat' = [beat EXCEPT ![s] = 0]
          /\ age' = [age EXCEPT ![s] = 0]
          /\ launch' = [launch EXCEPT ![s] = "registered"]
     ELSE /\ launch' = [launch EXCEPT ![s] = "failed"]
          /\ UNCHANGED tokenVars
  /\ UNCHANGED <<busy, grace, checked, reclaim, heartVars, agentVars, restarts>>

\* mark_busy and update_heartbeat.
MarkBusy(s) ==
  /\ launch[s] = "registered"
  /\ busy' = [busy EXCEPT ![s] = Busy]
  /\ beat' = [beat EXCEPT ![s] = 0]
  /\ launch' = [launch EXCEPT ![s] = "busy"]
  /\ UNCHANGED <<token, age, projects, grace, checked, reclaim, heartVars, agentVars, restarts>>

StartHeartbeat(s) ==
  /\ launch[s] = "busy"
  /\ hearts' = hearts \cup {SessionKey(s)}
  /\ beaten' = beaten \cup {s}       \* the interval's first tick is skipped
  /\ launch' = [launch EXCEPT ![s] = "prepare"]
  /\ UNCHANGED <<tokenVars, dogVars, agentVars, restarts>>

\* A path, a copy or a write fails, or the agent is neither found nor started:
\* the token and the heartbeat stay behind.
LaunchFails(s) ==
  /\ launch[s] = "prepare"
  /\ launch' = [launch EXCEPT ![s] = "failed"]
  /\ UNCHANGED <<tokenVars, dogVars, heartVars, agentVars, restarts>>

\* The instruction goes to an agent that is registered and alive, or a new one
\* is spawned with it; then the watcher is spawned.  It looks for the result
\* file's path in the record, which is inserted after it: its polling never
\* has a path to look at.
StartAgent(s, reused) ==
  /\ launch[s] = "prepare" /\ s \notin Unstartable
  /\ launch' = [launch EXCEPT ![s] = "started"]
  /\ process' = [process EXCEPT ![s] = "alive"]
  /\ watcher' = [watcher EXCEPT ![s] =
                   [pc |-> "registering", reused |-> reused, found |-> FALSE]]
  /\ UNCHANGED <<tokenVars, dogVars, heartVars, record, result, slot, event, clearing,
                 restarts>>

InsertRecord(s) ==
  /\ launch[s] = "started"
  /\ launch' = [launch EXCEPT ![s] = "done"]
  /\ record' = [record EXCEPT ![s] = "Running"]
  /\ UNCHANGED <<tokenVars, dogVars, heartVars, process, result, slot, watcher, event,
                 clearing, restarts>>

-----------------------------------------------------------------------------
\* The agent

\* It writes its result file.  The monitor tells the watcher that waits, unless
\* the file is renamed into place, which is not seen.
WriteResult(s) ==
  /\ process[s] = "alive" /\ s \notin result
  /\ result' = result \cup {s}
  /\ \/ UNCHANGED <<slot, watcher>>
     \/ /\ s \in slot
        /\ slot' = slot \ {s}
        /\ watcher' = [watcher EXCEPT ![s].pc = "triggered"]
  /\ UNCHANGED <<tokenVars, dogVars, heartVars, launch, record, process, event, clearing,
                 restarts>>

Exit(s) ==
  /\ process[s] = "alive"
  /\ process' = [process EXCEPT ![s] = "exited"]
  /\ UNCHANGED <<tokenVars, dogVars, heartVars, launch, record, result, slot, watcher,
                 event, clearing, restarts>>

-----------------------------------------------------------------------------
\* The watchers of spawn_agent_session and spawn_result_file_watcher

RegisterSlot(s) ==
  /\ watcher[s].pc = "registering"
  /\ watcher' = [watcher EXCEPT ![s].pc = "watching"]
  /\ slot' = slot \cup {s}
  /\ UNCHANGED <<tokenVars, dogVars, heartVars, launch, record, process, result, event,
                 clearing, restarts>>

\* Without fanotify the monitor's receiver ends at once, and the branch that
\* wins drops the others, the process and the cap among them, for a loop that
\* polls the path the watcher does not have; unless the process has gone before.
PollForEver(s) ==
  /\ watcher[s].pc = "registering"
  /\ \E pc \in {"polling"} \cup {p \in {"triggered"} : process[s] = "exited"
                                                     /\ ~watcher[s].reused} :
        watcher' = [watcher EXCEPT ![s].pc = pc]
  /\ UNCHANGED <<tokenVars, dogVars, heartVars, launch, record, process, result, slot, event,
                 clearing, restarts>>

\* The process of a spawned agent is waited for, not that of a reused one.
SeeExit(s) ==
  /\ watcher[s].pc = "watching" /\ ~watcher[s].reused
  /\ process[s] = "exited"
  /\ watcher' = [watcher EXCEPT ![s].pc = "triggered"]
  /\ slot' = slot \ {s}
  /\ UNCHANGED <<tokenVars, dogVars, heartVars, launch, record, process, result, event,
                 clearing, restarts>>

\* Mutated form of WatchTimeout: only the watcher of a spawned agent has a cap.
WatchTimeoutSpawned(s) ==
  /\ watcher[s].pc = "watching" /\ ~watcher[s].reused
  /\ watcher' = [watcher EXCEPT ![s].pc = "triggered"]
  /\ slot' = slot \ {s}
  /\ process' = [process EXCEPT ![s] = "exited"]
  /\ UNCHANGED <<tokenVars, dogVars, heartVars, launch, record, result, event, clearing,
                 restarts>>

\* The hard cap on the runtime; it stops the agent if it was spawned.
WatchTimeout(s) ==
  /\ watcher[s].pc = "watching"
  /\ watcher' = [watcher EXCEPT ![s].pc = "triggered"]
  /\ slot' = slot \ {s}
  /\ process' = IF watcher[s].reused THEN process
                ELSE [process EXCEPT ![s] = "exited"]
  /\ UNCHANGED <<tokenVars, dogVars, heartVars, launch, record, result, event, clearing,
                 restarts>>

\* Mutated form of LookUp: the path is known without the record.
LookUpFile(s) ==
  /\ watcher[s].pc = "triggered"
  /\ watcher' = [watcher EXCEPT ![s].pc = "publish", ![s].found = s \in result]
  /\ UNCHANGED <<tokenVars, dogVars, heartVars, launch, record, process, result, slot,
                 event, clearing, restarts>>

\* Success is a result file at the path the record gives.
LookUp(s) ==
  /\ watcher[s].pc = "triggered"
  /\ watcher' = [watcher EXCEPT ![s].pc = "publish",
                                ![s].found = record[s] # "none" /\ s \in result]
  /\ UNCHANGED <<tokenVars, dogVars, heartVars, launch, record, process, result, slot,
                 event, clearing, restarts>>

\* AgentSessionStatus::transition_to returns the new status; the watcher of a
\* reused agent does not store it.
Verdict(s) == IF watcher[s].found THEN "Completed" ELSE "Failed"

Publish(s) ==
  /\ watcher[s].pc = "publish"
  /\ record' = IF record[s] = "Running" /\ ~watcher[s].reused
               THEN [record EXCEPT ![s] = Verdict(s)] ELSE record
  /\ event' = [event EXCEPT ![s] = Verdict(s)]
  /\ watcher' = [watcher EXCEPT ![s].pc = "ended"]
  /\ UNCHANGED <<tokenVars, dogVars, heartVars, launch, process, result, slot, clearing,
                 restarts>>

-----------------------------------------------------------------------------
\* clear_stale_agents, at the start of the next DAG

ClearStale ==
  LET stale == {s \in Session : record[s] \in {"Completed", "Failed"}} IN
  /\ stale # {}
  /\ record' = [s \in Session |-> IF s \in stale THEN "none" ELSE record[s]]
  /\ clearing' = clearing \cup stale
  /\ UNCHANGED <<tokenVars, dogVars, heartVars, launch, process, result, slot, watcher,
                 event, restarts>>

\* cancel_heartbeat is called with the agent id.  expire_token is called with
\* the id of a file token that was never stored, and finds no row.
CleanUp(s) ==
  /\ s \in clearing
  /\ clearing' = clearing \ {s}
  /\ hearts' = hearts \ {AgentKey(s)}
  /\ UNCHANGED beaten
  /\ process' = IF watcher[s].reused THEN process
                ELSE [process EXCEPT ![s] = "exited"]
  /\ busy' = [busy EXCEPT ![s] = 0]
  /\ UNCHANGED <<tokenVars, projects, grace, checked, reclaim, launch, record, result, slot,
                 watcher, event, restarts>>

-----------------------------------------------------------------------------
\* The heartbeat task

\* Mutated form of Heartbeat: the database is not told.
HeartbeatInMemory(s) ==
  /\ HasHeart(s) /\ s \notin beaten
  /\ beaten' = beaten \cup {s}
  /\ busy' = [busy EXCEPT ![s] = Busy]
  /\ UNCHANGED <<tokenVars, projects, grace, checked, reclaim, hearts, launch, agentVars, restarts>>

Heartbeat(s) ==
  /\ HasHeart(s) /\ s \notin beaten
  /\ beaten' = beaten \cup {s}
  /\ beat' = [beat EXCEPT ![s] = 0]
  /\ busy' = [busy EXCEPT ![s] = Busy]
  /\ UNCHANGED <<token, age, projects, grace, checked, reclaim, hearts, launch, agentVars, restarts>>

-----------------------------------------------------------------------------
\* Watchdog::check_tokens

\* Phases 1 and 2.  A busy session is passed over before anything else.
Spared(p, s) == s = p /\ busy[s] > 0

NextGrace(p, s) ==
  LET g == grace[p][s] IN
  IF Spared(p, s) \/ Dead(s) \/ ~Late(s) THEN NoGrace
  ELSE CASE g.state = "normal" -> [state |-> "grace1", since |-> 0]
         [] g.state = "grace1" /\ g.since > Grace1 -> [state |-> "grace2", since |-> 0]
         [] g.state = "grace2" /\ g.since > Grace2 -> NoGrace
         [] OTHER -> g

OutOfGrace(p, s) ==
  Late(s) /\ grace[p][s].state = "grace2" /\ grace[p][s].since > Grace2

\* Mutated form of Reclaimed: the hard TTL comes before the busy status.
ReclaimedAtTtl(p, s) == Dead(s) \/ (OutOfGrace(p, s) /\ ~Spared(p, s))

Reclaimed(p, s) == ~Spared(p, s) /\ (Dead(s) \/ OutOfGrace(p, s))

\* Mutated form of ActiveTokens: the watchdog's own session only.
ActiveToken(p) == {s \in {p} : token[s] = "ACTIVE"}

\* get_active_tokens: of every session in the database.
ActiveTokens(p) == {s \in Session : token[s] = "ACTIVE"}

\* The query and the two phases are one step: a heartbeat or a mark_busy that
\* comes between makes the decision no staler than it is in phase 3 anyway.
Check(p) ==
  /\ p \in projects /\ p \notin checked
  /\ checked' = checked \cup {p}
  /\ grace' = [grace EXCEPT ![p] = [s \in Session |->
                 IF s \in ActiveTokens(p) THEN NextGrace(p, s) ELSE grace[p][s]]]
  /\ reclaim' = [reclaim EXCEPT ![p] = {s \in ActiveTokens(p) : Reclaimed(p, s)}]
  /\ UNCHANGED <<tokenVars, projects, busy, heartVars, launch, agentVars, restarts>>

\* Phase 3, with nothing held.  No file token is stored, so there is no lock
\* to release; the token expires whatever has happened to it since.
Reclaim(p, s) ==
  /\ s \in reclaim[p]
  /\ token' = [token EXCEPT ![s] = "EXPIRED"]
  /\ reclaim' = [reclaim EXCEPT ![p] = @ \ {s}]
  /\ UNCHANGED <<beat, age, projects, busy, grace, checked, heartVars, launch, agentVars,
                 restarts>>

-----------------------------------------------------------------------------
\* Time and restarts

Tick ==
  /\ \A s \in Session : launch[s] \notin {"registered", "busy"}
  /\ \A s \in Session : HasHeart(s) => s \in beaten
  /\ beaten' = {}
  /\ checked = projects /\ \A p \in Session : reclaim[p] = {}
  /\ checked' = {}
  /\ beat' = [s \in Session |-> IF token[s] # "ACTIVE" THEN 0 ELSE Older(beat[s], Lapse)]
  /\ age' = [s \in Session |-> IF token[s] # "ACTIVE" THEN 0 ELSE Older(age[s], Ttl)]
  /\ busy' = [s \in Session |-> IF busy[s] = 0 THEN 0 ELSE busy[s] - 1]
  /\ grace' = [p \in Session |-> [s \in Session |->
                 IF grace[p][s].state = "normal" THEN NoGrace
                 ELSE [grace[p][s] EXCEPT !.since =
                         Older(@, IF grace[p][s].state = "grace1" THEN Grace1 ELSE Grace2)]]]
  /\ UNCHANGED <<token, projects, reclaim, hearts, launch, agentVars, restarts>>

\* What is left is the database.  The result files are there too, but only
\* a session's own watcher reads them, and no session is started again.
Restart ==
  /\ restarts < MaxRestarts
  /\ restarts' = restarts + 1
  /\ projects' = {}
  /\ busy' = [s \in Session |-> 0]
  /\ hearts' = {}
  /\ beaten' = {}
  /\ grace' = [p \in Session |-> [s \in Session |-> NoGrace]]
  /\ checked' = {}
  /\ reclaim' = [p \in Session |-> {}]
  /\ launch' = [s \in Session |-> "idle"]
  /\ record' = [s \in Session |-> "none"]
  /\ process' = [s \in Session |-> "none"]
  /\ result' = {}
  /\ slot' = {}
  /\ watcher' = [s \in Session |-> NoWatcher]
  /\ event' = [s \in Session |-> "none"]
  /\ clearing' = {}
  /\ UNCHANGED tokenVars

-----------------------------------------------------------------------------
LaunchStep(s) ==
  \/ MarkBusy(s) \/ StartHeartbeat(s) \/ LaunchFails(s)
  \/ StartAgent(s, TRUE) \/ StartAgent(s, FALSE) \/ InsertRecord(s)

WatcherStep(s) ==
  \/ RegisterSlot(s) \/ PollForEver(s) \/ SeeExit(s) \/ WatchTimeout(s) \/ LookUp(s) \/ Publish(s)

CheckStep(p) == Check(p) \/ \E s \in Session : Reclaim(p, s)

Next ==
  \/ \E s \in Session :
       \/ Launch(s) \/ LaunchStep(s) \/ WatcherStep(s) \/ CheckStep(s)
       \/ WriteResult(s) \/ Exit(s) \/ CleanUp(s) \/ Heartbeat(s)
  \/ ClearStale \/ Tick \/ Restart

Spec == Init /\ [][Next]_vars

\* What tokio runs is run: the steps of a launch, of a watcher, of a check, the
\* heartbeats, and time.  The agents, the restarts, and the next launch, which
\* is when stale agents are cleared, are not bound to come.
FairSpec ==
  /\ Spec /\ WF_vars(Tick)
  /\ \A s \in Session : /\ WF_vars(LaunchStep(s)) /\ WF_vars(WatcherStep(s))
                        /\ WF_vars(CheckStep(s)) /\ WF_vars(Heartbeat(s))
-----------------------------------------------------------------------------
TypeOK ==
  /\ token \in [Session -> {"none", "ACTIVE", "EXPIRED"}]
  /\ beat \in [Session -> 0..(Lapse + 1)]
  /\ age \in [Session -> 0..(Ttl + 1)]
  /\ projects \subseteq Session
  /\ busy \in [Session -> 0..Busy]
  /\ hearts \subseteq {SessionKey(s) : s \in projects}
  /\ beaten \subseteq projects
  /\ grace \in [Session -> [Session -> [state : {"normal", "grace1", "grace2"}, since : Nat]]]
  /\ checked \subseteq projects
  /\ reclaim \in [Session -> SUBSET Session]
  /\ launch \in [Session -> {"idle", "registered", "busy", "prepare", "started",
                             "done", "failed"}]
  /\ record \in [Session -> {"none", "Running", "Completed", "Failed"}]
  /\ process \in [Session -> {"none", "alive", "exited"}]
  /\ result \subseteq Session
  /\ slot \subseteq {s \in Session : watcher[s].pc = "watching"}
  /\ watcher \in [Session -> [pc : {"none", "registering", "watching", "polling",
                                   "triggered", "publish", "ended"},
                              reused : BOOLEAN, found : BOOLEAN]]
  /\ event \in [Session -> {"none", "Completed", "Failed"}]
  /\ clearing \subseteq Session
  /\ restarts \in 0..MaxRestarts

\* A token is taken from its session by the hard TTL, or when no heartbeat task
\* runs for it and its last heartbeat is older than the timeout and both
\* periods of grace together; whichever watchdog does it, and although it acts
\* on what it read before.  A task that beats keeps its token in the eyes of
\* the other watchdogs, which know nothing of busy sessions.
LegalExpiry ==
  \A s \in Session :
    token[s] = "ACTIVE" /\ token'[s] = "EXPIRED"
      => Dead(s) \/ (~HasHeart(s) /\ beat[s] > Lapse)

TokenExpiry == [][LegalExpiry]_vars

\* "The watchdog will not reclaim locks until busy_until": while the launcher
\* has the session as running, its own watchdog never decides against it, not
\* even when the token is past its TTL.
BusyIsSpared ==
  \A s \in Session : record[s] = "Running" => s \notin reclaim[s]

\* What the launcher's registry says of a spawned agent is what was published
\* of its node, although the watcher may look before the record is there.
RegistryAgrees ==
  \A s \in Session :
    watcher[s].pc = "ended" /\ ~watcher[s].reused /\ record[s] # "none"
      => IF event[s] = "Completed" THEN record[s] = "Completed"
         ELSE record[s] \in {"Failed", "Running"}

\* The token of a session whose process has gone is expired in the end by the
\* watchdog of another session, if there is one.
OrphansReclaimed ==
  \A s \in Session :
    (token[s] = "ACTIVE" /\ ~HasHeart(s) /\ projects # {})
      ~> (token[s] = "EXPIRED" \/ HasHeart(s) \/ projects = {})

\* A session that was started comes to an event for its node, whether its agent
\* writes, exits or does nothing at all, and whether it was spawned or reused;
\* all but those whose watcher fell back to polling.
EveryWatcherEnds ==
  \A s \in Session \ Unstartable :
    watcher[s].pc = "registering" ~> watcher[s].pc \in {"ended", "none", "polling"}
=============================================================================
