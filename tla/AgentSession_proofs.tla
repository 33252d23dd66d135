------------------------ MODULE AgentSession_proofs ------------------------
(***************************************************************************)
(* Proofs about AgentSession, for any number of sessions and any TTL,      *)
(* patience and periods of grace: type correctness, what the registry says *)
(* of an ended session, who is spared by its watchdog, and for what        *)
(* reasons a token may be taken.                                           *)
(***************************************************************************)
EXTENDS AgentSession, TLAPS

-----------------------------------------------------------------------------
(***************************************************************************)
(* Type correctness, by groups of variables.  A session that is not        *)
(* started has no watcher, and one that is launched has file access.       *)
(***************************************************************************)
Watchers ==
  [pc : {"none", "registering", "watching", "polling", "triggered", "publish", "ended"},
   reused : BOOLEAN, found : BOOLEAN]

Graces == [state : {"normal", "grace1", "grace2"}, since : Nat]

Launches == {"idle", "registered", "busy", "prepare", "started", "done", "failed"}

TokensOK ==
  /\ token \in [Session -> {"none", "ACTIVE", "EXPIRED"}]
  /\ beat \in [Session -> 0..(Lapse + 1)]
  /\ age \in [Session -> 0..(Ttl + 1)]

DogsOK ==
  /\ projects \subseteq Session
  /\ busy \in [Session -> 0..Busy]
  /\ grace \in [Session -> [Session -> Graces]]
  /\ checked \subseteq projects
  /\ reclaim \in [Session -> SUBSET Session]

HeartsOK ==
  /\ hearts \subseteq {SessionKey(s) : s \in projects}
  /\ beaten \subseteq projects

AgentsOK ==
  /\ record \in [Session -> {"none", "Running", "Completed", "Failed"}]
  /\ process \in [Session -> {"none", "alive", "exited"}]
  /\ result \subseteq Session
  /\ slot \subseteq {s \in Session : watcher[s].pc = "watching"}
  /\ watcher \in [Session -> Watchers]
  /\ event \in [Session -> {"none", "Completed", "Failed"}]
  /\ clearing \subseteq Session

Unstarted == {"idle", "registered", "busy", "prepare", "failed"}

LaunchOK ==
  /\ launch \in [Session -> Launches]
  /\ \A s \in Session : /\ launch[s] # "idle" => s \in projects
                        /\ launch[s] \in Unstarted => watcher[s].pc = "none"

RestartsOK == restarts \in 0..MaxRestarts

TypeInv == TokensOK /\ DogsOK /\ HeartsOK /\ AgentsOK /\ LaunchOK /\ RestartsOK

LEMMA TypeInvTypes == TypeInv => TypeOK
BY DEF TypeInv, TypeOK, TokensOK, DogsOK, HeartsOK, AgentsOK, LaunchOK, RestartsOK,
       Watchers, Graces, Launches

\* An age grows up to one more than its limit.
LEMMA OlderType ==
  ASSUME NEW limit \in Nat, NEW n \in 0..(limit + 1)
  PROVE  /\ Older(n, limit) \in 0..(limit + 1)
         /\ Older(n, limit) >= n
         /\ n <= limit => Older(n, limit) = n + 1
BY DEF Older

LEMMA LimitsType ==
  /\ Lapse \in Nat /\ Ttl \in Nat /\ Grace1 \in Nat /\ Grace2 \in Nat /\ Patience \in Nat
  /\ Lapse = Patience + Grace1 + Grace2
  /\ Patience >= 1 /\ Ttl >= 1 /\ Busy \in Nat /\ Busy >= 2
BY SessionAssumption DEF Lapse

\* Sessions have keys of their own.
LEMMA KeysDiffer ==
  ASSUME HeartsOK, NEW s \in Session
  PROVE  HasHeart(s) => s \in projects
BY DEF HasHeart, HeartsOK, SessionKey

\* What a step leaves alone keeps its type.
LEMMA TypeKept ==
  ASSUME TypeInv
  PROVE  /\ UNCHANGED tokenVars => TokensOK'
         /\ UNCHANGED dogVars => DogsOK'
         /\ UNCHANGED <<heartVars, projects>> => HeartsOK'
         /\ UNCHANGED agentVars => AgentsOK'
         /\ UNCHANGED <<launch, watcher, projects>> => LaunchOK'
         /\ UNCHANGED restarts => RestartsOK'
BY DEF TypeInv, TokensOK, DogsOK, HeartsOK, AgentsOK, LaunchOK, RestartsOK, tokenVars,
       dogVars, heartVars, agentVars

\* The launch of a session.
LEMMA TypeOfLaunch ==
  ASSUME TypeInv, NEW s \in Session, Launch(s) \/ LaunchStep(s)
  PROVE  TypeInv'
<1> USE DEF TypeInv
<1>1. CASE Launch(s)
  <2>1. TokensOK'
    BY <1>1, LimitsType DEF Launch, TokensOK, tokenVars
  <2>2. LaunchOK'
    BY <1>1 DEF Launch, LaunchOK, agentVars, Launches, Unstarted
  <2>3. DogsOK' /\ HeartsOK'
    BY <1>1 DEF Launch, DogsOK, HeartsOK, heartVars
  <2>4. QED
    BY <1>1, <2>1, <2>2, <2>3, TypeKept DEF Launch
<1>2. CASE MarkBusy(s)
  <2>1. TokensOK' /\ DogsOK' /\ LaunchOK'
    BY <1>2, LimitsType DEF MarkBusy, TokensOK, DogsOK, LaunchOK, agentVars, Launches, Unstarted
  <2>2. QED
    BY <1>2, <2>1, TypeKept DEF MarkBusy
<1>3. CASE StartHeartbeat(s)
  <2>1. HeartsOK' /\ LaunchOK'
    BY <1>3 DEF StartHeartbeat, HeartsOK, LaunchOK, agentVars, dogVars, Launches, Unstarted
  <2>2. QED
    BY <1>3, <2>1, TypeKept DEF StartHeartbeat
<1>4. CASE LaunchFails(s)
  <2>1. LaunchOK' /\ UNCHANGED projects
    BY <1>4 DEF LaunchFails, LaunchOK, agentVars, dogVars, Launches, Unstarted
  <2>2. QED
    BY <1>4, <2>1, TypeKept DEF LaunchFails
<1>5. ASSUME NEW reused \in BOOLEAN, StartAgent(s, reused) PROVE TypeInv'
  <2>1. LaunchOK' /\ UNCHANGED projects
    BY <1>5 DEF StartAgent, LaunchOK, AgentsOK, dogVars, Launches, Unstarted
  <2>2. watcher[s].pc = "none" /\ s \notin slot
    BY <1>5 DEF StartAgent, LaunchOK, AgentsOK, Unstarted
  <2>3. AgentsOK'
    BY <1>5, <2>2 DEF StartAgent, AgentsOK, Watchers
  <2>4. QED
    BY <1>5, <2>1, <2>3, TypeKept DEF StartAgent
<1>6. CASE InsertRecord(s)
  <2>1. LaunchOK' /\ AgentsOK' /\ UNCHANGED projects
    BY <1>6 DEF InsertRecord, LaunchOK, AgentsOK, dogVars, Launches, Unstarted
  <2>2. QED
    BY <1>6, <2>1, TypeKept DEF InsertRecord
<1>7. QED
  BY <1>1, <1>2, <1>3, <1>4, <1>5, <1>6 DEF LaunchStep

\* A watcher that was spawned moves, and waits at the monitor or not.
LEMMA WatcherMoves ==
  ASSUME TypeInv, NEW s \in Session, NEW w \in Watchers,
         watcher' = [watcher EXCEPT ![s] = w], watcher[s].pc # "none",
         UNCHANGED <<launch, projects, clearing, result>>,
         slot' \subseteq (slot \ {s}) \cup {x \in {s} : w.pc = "watching"},
         record' \in [Session -> {"none", "Running", "Completed", "Failed"}],
         process' \in [Session -> {"none", "alive", "exited"}],
         event' \in [Session -> {"none", "Completed", "Failed"}]
  PROVE  AgentsOK' /\ LaunchOK'
<1>1. /\ watcher' \in [Session -> Watchers] /\ watcher'[s] = w
      /\ \A x \in Session \ {s} : watcher'[x] = watcher[x]
  BY DEF TypeInv, AgentsOK
<1>2. slot' \subseteq {x \in Session : watcher'[x].pc = "watching"}
  BY <1>1 DEF TypeInv, AgentsOK
<1>3. AgentsOK'
  BY <1>1, <1>2 DEF TypeInv, AgentsOK
<1>4. launch[s] \notin Unstarted
  BY DEF TypeInv, LaunchOK
<1>5. LaunchOK'
  BY <1>1, <1>4 DEF TypeInv, LaunchOK
<1>6. QED
  BY <1>3, <1>5

\* The agent and the watcher.
LEMMA TypeOfWatcher ==
  ASSUME TypeInv, NEW s \in Session,
         WriteResult(s) \/ Exit(s) \/ WatcherStep(s) \/ CleanUp(s)
  PROVE  TypeInv'
<1> USE DEF TypeInv
<1> DEFINE At(pc) == [watcher[s] EXCEPT !.pc = pc]
           Seen(found) == [watcher[s] EXCEPT !.pc = "publish", !.found = found]
<1>1. /\ \A pc \in {"watching", "polling", "triggered", "ended"} :
            At(pc) \in Watchers /\ At(pc).pc = pc
      /\ \A found \in BOOLEAN : Seen(found) \in Watchers /\ Seen(found).pc = "publish"
  BY DEF AgentsOK, Watchers
<1>2. slot = (slot \ {s}) \cup {x \in {s} : s \in slot}
  OBVIOUS
<1> HIDE DEF At, Seen
<1>3. CASE WriteResult(s)
  <2>1. AgentsOK' /\ LaunchOK'
    <3>1. CASE UNCHANGED <<slot, watcher>>
      BY <1>3, <3>1 DEF WriteResult, AgentsOK, LaunchOK, dogVars
    <3>2. CASE s \in slot /\ slot' = slot \ {s} /\ watcher' = [watcher EXCEPT ![s] = At("triggered")]
      <4>1. /\ watcher[s].pc = "watching" /\ result' \subseteq Session
            /\ UNCHANGED <<launch, projects, clearing, record, process, event>>
        BY <1>3, <3>2 DEF WriteResult, AgentsOK, dogVars
      <4>2. /\ watcher' \in [Session -> Watchers] /\ watcher'[s].pc = "triggered"
            /\ \A x \in Session \ {s} : watcher'[x] = watcher[x]
        BY <1>1, <3>2 DEF AgentsOK
      <4>3. AgentsOK'
        BY <3>2, <4>1, <4>2 DEF AgentsOK
      <4>4. LaunchOK'
        BY <4>1, <4>2 DEF LaunchOK
      <4>5. QED
        BY <4>3, <4>4
    <3>3. QED
      BY <1>3, <3>1, <3>2 DEF WriteResult, At
  <2>2. QED
    BY <1>3, <2>1, TypeKept DEF WriteResult, dogVars
<1>4. CASE Exit(s)
  <2>1. AgentsOK' /\ UNCHANGED <<projects, watcher>>
    BY <1>4 DEF Exit, AgentsOK, dogVars
  <2>2. QED
    BY <1>4, <2>1, TypeKept DEF Exit
<1>5. CASE WatcherStep(s)
  <2>1. watcher[s].pc # "none" /\ UNCHANGED <<launch, projects, clearing, result>>
    BY <1>5
       DEF WatcherStep, RegisterSlot, PollForEver, SeeExit, WatchTimeout, LookUp, Publish, dogVars
  <2>2. UNCHANGED <<tokenVars, dogVars, heartVars, restarts>>
    BY <1>5
       DEF WatcherStep, RegisterSlot, PollForEver, SeeExit, WatchTimeout, LookUp, Publish
  <2>3. /\ record' \in [Session -> {"none", "Running", "Completed", "Failed"}]
        /\ process' \in [Session -> {"none", "alive", "exited"}]
        /\ event' \in [Session -> {"none", "Completed", "Failed"}]
    BY <1>5
       DEF WatcherStep, RegisterSlot, PollForEver, SeeExit, WatchTimeout, LookUp, Publish,
           Verdict, AgentsOK
  <2>4. PICK w \in Watchers :
             /\ watcher' = [watcher EXCEPT ![s] = w]
             /\ slot' \subseteq (slot \ {s}) \cup {x \in {s} : w.pc = "watching"}
    <3>1. watcher[s].pc # "watching" => s \notin slot
      BY DEF AgentsOK
    <3>2. CASE RegisterSlot(s)
      <4>1. watcher' = [watcher EXCEPT ![s] = At("watching")] /\ slot' = slot \cup {s}
        BY <3>2 DEF RegisterSlot, At
      <4>2. QED
        BY <1>1, <4>1
    <3>3. CASE PollForEver(s)
      <4>1. PICK pc \in {"polling", "triggered"} : watcher' = [watcher EXCEPT ![s] = At(pc)]
        BY <3>3 DEF PollForEver, At
      <4>2. slot' = slot /\ s \notin slot
        BY <3>1, <3>3 DEF PollForEver
      <4>3. QED
        BY <1>1, <4>1, <4>2
    <3>4. CASE SeeExit(s) \/ WatchTimeout(s)
      <4>1. watcher' = [watcher EXCEPT ![s] = At("triggered")] /\ slot' = slot \ {s}
        BY <3>4 DEF SeeExit, WatchTimeout, At
      <4>2. QED
        BY <1>1, <4>1
    <3>5. CASE LookUp(s) \/ Publish(s)
      <4>1. /\ slot' = slot /\ s \notin slot
            /\ \/ watcher' = [watcher EXCEPT ![s] = Seen(record[s] # "none" /\ s \in result)]
               \/ watcher' = [watcher EXCEPT ![s] = At("ended")]
        BY <3>1, <3>5 DEF LookUp, Publish, At, Seen
      <4>2. QED
        BY <1>1, <4>1
    <3>6. QED
      BY <1>5, <3>2, <3>3, <3>4, <3>5 DEF WatcherStep
  <2>5. AgentsOK' /\ LaunchOK'
    BY <2>1, <2>3, <2>4, WatcherMoves
  <2>6. QED
    BY <2>1, <2>2, <2>5, TypeKept DEF dogVars
<1>6. CASE CleanUp(s)
  <2>1. AgentsOK' /\ DogsOK' /\ HeartsOK' /\ UNCHANGED watcher
    BY <1>6, LimitsType DEF CleanUp, AgentsOK, DogsOK, HeartsOK
  <2>2. QED
    BY <1>6, <2>1, TypeKept DEF CleanUp
<1>7. QED
  BY <1>3, <1>4, <1>5, <1>6

\* A watchdog yields a grace state.
LEMMA NextGraceType ==
  ASSUME TypeInv, NEW p \in Session, NEW s \in Session
  PROVE  NextGrace(p, s) \in Graces
BY DEF NextGrace, NoGrace, Graces, TypeInv, DogsOK

\* Heartbeats, watchdogs, time and restarts.
LEMMA TypeOfRest ==
  ASSUME TypeInv, (\E s \in Session : Heartbeat(s) \/ CheckStep(s)) \/ ClearStale \/ Tick \/ Restart
  PROVE  TypeInv'
<1> USE DEF TypeInv
<1>1. ASSUME NEW s \in Session, Heartbeat(s) PROVE TypeInv'
  <2>1. TokensOK' /\ DogsOK' /\ HeartsOK' /\ UNCHANGED <<watcher, projects>>
    BY <1>1, KeysDiffer, LimitsType DEF Heartbeat, TokensOK, DogsOK, HeartsOK, agentVars
  <2>2. QED
    BY <1>1, <2>1, TypeKept DEF Heartbeat
<1>2. ASSUME NEW p \in Session, Check(p) PROVE TypeInv'
  <2>1. DogsOK' /\ UNCHANGED <<watcher, projects>>
    BY <1>2, NextGraceType DEF Check, DogsOK, ActiveTokens, agentVars
  <2>2. QED
    BY <1>2, <2>1, TypeKept DEF Check
<1>3. ASSUME NEW p \in Session, NEW s \in Session, Reclaim(p, s) PROVE TypeInv'
  <2>1. TokensOK' /\ DogsOK' /\ UNCHANGED <<watcher, projects>>
    BY <1>3 DEF Reclaim, TokensOK, DogsOK, agentVars
  <2>2. QED
    BY <1>3, <2>1, TypeKept DEF Reclaim
<1>4. CASE Tick
  <2>1. TokensOK'
    BY <1>4, OlderType, LimitsType DEF Tick, TokensOK
  <2>2. grace' \in [Session -> [Session -> Graces]]
    <3> DEFINE Aged(g) == IF g.state = "normal" THEN NoGrace
                          ELSE [g EXCEPT !.since =
                                  Older(@, IF g.state = "grace1" THEN Grace1 ELSE Grace2)]
    <3>1. \A g \in Graces : Aged(g) \in Graces
      BY LimitsType DEF Graces, NoGrace, Older
    <3>2. grace' = [p \in Session |-> [s \in Session |-> Aged(grace[p][s])]]
      BY <1>4 DEF Tick
    <3> HIDE DEF Aged
    <3>3. QED
      BY <3>1, <3>2 DEF DogsOK
  <2>3. busy' \in [Session -> 0..Busy]
    <3>1. busy' = [s \in Session |-> IF busy[s] = 0 THEN 0 ELSE busy[s] - 1]
      BY <1>4 DEF Tick
    <3>2. busy \in [Session -> 0..Busy]
      BY DEF DogsOK
    <3>3. QED
      BY <3>1, <3>2, LimitsType
  <2>4. DogsOK' /\ HeartsOK' /\ UNCHANGED <<watcher, projects>>
    BY <1>4, <2>2, <2>3 DEF Tick, DogsOK, HeartsOK, agentVars
  <2>5. QED
    BY <1>4, <2>1, <2>4, TypeKept DEF Tick
<1>5. CASE Restart
  <2>1. DogsOK' /\ HeartsOK' /\ AgentsOK' /\ LaunchOK' /\ RestartsOK'
    BY <1>5, LimitsType, SessionAssumption
       DEF Restart, DogsOK, HeartsOK, AgentsOK, LaunchOK, RestartsOK, Watchers, Graces,
           NoGrace, NoWatcher, Launches, Unstarted
  <2>2. QED
    BY <1>5, <2>1, TypeKept DEF Restart
<1>6. CASE ClearStale
  <2>1. AgentsOK' /\ UNCHANGED <<projects, watcher>>
    BY <1>6 DEF ClearStale, AgentsOK, dogVars
  <2>2. QED
    BY <1>6, <2>1, TypeKept DEF ClearStale
<1>7. QED
  BY <1>1, <1>2, <1>3, <1>4, <1>5, <1>6 DEF CheckStep

LEMMA TypeNext == ASSUME TypeInv, [Next]_vars PROVE TypeInv'
<1>1. CASE UNCHANGED vars
  BY <1>1, TypeKept DEF vars, TypeInv, dogVars, agentVars
<1>2. CASE Next
  BY <1>2, TypeOfLaunch, TypeOfWatcher, TypeOfRest DEF Next
<1>3. QED
  BY <1>1, <1>2

LEMMA TypeInvariant == Spec => []TypeInv
<1>1. Init => TypeInv
  BY LimitsType, SessionAssumption
     DEF Init, TypeInv, TokensOK, DogsOK, HeartsOK, AgentsOK, LaunchOK, RestartsOK, Watchers,
         Graces, NoGrace, NoWatcher, Launches, Unstarted
<1>2. QED
  BY <1>1, TypeNext, PTL DEF Spec

\* Every reachable state is well typed.
THEOREM TypeCorrect == Spec => []TypeOK
BY TypeInvariant, TypeInvTypes, PTL

-----------------------------------------------------------------------------
(***************************************************************************)
(* The registry.  The record may be inserted before, during or after the   *)
(* watcher's end.  What the watcher found it found in the record, so that  *)
(* a record that comes later belongs to a session that failed.             *)
(***************************************************************************)
RegistryOf(s) ==
  /\ record[s] # "none" => launch[s] = "done"
  /\ launch[s] \in Unstarted => watcher[s].pc = "none"
  /\ watcher[s].pc \in {"none", "registering", "watching", "polling", "triggered"}
       => record[s] \in {"none", "Running"} /\ ~watcher[s].found
  /\ watcher[s].pc = "publish"
       => /\ record[s] \in {"none", "Running"}
          /\ watcher[s].found => record[s] = "Running"
  /\ watcher[s].pc = "ended"
       => /\ event[s] = Verdict(s)
          /\ watcher[s].found => launch[s] = "done"
          /\ ~watcher[s].reused =>
               record[s] \in {"none", Verdict(s)} \cup {x \in {"Running"} : ~watcher[s].found}

RegistryInv == \A s \in Session : RegistryOf(s)

\* The steps of one session leave the other sessions' entries alone.
LEMMA RegistryOthers ==
  ASSUME TypeInv, NEW s \in Session, NEW x \in Session \ {s}, RegistryOf(x),
         \/ Launch(s) \/ LaunchStep(s) \/ WatcherStep(s) \/ CheckStep(s)
         \/ WriteResult(s) \/ Exit(s) \/ CleanUp(s) \/ Heartbeat(s)
  PROVE  RegistryOf(x)'
<1>1. AgentsOK /\ LaunchOK
  BY DEF TypeInv
<1>2. UNCHANGED <<record[x], launch[x], watcher[x], event[x]>>
  <2>1. CASE Launch(s) \/ LaunchStep(s)
    BY <1>1, <2>1
       DEF Launch, LaunchStep, MarkBusy, StartHeartbeat, LaunchFails, StartAgent,
           InsertRecord, agentVars, AgentsOK, LaunchOK
  <2>2. CASE WatcherStep(s)
    BY <1>1, <2>2
       DEF WatcherStep, RegisterSlot, PollForEver, SeeExit, WatchTimeout, LookUp, Publish,
           AgentsOK, LaunchOK
  <2>3. CASE CheckStep(s) \/ WriteResult(s) \/ Exit(s) \/ CleanUp(s) \/ Heartbeat(s)
    BY <1>1, <2>3
       DEF CheckStep, Check, Reclaim, WriteResult, Exit, CleanUp, Heartbeat, agentVars,
           AgentsOK, LaunchOK
  <2>4. QED
    BY <2>1, <2>2, <2>3
<1>3. QED
  BY <1>2 DEF RegistryOf, Verdict

LEMMA RegistryOfWatcher ==
  ASSUME TypeInv, NEW s \in Session, RegistryOf(s), WatcherStep(s) \/ WriteResult(s)
  PROVE  RegistryOf(s)'
<1>1. /\ watcher \in [Session -> Watchers]
      /\ record \in [Session -> {"none", "Running", "Completed", "Failed"}]
      /\ event \in [Session -> {"none", "Completed", "Failed"}]
      /\ s \in slot => watcher[s].pc = "watching"
      /\ launch[s] \in Unstarted => watcher[s].pc = "none"
  BY DEF TypeInv, AgentsOK, LaunchOK
<1>2. watcher[s] \in Watchers
  BY <1>1
<1>3. CASE WriteResult(s)
  <2>1. UNCHANGED <<record, launch, event>>
    BY <1>3 DEF WriteResult
  <2>2. CASE UNCHANGED watcher
    BY <2>1, <2>2 DEF RegistryOf, Verdict
  <2>3. CASE s \in slot /\ watcher' = [watcher EXCEPT ![s].pc = "triggered"]
    <3>1. watcher'[s].pc = "triggered" /\ watcher'[s].found = watcher[s].found
      BY <1>1, <1>2, <2>3 DEF Watchers
    <3>2. QED
      BY <1>1, <2>1, <2>3, <3>1 DEF RegistryOf
  <2>4. QED
    BY <1>3, <2>2, <2>3 DEF WriteResult
<1>4. CASE RegisterSlot(s) \/ PollForEver(s) \/ SeeExit(s) \/ WatchTimeout(s)
  <2>1. UNCHANGED <<record, launch, event>> /\ watcher[s].pc \in {"registering", "watching"}
    BY <1>4 DEF RegisterSlot, PollForEver, SeeExit, WatchTimeout
  <2>2. PICK pc \in {"watching", "polling", "triggered"} :
             watcher' = [watcher EXCEPT ![s].pc = pc]
    BY <1>4 DEF RegisterSlot, PollForEver, SeeExit, WatchTimeout
  <2>3. watcher'[s].pc = pc /\ watcher'[s].found = watcher[s].found
    BY <1>1, <1>2, <2>2 DEF Watchers
  <2>4. QED
    BY <1>1, <2>1, <2>3 DEF RegistryOf
<1>5. CASE LookUp(s)
  <2>1. UNCHANGED <<record, launch, event>> /\ watcher[s].pc = "triggered"
    BY <1>5 DEF LookUp
  <2>2. watcher'[s].pc = "publish" /\ watcher'[s].found = (record[s] # "none" /\ s \in result)
    BY <1>1, <1>2, <1>5 DEF LookUp, Watchers
  <2>3. QED
    BY <1>1, <2>1, <2>2 DEF RegistryOf
<1>6. CASE Publish(s)
  <2>1. watcher[s].pc = "publish" /\ UNCHANGED launch
    BY <1>6 DEF Publish
  <2>2. /\ watcher'[s].pc = "ended" /\ watcher'[s].found = watcher[s].found
        /\ watcher'[s].reused = watcher[s].reused
    BY <1>1, <1>2, <1>6 DEF Publish, Watchers
  <2>3. event'[s] = Verdict(s)
    BY <1>1, <1>6 DEF Publish
  <2>4. record'[s] = IF record[s] = "Running" /\ ~watcher[s].reused THEN Verdict(s) ELSE record[s]
    BY <1>1, <1>6 DEF Publish
  <2>5. Verdict(s) \in {"Completed", "Failed"} /\ Verdict(s)' = Verdict(s)
    BY <2>2 DEF Verdict
  <2>6. QED
    BY <1>1, <2>1, <2>2, <2>3, <2>4, <2>5 DEF RegistryOf
<1>7. QED
  BY <1>3, <1>4, <1>5, <1>6 DEF WatcherStep

LEMMA RegistryNext == ASSUME TypeInv, RegistryInv, [Next]_vars PROVE RegistryInv'
<1>1. AgentsOK /\ LaunchOK /\ \A s \in Session : RegistryOf(s)
  BY DEF TypeInv, RegistryInv
<1>2. ASSUME NEW s \in Session, Launch(s) \/ LaunchStep(s) PROVE RegistryOf(s)'
  <2>1. CASE Launch(s) \/ MarkBusy(s) \/ StartHeartbeat(s) \/ LaunchFails(s)
    <3>1. /\ UNCHANGED <<record, watcher, event>>
          /\ launch[s] \in Unstarted /\ launch'[s] \in Unstarted
      BY <1>1, <2>1
         DEF Launch, MarkBusy, StartHeartbeat, LaunchFails, agentVars, LaunchOK, Unstarted
    <3>2. record[s] = "none" /\ watcher[s].pc = "none"
      BY <1>1, <3>1 DEF RegistryOf, LaunchOK, Unstarted
    <3>3. QED
      BY <1>1, <3>1, <3>2 DEF RegistryOf
  <2>2. ASSUME NEW reused \in BOOLEAN, StartAgent(s, reused) PROVE RegistryOf(s)'
    <3>1. launch[s] = "prepare" /\ record' = record /\ launch'[s] = "started"
      BY <1>1, <2>2 DEF StartAgent, LaunchOK
    <3>2. record[s] = "none"
      BY <1>1, <3>1 DEF RegistryOf
    <3>3. watcher'[s].pc = "registering" /\ ~watcher'[s].found
      BY <1>1, <2>2 DEF StartAgent, AgentsOK
    <3>4. QED
      BY <3>1, <3>2, <3>3 DEF RegistryOf, Unstarted
  <2>3. CASE InsertRecord(s)
    <3>1. /\ launch[s] = "started" /\ launch'[s] = "done" /\ record'[s] = "Running"
          /\ UNCHANGED <<watcher, event>>
      BY <1>1, <2>3 DEF InsertRecord, LaunchOK, AgentsOK
    <3>2. record[s] = "none" /\ watcher[s] \in Watchers
      BY <1>1, <3>1 DEF RegistryOf, AgentsOK
    <3>3. QED
      BY <1>1, <3>1, <3>2 DEF RegistryOf, Unstarted, Verdict, Watchers
  <2>4. QED
    BY <1>2, <2>1, <2>2, <2>3 DEF LaunchStep
<1>3. ASSUME NEW s \in Session, CheckStep(s) \/ Exit(s) \/ CleanUp(s) \/ Heartbeat(s)
      PROVE  RegistryOf(s)'
  <2>1. UNCHANGED <<record, launch, watcher, event>>
    BY <1>3 DEF CheckStep, Check, Reclaim, Exit, CleanUp, Heartbeat, agentVars
  <2>2. QED
    BY <1>1, <2>1 DEF RegistryOf, Verdict
<1>4. ASSUME NEW s \in Session,
             \/ Launch(s) \/ LaunchStep(s) \/ WatcherStep(s) \/ CheckStep(s)
             \/ WriteResult(s) \/ Exit(s) \/ CleanUp(s) \/ Heartbeat(s)
      PROVE  RegistryInv'
  <2>1. RegistryOf(s)'
    BY <1>1, <1>2, <1>3, <1>4, RegistryOfWatcher
  <2>2. QED
    BY <1>1, <1>4, <2>1, RegistryOthers DEF RegistryInv
<1>5. CASE ClearStale
  <2>1. ASSUME NEW s \in Session PROVE RegistryOf(s)'
    <3>1. UNCHANGED <<launch, watcher, event>> /\ record'[s] \in {"none", record[s]}
      BY <1>5 DEF ClearStale
    <3>2. record'[s] # record[s] => record[s] \in {"Completed", "Failed"}
      BY <1>5 DEF ClearStale
    <3>3. QED
      BY <1>1, <3>1, <3>2 DEF RegistryOf, Verdict
  <2>2. QED
    BY <2>1 DEF RegistryInv
<1>6. CASE Restart
  BY <1>6 DEF Restart, RegistryInv, RegistryOf, NoWatcher, Verdict
<1>7. CASE Tick \/ UNCHANGED vars
  BY <1>1, <1>7 DEF Tick, vars, agentVars, RegistryInv, RegistryOf, Verdict
<1>8. QED
  BY <1>4, <1>5, <1>6, <1>7 DEF Next

\* What the registry says of a spawned agent is what was published of its node.
THEOREM RegistryIsRight == Spec => []RegistryAgrees
<1>1. Init => RegistryInv
  BY DEF Init, RegistryInv, RegistryOf, NoWatcher, Verdict
<1>2. RegistryInv => RegistryAgrees
  BY DEF RegistryInv, RegistryOf, RegistryAgrees, Verdict
<1>3. QED
  BY <1>1, <1>2, RegistryNext, TypeInvariant, PTL DEF Spec

-----------------------------------------------------------------------------
(***************************************************************************)
(* What keeps a session and what takes its token.  A session whose launch  *)
(* is on its way is new; one that has a heartbeat task is young; and how   *)
(* far a watchdog has gone with a token says how old its heartbeat is.     *)
(***************************************************************************)
Early(s) == launch[s] \in {"registered", "busy"}

Live(s) ==
  \/ launch[s] \in {"prepare", "started"}
  \/ launch[s] = "done" /\ record[s] = "Running"

Timed(p, s) ==
  /\ grace[p][s].state = "grace1" =>
       beat[s] > Lapse \/ beat[s] >= Patience + 1 + grace[p][s].since
  /\ grace[p][s].state = "grace2" =>
       beat[s] > Lapse \/ beat[s] >= Patience + Grace1 + 2 + grace[p][s].since

Lapsed(s) == Dead(s) \/ (~HasHeart(s) /\ beat[s] > Lapse)

AgedOf(s) ==
  /\ Early(s) => beat[s] = 0 /\ age[s] = 0
  /\ HasHeart(s) => beat[s] <= 1 /\ (s \in beaten => beat[s] = 0)
  /\ Early(s) \/ HasHeart(s) \/ token[s] = "none" => \A p \in Session : grace[p][s] = NoGrace
  /\ Early(s) \/ token[s] = "none" => \A p \in Session : s \notin reclaim[p]
  /\ token[s] = "ACTIVE" =>
       \A p \in Session : Timed(p, s) /\ (s \in reclaim[p] => Lapsed(s))

SparedOf(s) ==
  /\ Live(s) => /\ HasHeart(s) /\ s \notin reclaim[s]
                /\ busy[s] >= 1 /\ (s \in beaten => busy[s] >= 2)
  /\ launch[s] = "busy" => busy[s] = Busy
  /\ s \in clearing => record[s] = "none" /\ launch[s] = "done"

AgeInv == \A s \in Session : AgedOf(s) /\ SparedOf(s)

\* The keys of the registry are distinct.
LEMMA Keys ==
  ASSUME NEW s \in Session, NEW x \in Session
  PROVE  /\ SessionKey(x) = SessionKey(s) <=> x = s
         /\ SessionKey(x) # AgentKey(s)
BY DEF SessionKey, AgentKey

\* Steps that touch neither tokens, nor heartbeats, nor watchdogs.
LEMMA AgedKept ==
  ASSUME NEW x \in Session, AgedOf(x),
         UNCHANGED <<token[x], beat[x], age[x], grace, reclaim>>,
         HasHeart(x)' <=> HasHeart(x), (x \in beaten)' <=> x \in beaten, Early(x)' => Early(x)
  PROVE  AgedOf(x)'
BY DEF AgedOf, Timed, Lapsed, Dead

LEMMA SparedKept ==
  ASSUME NEW x \in Session, SparedOf(x),
         UNCHANGED <<busy[x], reclaim>>, HasHeart(x) => HasHeart(x)',
         (x \in beaten)' => x \in beaten, Live(x)' => Live(x),
         (launch[x] = "busy")' => launch[x] = "busy",
         x \in clearing' => x \in clearing, x \in clearing => UNCHANGED <<launch[x], record[x]>>
  PROVE  SparedOf(x)'
BY DEF SparedOf

\* The launch of a session.
LEMMA AgeOfLaunch ==
  ASSUME TypeInv, RegistryInv, AgeInv, NEW s \in Session, Launch(s) \/ LaunchStep(s)
  PROVE  AgeInv'
<1>1. /\ token \in [Session -> {"none", "ACTIVE", "EXPIRED"}]
      /\ beat \in [Session -> 0..(Lapse + 1)] /\ age \in [Session -> 0..(Ttl + 1)]
      /\ launch \in [Session -> Launches]
      /\ record \in [Session -> {"none", "Running", "Completed", "Failed"}]
      /\ busy \in [Session -> 0..Busy]
  BY DEF TypeInv, TokensOK, LaunchOK, AgentsOK, DogsOK
<1>2. \A x \in Session : AgedOf(x) /\ SparedOf(x)
  BY DEF AgeInv
<1>3. \A x \in Session : record[x] # "none" => launch[x] = "done"
  BY DEF RegistryInv, RegistryOf
<1>4. CASE Launch(s)
  <2>1. UNCHANGED <<busy, grace, reclaim, hearts, beaten, record, clearing>>
    BY <1>4 DEF Launch, heartVars, agentVars
  <2>2. launch[s] = "idle" /\ record[s] = "none"
    BY <1>3, <1>4 DEF Launch
  <2>3. ASSUME NEW x \in Session \ {s} PROVE AgedOf(x)' /\ SparedOf(x)'
    <3>1. UNCHANGED <<token[x], beat[x], age[x], launch[x]>>
      BY <1>1, <1>4 DEF Launch, tokenVars
    <3>2. QED
      BY <1>2, <2>1, <3>1, AgedKept, SparedKept DEF Early, Live, HasHeart
  <2>4. SparedOf(s)'
    <3>1. launch'[s] \in {"registered", "failed"}
      BY <1>1, <1>4 DEF Launch
    <3>2. QED
      BY <1>2, <2>1, <2>2, <3>1 DEF SparedOf, Live
  <2>5. AgedOf(s)'
    <3>1. CASE token[s] = "none"
      <4>1. token'[s] = "ACTIVE" /\ beat'[s] = 0 /\ age'[s] = 0
        BY <1>1, <1>4, <3>1 DEF Launch
      <4>2. \A p \in Session : grace'[p][s] = NoGrace /\ s \notin reclaim'[p]
        BY <1>2, <2>1, <3>1 DEF AgedOf
      <4>3. QED
        BY <4>1, <4>2 DEF AgedOf, Timed, NoGrace
    <3>2. CASE token[s] # "none"
      <4>1. UNCHANGED <<token, beat, age>> /\ launch'[s] = "failed"
        BY <1>1, <1>4, <3>2 DEF Launch, tokenVars
      <4>2. QED
        BY <1>2, <2>1, <4>1, AgedKept DEF Early, HasHeart
    <3>3. QED
      BY <3>1, <3>2
  <2>6. QED
    BY <2>3, <2>4, <2>5 DEF AgeInv
<1>5. CASE MarkBusy(s)
  <2>1. /\ UNCHANGED <<token, age, grace, reclaim, hearts, beaten, record, clearing>>
        /\ launch[s] = "registered" /\ launch'[s] = "busy" /\ busy'[s] = Busy /\ beat'[s] = 0
        /\ \A x \in Session \ {s} : UNCHANGED <<launch[x], busy[x], beat[x]>>
    BY <1>1, <1>5 DEF MarkBusy, heartVars, agentVars
  <2>2. \A x \in Session \ {s} : AgedOf(x)' /\ SparedOf(x)'
    BY <1>2, <2>1, AgedKept, SparedKept DEF Early, Live, HasHeart
  <2>3. beat[s] = 0
    BY <1>2, <2>1 DEF AgedOf, Early
  <2>4. AgedOf(s)'
    BY <1>2, <2>1, <2>3, AgedKept DEF Early, HasHeart
  <2>5. SparedOf(s)'
    BY <1>2, <2>1 DEF SparedOf, Live
  <2>6. QED
    BY <2>2, <2>4, <2>5 DEF AgeInv
<1>6. CASE StartHeartbeat(s)
  <2>1. /\ UNCHANGED <<token, beat, age, busy, grace, reclaim, record, clearing>>
        /\ launch[s] = "busy" /\ launch'[s] = "prepare"
        /\ \A x \in Session \ {s} : UNCHANGED launch[x]
        /\ hearts' = hearts \cup {SessionKey(s)} /\ beaten' = beaten \cup {s}
    BY <1>1, <1>6 DEF StartHeartbeat, tokenVars, dogVars, agentVars
  <2>2. \A x \in Session \ {s} : HasHeart(x)' <=> HasHeart(x)
    BY <2>1, Keys DEF HasHeart
  <2>3. \A x \in Session \ {s} : AgedOf(x)' /\ SparedOf(x)'
    BY <1>2, <2>1, <2>2, AgedKept, SparedKept DEF Early, Live
  <2>4. /\ beat[s] = 0 /\ age[s] = 0 /\ busy[s] = Busy
        /\ \A p \in Session : grace[p][s] = NoGrace /\ s \notin reclaim[p]
    BY <1>2, <2>1 DEF AgedOf, SparedOf, Early
  <2>5. AgedOf(s)'
    BY <2>1, <2>4 DEF AgedOf, Early, Timed, NoGrace
  <2>6. SparedOf(s)'
    BY <1>2, <2>1, <2>4, LimitsType DEF SparedOf, Live, HasHeart
  <2>7. QED
    BY <2>3, <2>5, <2>6 DEF AgeInv
<1>7. ASSUME NEW reused \in BOOLEAN, LaunchFails(s) \/ StartAgent(s, reused) \/ InsertRecord(s)
      PROVE AgeInv'
  <2>1. /\ UNCHANGED <<token, beat, age, busy, grace, reclaim, hearts, beaten, clearing>>
        /\ launch[s] \in {"prepare", "started"} /\ launch'[s] \notin {"registered", "busy"}
        /\ \A x \in Session \ {s} : UNCHANGED <<launch[x], record[x]>>
    BY <1>1, <1>7 DEF LaunchFails, StartAgent, InsertRecord, tokenVars, dogVars, heartVars,
                      agentVars
  <2>2. ASSUME NEW x \in Session PROVE AgedOf(x)' /\ SparedOf(x)'
    <3>1. (Early(x)' => Early(x)) /\ (Live(x)' => Live(x))
      BY <2>1 DEF Early, Live
    <3>2. x \in clearing => x # s
      BY <1>2, <2>1 DEF SparedOf
    <3>3. QED
      BY <1>2, <2>1, <3>1, <3>2, AgedKept, SparedKept DEF HasHeart
  <2>3. QED
    BY <2>2 DEF AgeInv
<1>8. QED
  BY <1>4, <1>5, <1>6, <1>7 DEF LaunchStep

\* The agent, its watcher, and the next clean-up.
LEMMA AgeOfAgent ==
  ASSUME TypeInv, RegistryInv, AgeInv,
         \/ \E s \in Session : WatcherStep(s) \/ WriteResult(s) \/ Exit(s) \/ CleanUp(s)
         \/ ClearStale
  PROVE  AgeInv'
<1>1. /\ record \in [Session -> {"none", "Running", "Completed", "Failed"}]
      /\ busy \in [Session -> 0..Busy]
  BY DEF TypeInv, AgentsOK, DogsOK
<1>2. \A x \in Session : AgedOf(x) /\ SparedOf(x)
  BY DEF AgeInv
<1>3. \A x \in Session : record[x] # "none" => launch[x] = "done"
  BY DEF RegistryInv, RegistryOf
<1>4. ASSUME NEW s \in Session, WatcherStep(s) \/ WriteResult(s) \/ Exit(s)
      PROVE AgeInv'
  <2>1. /\ UNCHANGED <<token, beat, age, busy, grace, reclaim, hearts, beaten, launch, clearing>>
        /\ record' = record \/ Publish(s)
    BY <1>4
       DEF WatcherStep, RegisterSlot, PollForEver, SeeExit, WatchTimeout, LookUp, Publish,
           WriteResult, Exit, tokenVars, dogVars, heartVars
  <2>2. \A x \in Session : record'[x] # record[x] => record[x] = "Running" /\ record'[x] # "Running"
    <3>1. CASE Publish(s)
      <4>1. \A x \in Session : record'[x] # record[x] => record[x] = "Running" /\ record'[x] = Verdict(s)
        BY <1>1, <3>1 DEF Publish
      <4>2. QED
        BY <4>1 DEF Verdict
    <3>2. QED
      BY <2>1, <3>1
  <2>3. ASSUME NEW x \in Session PROVE AgedOf(x)' /\ SparedOf(x)'
    <3>1. x \in clearing => record[x] = "none"
      BY <1>2 DEF SparedOf
    <3>2. QED
      BY <1>2, <2>1, <2>2, <3>1, AgedKept, SparedKept DEF HasHeart, Early, Live
  <2>4. QED
    BY <2>3 DEF AgeInv
<1>5. ASSUME NEW s \in Session, CleanUp(s) PROVE AgeInv'
  <2>1. /\ UNCHANGED <<token, beat, age, grace, reclaim, beaten, launch, record>>
        /\ s \in clearing /\ clearing' = clearing \ {s} /\ hearts' = hearts \ {AgentKey(s)}
        /\ \A x \in Session \ {s} : busy'[x] = busy[x]
    BY <1>1, <1>5 DEF CleanUp, tokenVars
  <2>2. \A x \in Session : HasHeart(x)' <=> HasHeart(x)
    BY <2>1, Keys DEF HasHeart
  <2>3. ~Live(s) /\ launch[s] # "busy"
    BY <1>2, <2>1 DEF SparedOf, Live
  <2>4. \A x \in Session : AgedOf(x)'
    BY <1>2, <2>1, <2>2, AgedKept DEF Early
  <2>5. \A x \in Session \ {s} : SparedOf(x)'
    BY <1>2, <2>1, <2>2, SparedKept DEF Live
  <2>6. SparedOf(s)'
    BY <2>1, <2>3 DEF SparedOf, Live
  <2>7. QED
    BY <2>4, <2>5, <2>6 DEF AgeInv
<1>6. CASE ClearStale
  <2>1. UNCHANGED <<token, beat, age, busy, grace, reclaim, hearts, beaten, launch>>
    BY <1>6 DEF ClearStale, tokenVars, dogVars, heartVars
  <2>2. ASSUME NEW x \in Session PROVE AgedOf(x)' /\ SparedOf(x)'
    <3>1. \/ record'[x] = record[x] /\ (x \in clearing' => x \in clearing)
          \/ record[x] \in {"Completed", "Failed"} /\ record'[x] = "none"
      BY <1>6 DEF ClearStale
    <3>2. CASE record'[x] = record[x] /\ (x \in clearing' => x \in clearing)
      BY <1>2, <2>1, <3>2, AgedKept, SparedKept DEF HasHeart, Early, Live
    <3>3. CASE record[x] \in {"Completed", "Failed"} /\ record'[x] = "none"
      <4>1. launch[x] = "done"
        BY <1>3, <3>3
      <4>2. SparedOf(x)'
        BY <2>1, <3>3, <4>1 DEF SparedOf, Live
      <4>3. QED
        BY <1>2, <2>1, <4>2, AgedKept DEF HasHeart, Early
    <3>4. QED
      BY <3>1, <3>2, <3>3
  <2>3. QED
    BY <2>2 DEF AgeInv
<1>7. QED
  BY <1>4, <1>5, <1>6

\* A watchdog looks at a token.
LEMMA AgeOfCheck ==
  ASSUME TypeInv, AgeInv, NEW p \in Session, CheckStep(p)
  PROVE  AgeInv'
<1>1. /\ token \in [Session -> {"none", "ACTIVE", "EXPIRED"}]
      /\ beat \in [Session -> 0..(Lapse + 1)] /\ age \in [Session -> 0..(Ttl + 1)]
      /\ grace \in [Session -> [Session -> Graces]]
      /\ reclaim \in [Session -> SUBSET Session]
      /\ busy \in [Session -> 0..Busy]
  BY DEF TypeInv, TokensOK, DogsOK
<1>2. \A x \in Session : AgedOf(x) /\ SparedOf(x)
  BY DEF AgeInv
<1>3. CASE Check(p)
  <2>1. UNCHANGED <<token, beat, age, busy, hearts, beaten, launch, record, clearing>>
    BY <1>3 DEF Check, tokenVars, heartVars, agentVars
  <2>2. ASSUME NEW x \in Session
        PROVE  /\ \A q \in Session \ {p} : UNCHANGED <<grace[q], reclaim[q]>>
               /\ grace'[p][x] = IF token[x] = "ACTIVE" THEN NextGrace(p, x) ELSE grace[p][x]
               /\ x \in reclaim'[p] <=> token[x] = "ACTIVE" /\ Reclaimed(p, x)
    <3>1. grace' = [grace EXCEPT ![p] = [s \in Session |->
                     IF s \in ActiveTokens(p) THEN NextGrace(p, s) ELSE grace[p][s]]]
      BY <1>3 DEF Check
    <3>2. reclaim' = [reclaim EXCEPT ![p] = {s \in ActiveTokens(p) : Reclaimed(p, s)}]
      BY <1>3 DEF Check
    <3>3. QED
      BY <1>1, <3>1, <3>2 DEF ActiveTokens
  <2>3. ASSUME NEW x \in Session PROVE AgedOf(x)'
    <3>1. /\ Early(x)' = Early(x) /\ HasHeart(x)' = HasHeart(x) /\ Dead(x)' = Dead(x)
          /\ Lapsed(x)' = Lapsed(x)
      BY <2>1 DEF Early, HasHeart, Dead, Lapsed
    <3>2. ASSUME Early(x) \/ HasHeart(x) PROVE NextGrace(p, x) = NoGrace /\ ~Late(x)
      <4>1. beat[x] <= 1
        BY <1>2, <3>2 DEF AgedOf
      <4>2. ~Late(x)
        BY <1>1, <4>1, LimitsType DEF Late
      <4>3. QED
        BY <4>2 DEF NextGrace
    <3>3. ASSUME Early(x) PROVE ~Reclaimed(p, x)
      <4>1. ~Late(x) /\ ~Dead(x)
        BY <1>2, <3>2, <3>3, LimitsType DEF AgedOf, Dead
      <4>2. QED
        BY <4>1 DEF Reclaimed, OutOfGrace
    <3>4. ASSUME token[x] = "ACTIVE" PROVE Timed(p, x)' /\ (Reclaimed(p, x) => Lapsed(x))
      <4>1. /\ grace[p][x] \in Graces /\ beat[x] \in Nat /\ Timed(p, x)
            /\ grace'[p][x] = NextGrace(p, x)
        BY <1>1, <1>2, <2>2, <3>4, LimitsType DEF AgedOf
      <4>2. Timed(p, x)'
        <5>1. CASE grace'[p][x] = NoGrace
          BY <5>1 DEF Timed, NoGrace
        <5>2. CASE grace[p][x].state = "normal" /\ Late(x)
                   /\ grace'[p][x] = [state |-> "grace1", since |-> 0]
          BY <2>1, <4>1, <5>2, LimitsType DEF Timed, Late
        <5>3. CASE grace[p][x].state = "grace1" /\ grace[p][x].since > Grace1
                   /\ grace'[p][x] = [state |-> "grace2", since |-> 0]
          BY <2>1, <4>1, <5>3, LimitsType DEF Timed, Graces
        <5>4. CASE grace'[p][x] = grace[p][x]
          BY <2>1, <4>1, <5>4 DEF Timed
        <5>5. QED
          BY <4>1, <5>1, <5>2, <5>3, <5>4 DEF NextGrace, Graces
      <4>3. ASSUME Reclaimed(p, x) PROVE Lapsed(x)
        <5>1. Dead(x) \/ OutOfGrace(p, x)
          BY <4>3 DEF Reclaimed
        <5>2. CASE OutOfGrace(p, x)
          <6>1. ~HasHeart(x)
            BY <3>2, <5>2 DEF OutOfGrace
          <6>2. beat[x] > Lapse
            BY <4>1, <5>2, LimitsType DEF OutOfGrace, Timed, Graces
          <6>3. QED
            BY <6>1, <6>2 DEF Lapsed
        <5>3. QED
          BY <5>1, <5>2 DEF Lapsed
      <4>4. QED
        BY <4>2, <4>3
    <3>5. \A q \in Session \ {p} : Timed(q, x)' <=> Timed(q, x)
      BY <2>1, <2>2 DEF Timed
    <3>6. (beat[x] <= 1 /\ (x \in beaten => beat[x] = 0))' <=> (beat[x] <= 1 /\ (x \in beaten => beat[x] = 0))
      BY <2>1
    <3>7. AgedOf(x)
      BY <1>2
    <3>8. QED
      BY <2>1, <2>2, <3>1, <3>2, <3>3, <3>4, <3>5, <3>7 DEF AgedOf
  <2>4. ASSUME NEW x \in Session PROVE SparedOf(x)'
    <3>1. Live(x) => busy[x] > 0
      BY <1>1, <1>2 DEF SparedOf
    <3>2. Live(x) /\ x = p => ~Reclaimed(p, x)
      BY <3>1 DEF Reclaimed, Spared
    <3>3. Live(x) => x \notin reclaim'[x]
      BY <1>2, <2>2, <3>2 DEF SparedOf
    <3>4. Live(x)' = Live(x) /\ HasHeart(x)' = HasHeart(x)
      BY <2>1 DEF Live, HasHeart
    <3>5. QED
      BY <1>2, <2>1, <3>3, <3>4 DEF SparedOf
  <2>5. QED
    BY <2>3, <2>4 DEF AgeInv
<1>4. ASSUME NEW s \in Session, Reclaim(p, s) PROVE AgeInv'
  <2>1. UNCHANGED <<beat, age, busy, grace, hearts, beaten, launch, record, clearing>>
    BY <1>4 DEF Reclaim, heartVars, agentVars
  <2>2. /\ s \in reclaim[p] /\ token'[s] = "EXPIRED"
        /\ \A x \in Session \ {s} : token'[x] = token[x]
        /\ \A q \in Session : reclaim'[q] \subseteq reclaim[q]
    BY <1>1, <1>4 DEF Reclaim
  <2>3. ASSUME NEW x \in Session PROVE AgedOf(x)' /\ SparedOf(x)'
    <3>1. /\ Early(x)' = Early(x) /\ HasHeart(x)' = HasHeart(x) /\ Lapsed(x)' = Lapsed(x)
          /\ Live(x)' = Live(x) /\ \A q \in Session : Timed(q, x)' = Timed(q, x)
      BY <2>1 DEF Early, HasHeart, Lapsed, Dead, Live, Timed
    <3>2. SparedOf(x)'
      BY <1>2, <2>1, <2>2, <3>1 DEF SparedOf
    <3>3. AgedOf(x) /\ token'[x] \in {token[x], "EXPIRED"}
      BY <1>2, <2>2
    <3>4. AgedOf(x)'
      BY <2>1, <2>2, <3>1, <3>3 DEF AgedOf
    <3>5. QED
      BY <3>2, <3>4
  <2>4. QED
    BY <2>3 DEF AgeInv
<1>5. QED
  BY <1>3, <1>4 DEF CheckStep

\* Time, heartbeats and restarts.
LEMMA AgeOfTime ==
  ASSUME TypeInv, AgeInv, (\E s \in Session : Heartbeat(s)) \/ Tick \/ Restart
  PROVE  AgeInv'
<1>1. /\ token \in [Session -> {"none", "ACTIVE", "EXPIRED"}]
      /\ beat \in [Session -> 0..(Lapse + 1)] /\ age \in [Session -> 0..(Ttl + 1)]
      /\ grace \in [Session -> [Session -> Graces]]
      /\ busy \in [Session -> 0..Busy]
  BY DEF TypeInv, TokensOK, DogsOK
<1>2. \A x \in Session : AgedOf(x) /\ SparedOf(x)
  BY DEF AgeInv
<1>3. ASSUME NEW s \in Session, Heartbeat(s) PROVE AgeInv'
  <2>1. /\ UNCHANGED <<token, age, grace, reclaim, hearts, launch, record, clearing>>
        /\ HasHeart(s) /\ beaten' = beaten \cup {s}
        /\ beat'[s] = 0 /\ busy'[s] = Busy
        /\ \A x \in Session \ {s} : beat'[x] = beat[x] /\ busy'[x] = busy[x]
    BY <1>1, <1>3 DEF Heartbeat, agentVars
  <2>2. \A x \in Session \ {s} : AgedOf(x)' /\ SparedOf(x)'
    BY <1>2, <2>1, AgedKept, SparedKept DEF Early, Live, HasHeart
  <2>3. SparedOf(s)'
    BY <1>2, <2>1, LimitsType DEF SparedOf, Live, HasHeart
  <2>4. HasHeart(s)' /\ Early(s)' = Early(s) /\ Dead(s)' = Dead(s)
    BY <2>1 DEF HasHeart, Early, Dead
  <2>5. \A q \in Session : Timed(q, s)'
    BY <1>2, <2>1 DEF AgedOf, Timed, NoGrace
  <2>6. AgedOf(s)'
    BY <1>2, <2>1, <2>4, <2>5 DEF AgedOf, Lapsed
  <2>7. QED
    BY <2>2, <2>3, <2>6 DEF AgeInv
<1>4. CASE Tick
  <2>1. /\ UNCHANGED <<token, reclaim, hearts, launch, record, clearing>>
        /\ beaten' = {} /\ \A x \in Session : HasHeart(x) => x \in beaten
        /\ \A x \in Session : ~Early(x) /\ reclaim[x] = {}
    BY <1>4 DEF Tick, agentVars, Early
  <2>2. /\ \A x \in Session : beat'[x] = IF token[x] # "ACTIVE" THEN 0 ELSE Older(beat[x], Lapse)
        /\ \A x \in Session : busy'[x] = IF busy[x] = 0 THEN 0 ELSE busy[x] - 1
    BY <1>4 DEF Tick
  <2>3. ASSUME NEW p \in Session, NEW x \in Session
        PROVE  /\ grace[p][x].state = "normal" => grace'[p][x] = NoGrace
               /\ grace'[p][x].state = grace[p][x].state
               /\ grace[p][x].since \in Nat /\ grace'[p][x].since \in Nat
               /\ grace'[p][x].since <= grace[p][x].since + 1
    <3> DEFINE Limit == IF grace[p][x].state = "grace1" THEN Grace1 ELSE Grace2
               Aged == [grace[p][x] EXCEPT !.since = Older(@, Limit)]
    <3>1. grace'[p][x] = IF grace[p][x].state = "normal" THEN NoGrace ELSE Aged
      BY <1>4 DEF Tick
    <3>2. grace[p][x] \in Graces
      BY <1>1
    <3>3. Aged.state = grace[p][x].state /\ Aged.since = Older(grace[p][x].since, Limit)
      BY <3>2 DEF Graces
    <3>4. Older(grace[p][x].since, Limit) \in {grace[p][x].since, grace[p][x].since + 1}
      BY DEF Older
    <3> HIDE DEF Aged
    <3>5. QED
      BY <3>1, <3>2, <3>3, <3>4 DEF Graces, NoGrace
  <2>4. ASSUME NEW x \in Session PROVE SparedOf(x)'
    <3>1. Live(x)' = Live(x) /\ HasHeart(x)' = HasHeart(x) /\ launch'[x] # "busy"
      BY <2>1 DEF Live, HasHeart, Early
    <3>2. Live(x) => busy'[x] >= 1
      BY <1>1, <1>2, <2>1, <2>2, LimitsType DEF SparedOf
    <3>3. QED
      BY <1>2, <2>1, <3>1, <3>2 DEF SparedOf
  <2>5. ASSUME NEW x \in Session PROVE AgedOf(x)'
    <3>1. HasHeart(x)' = HasHeart(x) /\ Early(x)' = FALSE
      BY <2>1 DEF HasHeart, Early
    <3>2. HasHeart(x) => beat'[x] <= 1
      BY <1>2, <2>1, <2>2 DEF AgedOf, Older
    <3>3. /\ HasHeart(x) \/ token[x] = "none" => \A p \in Session : grace'[p][x] = NoGrace
      BY <1>2, <2>3 DEF AgedOf, NoGrace
    <3>4. ASSUME token[x] = "ACTIVE", NEW p \in Session PROVE Timed(p, x)'
      <4>1. /\ Timed(p, x) /\ beat[x] \in Nat
            /\ beat'[x] = Older(beat[x], Lapse)
        BY <1>1, <1>2, <2>2, <3>4, LimitsType DEF AgedOf
      <4>2. (beat[x] > Lapse /\ beat'[x] = beat[x]) \/ beat'[x] = beat[x] + 1
        BY <4>1 DEF Older
      <4>3. QED
        BY <2>3, <4>1, <4>2, LimitsType DEF Timed
    <3>5. QED
      BY <1>2, <2>1, <3>1, <3>2, <3>3, <3>4 DEF AgedOf
  <2>6. QED
    BY <2>4, <2>5 DEF AgeInv
<1>5. CASE Restart
  <2>1. /\ \A x \in Session : launch'[x] = "idle"
        /\ \A p \in Session : reclaim'[p] = {} /\ \A x \in Session : grace'[p][x] = NoGrace
        /\ hearts' = {} /\ clearing' = {}
    BY <1>5 DEF Restart
  <2>2. QED
    BY <2>1 DEF AgeInv, AgedOf, SparedOf, Early, Live, HasHeart, Timed, NoGrace
<1>6. QED
  BY <1>3, <1>4, <1>5

LEMMA AgeNext == ASSUME TypeInv, RegistryInv, AgeInv, [Next]_vars PROVE AgeInv'
<1>1. CASE Next
  BY <1>1, AgeOfLaunch, AgeOfAgent, AgeOfCheck, AgeOfTime DEF Next
<1>2. CASE UNCHANGED vars
  <2>1. ASSUME NEW x \in Session PROVE AgedOf(x)' /\ SparedOf(x)'
    BY <1>2, <2>1, AgedKept, SparedKept
       DEF vars, tokenVars, dogVars, heartVars, agentVars, AgeInv, Early, Live, HasHeart
  <2>2. QED
    BY <2>1 DEF AgeInv
<1>3. QED
  BY <1>1, <1>2

LEMMA AgeInvariant == Spec => [](TypeInv /\ RegistryInv /\ AgeInv)
<1>1. Init => RegistryInv
  BY DEF Init, RegistryInv, RegistryOf, NoWatcher, Verdict
<1>2. Init => AgeInv
  BY DEF Init, AgeInv, AgedOf, SparedOf, Early, Live, HasHeart, Timed, NoGrace
<1>3. QED
  BY <1>1, <1>2, TypeInvariant, RegistryNext, AgeNext, PTL DEF Spec

\* The watchdog of a session that is running never decides to expire its token.
THEOREM RunningIsSpared == Spec => []BusyIsSpared
<1>1. TypeInv /\ RegistryInv /\ AgeInv => BusyIsSpared
  BY DEF RegistryInv, RegistryOf, AgeInv, SparedOf, Live, BusyIsSpared
<1>2. QED
  BY <1>1, AgeInvariant, PTL

\* No token is expired but at its hard TTL, or when nothing beats for it and its
\* last heartbeat is older than the timeout and both periods of grace.
THEOREM ExpiryIsLegal == Spec => TokenExpiry
<1>1. ASSUME TypeInv, AgeInv, [Next]_vars PROVE LegalExpiry
  <2> SUFFICES ASSUME NEW s \in Session, token[s] = "ACTIVE", token'[s] = "EXPIRED"
               PROVE  Lapsed(s)
    BY DEF LegalExpiry, Lapsed
  <2>1. token \in [Session -> {"none", "ACTIVE", "EXPIRED"}]
    BY <1>1 DEF TypeInv, TokensOK
  <2>2. PICK p \in Session : s \in reclaim[p]
    <3>1. ASSUME NEW x \in Session, Launch(x) \/ LaunchStep(x) PROVE FALSE
      BY <2>1, <3>1
         DEF Launch, LaunchStep, MarkBusy, StartHeartbeat, LaunchFails, StartAgent,
             InsertRecord, tokenVars
    <3>2. ASSUME NEW x \in Session, WatcherStep(x) \/ WriteResult(x) \/ Exit(x) PROVE FALSE
      BY <3>2
         DEF WatcherStep, RegisterSlot, PollForEver, SeeExit, WatchTimeout, LookUp, Publish,
             WriteResult, Exit, tokenVars
    <3>3. ASSUME NEW x \in Session, Check(x) \/ CleanUp(x) \/ Heartbeat(x) PROVE FALSE
      BY <3>3 DEF Check, CleanUp, Heartbeat, tokenVars
    <3>4. CASE ClearStale \/ Tick \/ Restart \/ UNCHANGED vars
      BY <3>4 DEF ClearStale, Tick, Restart, vars, tokenVars
    <3>5. ASSUME NEW p \in Session, NEW x \in Session, Reclaim(p, x) PROVE s \in reclaim[p]
      BY <2>1, <3>5 DEF Reclaim
    <3>6. QED
      BY <1>1, <3>1, <3>2, <3>3, <3>4, <3>5 DEF Next, CheckStep
  <2>3. QED
    BY <1>1, <2>2 DEF AgeInv, AgedOf
<1>2. QED
  BY <1>1, AgeInvariant, PTL DEF Spec, TokenExpiry
=============================================================================
