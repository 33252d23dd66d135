------------------------------ MODULE ToolGate ------------------------------
(***************************************************************************)
(* What stands between an agent's wish to change a file and the change:    *)
(* the interactive permission handler and its request service              *)
(* (ergatai-runtime/src/permission.rs, permission_service.rs), the handler *)
(* it wraps (ergatai-api/src/lock_permission.rs), the file lock manager    *)
(* (ergatai-lock/src/lock_manager.rs) and the hooks that run when the tool *)
(* starts and ends (ergatai-runtime/src/backends/acp.rs).                  *)
(*                                                                         *)
(* The lock manager keeps each lock in three places: a database row with   *)
(* an expiry time, an entry of an in-memory cache that callers ask first,  *)
(* and an open file under flock(2).  The row and the cache are written     *)
(* under the connection's mutex except by status queries, which let go of  *)
(* the mutex before they write what they read to the cache.                *)
(*                                                                         *)
(* An agent and its session are one value: the lock manager compares the   *)
(* two together.  The time of expiry is abstracted to "passed or not".     *)
(***************************************************************************)
EXTENDS Naturals, FiniteSets

CONSTANTS
  Agent,          \* agents with their sessions
  File,           \* normalized paths
  Call,           \* tool calls; a call may be made again when it has ended
  Owner,          \* Owner[c] is the agent that makes call c
  Reader,         \* clients of check_file_lock_status (the IPC server's threads)
  Legacy,         \* agents with an identifier of the form <workspace>-agent-<n>,
                  \* from which the hooks and the wrapped handler get to the lock
                  \* manager; from a generated identifier they do not
  Limit,          \* MAX_LOCKS_PER_AGENT
  Modes,          \* the permission modes in use
  Expiry,         \* whether locks may reach their expires_at
  Restarts        \* whether the process may be restarted

ASSUME GateAssumption ==
  /\ Owner \in [Call -> Agent]
  /\ Legacy \subseteq Agent
  /\ Limit \in Nat \ {0}
  /\ Modes \subseteq {"ask", "auto", "full"}
  /\ {Expiry, Restarts} \subseteq BOOLEAN

NoOne == "no agent"
Unlocked == "unlocked"
ASSUME NamesAssumption == NoOne \notin Agent /\ Unlocked \notin Agent

VARIABLES
  mode,       \* PERMISSION_MODE
  call,       \* where each tool call is in the handler
  pending,    \* requests a user may answer
  answering,  \* an answer taken from pending and not yet sent to its waiter
  channel,    \* what the call's oneshot channel holds
  row,        \* the agent with the ACTIVE WRITE row of a file (a unique index)
  lapsed,     \* files whose row's expires_at has passed
  cache,      \* active_write_locks_cache
  flock,      \* files with an entry in flock_fds
  query       \* status queries between their read and their write to the cache

permissionVars == <<mode, pending, answering, channel>>
lockVars == <<row, lapsed, cache, flock>>
vars == <<permissionVars, lockVars, call, query>>

-----------------------------------------------------------------------------
\* One tool call.  locked: the paths try_pre_lock_files acquired so far;
\* inner: whether the wrapped handler is asked after the locks are taken.
CallState ==
  [pc : {"idle", "asking", "timedout", "prelock", "insert", "undo", "inner",
         "approved", "running", "releasing"},
   kind : {"edit", "execute"},
   files : SUBSET File, todo : SUBSET File, locked : SUBSET File,
   file : File \cup {"none"}, inner : BOOLEAN]

Idle == [pc |-> "idle", kind |-> "edit", files |-> {}, todo |-> {},
         locked |-> {}, file |-> "none", inner |-> FALSE]

Go(c, new) == call' = [call EXCEPT ![c] = new]
Me(c) == Owner[c]

\* The agent may change the call's files.
Writing(c) == call[c].pc \in {"approved", "running"}

Init ==
  /\ mode = "ask"
  /\ call = [c \in Call |-> Idle]
  /\ pending = {}
  /\ answering = [c \in Call |-> "none"]
  /\ channel = [c \in Call |-> "none"]
  /\ row = [f \in File |-> NoOne]
  /\ lapsed = {}
  /\ cache = [f \in File |-> NoOne]
  /\ flock = {}
  /\ query = [r \in Reader |-> [file |-> "none", saw |-> NoOne]]

-----------------------------------------------------------------------------
\* The lock manager's critical sections.

\* SELECT COUNT( * ) ... WHERE agent_id = ? AND status = 'ACTIVE'
ActiveLocks(a) == Cardinality({f \in File : row[f] = a})
AtLimit(a) == ActiveLocks(a) >= Limit

InsertRow(a, f) ==
  /\ row' = [row EXCEPT ![f] = a]
  /\ lapsed' = lapsed \ {f}
  /\ cache' = [cache EXCEPT ![f] = a]

\* flock(2) is best effort, and fails while an earlier lock's file is open.
TakeFlock(f) == flock' \in {flock, flock \cup {f}}

\* Mutated form of ReleaseLock: a lock whoever has it.
ReleaseLockOfAnyone(a, f) ==
  /\ row' = [row EXCEPT ![f] = NoOne]
  /\ lapsed' = lapsed \ {f}
  /\ cache' = [cache EXCEPT ![f] = NoOne]
  /\ flock' = flock \ {f}

\* Mutated form of ReleaseLock: the cache is not told.
ReleaseLockKeepingEntry(a, f) ==
  IF row[f] = a
  THEN /\ row' = [row EXCEPT ![f] = NoOne]
       /\ lapsed' = lapsed \ {f}
       /\ flock' = flock \ {f}
       /\ cache' = cache
  ELSE UNCHANGED lockVars

\* release_lock_on_tool_complete: without an ACTIVE row of the agent nothing
\* is touched, the cache and the flock included.
ReleaseLock(a, f) ==
  IF row[f] = a
  THEN /\ row' = [row EXCEPT ![f] = NoOne]
       /\ lapsed' = lapsed \ {f}
       /\ cache' = [cache EXCEPT ![f] = NoOne]
       /\ flock' = flock \ {f}
  ELSE UNCHANGED lockVars

\* renew_lock_on_tool_start: every ACTIVE row of the agent, those included
\* that have passed their time and wait for the sweep.
RenewLocks(a) == lapsed' = {f \in lapsed : row[f] # a}

-----------------------------------------------------------------------------
\* InteractivePermissionHandler::evaluate

\* A request for a user's decision.  register_with_waiter skips pending when
\* its lock is contended, and inserts the waiter all the same.
Ask(c, kind, files) ==
  /\ call[c].pc = "idle" /\ mode = "ask"
  /\ Go(c, [Idle EXCEPT !.pc = "asking", !.kind = kind, !.files = files])
  /\ pending' \in {pending, pending \cup {c}}
  /\ answering' = [answering EXCEPT ![c] = "none"]
  /\ channel' = [channel EXCEPT ![c] = "none"]
  /\ UNCHANGED <<mode, lockVars, query>>

\* The other modes ask no one: full access takes the locks, auto leaves it to
\* the wrapped handler.
Unasked(c, kind, files) ==
  /\ call[c].pc = "idle" /\ mode # "ask"
  /\ Go(c, [Idle EXCEPT !.pc = IF mode = "full" THEN "prelock" ELSE "inner",
                        !.kind = kind, !.files = files, !.todo = files])
  /\ UNCHANGED <<permissionVars, lockVars, query>>

\* Mutated form of Respond: the request may be answered again.
RespondKeepingRequest(c, decision) ==
  /\ c \in pending
  /\ answering' = [answering EXCEPT ![c] = decision]
  /\ UNCHANGED <<mode, pending, channel, lockVars, call, query>>

\* respond: the request leaves pending; the waiter is told in a later section.
Respond(c, decision) ==
  /\ c \in pending
  /\ pending' = pending \ {c}
  /\ answering' = [answering EXCEPT ![c] = decision]
  /\ UNCHANGED <<mode, channel, lockVars, call, query>>

\* force_resolve_rejected_for_agent, when a turn is cancelled.
RejectAll(a) ==
  LET hit == {c \in pending : Owner[c] = a} IN
  /\ hit # {}
  /\ pending' = pending \ hit
  /\ answering' = [c \in Call |-> IF c \in hit THEN "reject" ELSE answering[c]]
  /\ UNCHANGED <<mode, channel, lockVars, call, query>>

\* The second half of both.
Deliver(c) ==
  /\ answering[c] # "none"
  /\ channel' = IF call[c].pc = "asking"
                THEN [channel EXCEPT ![c] = answering[c]] ELSE channel
  /\ answering' = [answering EXCEPT ![c] = "none"]
  /\ UNCHANGED <<mode, pending, lockVars, call, query>>

Decided(c) ==
  /\ call[c].pc = "asking" /\ channel[c] # "none"
  /\ Go(c, IF channel[c] = "allow"
           THEN [call[c] EXCEPT !.pc = "prelock", !.todo = call[c].files,
                                !.inner = TRUE]
           ELSE Idle)
  /\ channel' = [channel EXCEPT ![c] = "none"]
  /\ UNCHANGED <<mode, pending, answering, lockVars, query>>

AskTimeout(c) ==
  /\ call[c].pc = "asking" /\ channel[c] = "none"
  /\ Go(c, [call[c] EXCEPT !.pc = "timedout"])
  /\ UNCHANGED <<permissionVars, lockVars, query>>

\* force_resolve_rejected.  An answer that is on its way finds no one.
ForceReject(c) ==
  /\ call[c].pc = "timedout"
  /\ Go(c, Idle)
  /\ pending' = pending \ {c}
  /\ answering' = [answering EXCEPT ![c] = "none"]
  /\ UNCHANGED <<mode, channel, lockVars, query>>

SetMode(m) ==
  /\ mode # m 
  /\ mode' = m
  /\ UNCHANGED <<pending, answering, channel, lockVars, call, query>>

-----------------------------------------------------------------------------
\* try_pre_lock_files and try_acquire_write_lock_preemptive

\* The cache answers: the caller's own entry is success, another's a conflict.
PreLockCached(c, f) ==
  /\ call[c].pc = "prelock" /\ f \in call[c].todo
  /\ cache[f] \in Agent
  /\ Go(c, IF cache[f] = Me(c)
           THEN [call[c] EXCEPT !.todo = @ \ {f}, !.locked = @ \cup {f}]
           ELSE [call[c] EXCEPT !.pc = "undo", !.todo = {}])
  /\ UNCHANGED <<permissionVars, lockVars, query>>

\* It does not: the snapshot is taken, with nothing held.
PreLockMiss(c, f) ==
  /\ call[c].pc = "prelock" /\ f \in call[c].todo
  /\ cache[f] \notin Agent
  /\ Go(c, [call[c] EXCEPT !.pc = "insert", !.file = f])
  /\ UNCHANGED <<permissionVars, lockVars, query>>

Locked(c) ==
  [call[c] EXCEPT !.pc = "prelock", !.todo = @ \ {call[c].file},
                  !.locked = @ \cup {call[c].file}, !.file = "none"]

\* Mutated form of PreLockInsert: no conflict check.
PreLockInsertUnchecked(c) ==
  LET f == call[c].file IN
  /\ call[c].pc = "insert"
  /\ ~AtLimit(Me(c))
  /\ InsertRow(Me(c), f) /\ TakeFlock(f)
  /\ Go(c, Locked(c))
  /\ UNCHANGED <<permissionVars, query>>

\* The section under the connection's mutex: conflict check, limit, insert.
PreLockInsert(c) ==
  LET f == call[c].file IN
  /\ call[c].pc = "insert"
  /\ row[f] = NoOne /\ ~AtLimit(Me(c))
  /\ InsertRow(Me(c), f) /\ TakeFlock(f)
  /\ Go(c, Locked(c))
  /\ UNCHANGED <<permissionVars, query>>

\* The row is the caller's already; the cache is left as it is.
PreLockOwn(c) ==
  /\ call[c].pc = "insert" /\ row[call[c].file] = Me(c)
  /\ Go(c, Locked(c))
  /\ UNCHANGED <<permissionVars, lockVars, query>>

PreLockRefused(c) ==
  LET f == call[c].file IN
  /\ call[c].pc = "insert"
  /\ row[f] # Me(c)
  /\ row[f] # NoOne \/ AtLimit(Me(c))
  /\ Go(c, [call[c] EXCEPT !.pc = "undo", !.todo = {}, !.file = "none"])
  /\ UNCHANGED <<permissionVars, lockVars, query>>

\* A refused call gives back, one at a time, the paths it acquired.
Undo(c, f) ==
  /\ call[c].pc = "undo" /\ f \in call[c].locked
  /\ ReleaseLock(Me(c), f)
  /\ Go(c, [call[c] EXCEPT !.locked = @ \ {f}])
  /\ UNCHANGED <<permissionVars, query>>

Refused(c) ==
  /\ call[c].pc = "undo" /\ call[c].locked = {}
  /\ Go(c, Idle)
  /\ UNCHANGED <<permissionVars, lockVars, query>>

PreLockDone(c) ==
  /\ call[c].pc = "prelock" /\ call[c].todo = {}
  /\ Go(c, [call[c] EXCEPT !.pc = IF call[c].inner THEN "inner" ELSE "approved",
                           !.todo = IF call[c].inner THEN call[c].files ELSE {}])
  /\ UNCHANGED <<permissionVars, lockVars, query>>

-----------------------------------------------------------------------------
\* LockPermissionHandler::evaluate and auto_acquire_write_lock

\* The wrapped handler locks for edits, when it finds the lock manager.
Wrapped(c) == Me(c) \in Legacy /\ call[c].kind = "edit"

\* No conflict check: when the file has a row, whosever it is, the insert
\* fails on the unique index and counts as success.
InnerAcquire(c, f) ==
  /\ call[c].pc = "inner" /\ Wrapped(c) /\ f \in call[c].todo
  /\ ~AtLimit(Me(c))
  /\ IF row[f] = NoOne THEN InsertRow(Me(c), f) ELSE UNCHANGED <<row, lapsed, cache>>
  /\ Go(c, [call[c] EXCEPT !.todo = @ \ {f}])
  /\ UNCHANGED <<permissionVars, flock, query>>

\* At the limit the permission is refused; what was locked stays locked.
InnerRefused(c) ==
  /\ call[c].pc = "inner" /\ Wrapped(c) /\ call[c].todo # {}
  /\ AtLimit(Me(c))
  /\ Go(c, Idle)
  /\ UNCHANGED <<permissionVars, lockVars, query>>

InnerDone(c) ==
  /\ call[c].pc = "inner"
  /\ ~Wrapped(c) \/ call[c].todo = {}
  /\ Go(c, [call[c] EXCEPT !.pc = "approved", !.todo = {}])
  /\ UNCHANGED <<permissionVars, lockVars, query>>

-----------------------------------------------------------------------------
\* The tool, as the backend sees it (SessionUpdate::ToolCall, ToolCallUpdate)

\* The hooks run for edits, when they find the workspace in the identifier.
Hooked(c) == Me(c) \in Legacy /\ call[c].kind = "edit"

ToolStart(c) ==
  /\ call[c].pc = "approved"
  /\ IF Hooked(c) THEN RenewLocks(Me(c)) ELSE lapsed' = lapsed
  /\ Go(c, [call[c] EXCEPT !.pc = "running"])
  /\ UNCHANGED <<permissionVars, row, cache, flock, query>>

ToolEnd(c) ==
  /\ call[c].pc = "running"
  /\ Go(c, IF Hooked(c) THEN [call[c] EXCEPT !.pc = "releasing", !.todo = call[c].files]
           ELSE Idle)
  /\ UNCHANGED <<permissionVars, lockVars, query>>

ReleaseOne(c, f) ==
  /\ call[c].pc = "releasing" /\ f \in call[c].todo
  /\ ReleaseLock(Me(c), f)
  /\ Go(c, IF call[c].todo = {f} THEN Idle ELSE [call[c] EXCEPT !.todo = @ \ {f}])
  /\ UNCHANGED <<permissionVars, query>>

-----------------------------------------------------------------------------
\* Time, the sweep, the status queries and a restart

\* The row's expires_at passes.
Lapse(f) ==
  /\ Expiry /\ row[f] # NoOne /\ f \notin lapsed
  /\ lapsed' = lapsed \cup {f}
  /\ UNCHANGED <<permissionVars, row, cache, flock, call, query>>

\* expire_stale_locks, from the watchdog's tick: the rows only.
Sweep ==
  /\ lapsed # {}
  /\ row' = [f \in File |-> IF f \in lapsed THEN NoOne ELSE row[f]]
  /\ lapsed' = {}
  /\ UNCHANGED <<permissionVars, cache, flock, call, query>>

\* check_file_lock_status_normalized, when the cache does not answer (a
\* negative entry may be too old to): the row is read and the mutex released.
QueryRead(r, f) ==
  /\ query[r].file = "none" /\ cache[f] \notin Agent
  /\ cache' = [cache EXCEPT ![f] = NoOne]
  /\ query' = [query EXCEPT ![r] = [file |-> f, saw |-> row[f]]]
  /\ UNCHANGED <<permissionVars, row, lapsed, flock, call>>

QueryFill(r) ==
  /\ query[r].file # "none"
  /\ cache' = [cache EXCEPT ![query[r].file] =
                 IF query[r].saw = NoOne THEN Unlocked ELSE query[r].saw]
  /\ query' = [query EXCEPT ![r] = [file |-> "none", saw |-> NoOne]]
  /\ UNCHANGED <<permissionVars, row, lapsed, flock, call>>

\* start_cache_cleanup_task
CacheCleanup ==
  /\ \E f \in File : cache[f] = Unlocked
  /\ cache' = [f \in File |-> IF cache[f] = Unlocked THEN NoOne ELSE cache[f]]
  /\ UNCHANGED <<permissionVars, row, lapsed, flock, call, query>>

\* The process goes, and its agents with it; a new manager sweeps the rows.
Restart ==
  /\ Restarts
  /\ mode' = "ask"
  /\ call' = [c \in Call |-> Idle]
  /\ pending' = {}
  /\ answering' = [c \in Call |-> "none"]
  /\ channel' = [c \in Call |-> "none"]
  /\ row' = [f \in File |-> IF f \in lapsed THEN NoOne ELSE row[f]]
  /\ lapsed' = {}
  /\ cache' = [f \in File |-> NoOne]
  /\ flock' = {}
  /\ query' = [r \in Reader |-> [file |-> "none", saw |-> NoOne]]

-----------------------------------------------------------------------------
Kinds == {"edit", "execute"}

\* An agent's request comes with at least one path; without one no lock is
\* involved.
Request(c) ==
  \E kind \in Kinds, files \in (SUBSET File) \ {{}} :
    Ask(c, kind, files) \/ Unasked(c, kind, files)

Next ==
  \/ \E c \in Call :
       \/ Request(c)
       \/ \E d \in {"allow", "reject"} : Respond(c, d)
       \/ Deliver(c) \/ Decided(c) \/ AskTimeout(c) \/ ForceReject(c)
       \/ \E f \in File : \/ PreLockCached(c, f) \/ PreLockMiss(c, f)
                          \/ Undo(c, f) \/ InnerAcquire(c, f) \/ ReleaseOne(c, f)
       \/ PreLockInsert(c) \/ PreLockOwn(c) \/ PreLockRefused(c)
       \/ Refused(c) \/ PreLockDone(c) \/ InnerRefused(c) \/ InnerDone(c)
       \/ ToolStart(c) \/ ToolEnd(c)
  \/ \E a \in Agent : RejectAll(a)
  \/ \E m \in Modes : SetMode(m)
  \/ \E f \in File : Lapse(f)
  \/ Sweep \/ CacheCleanup \/ Restart
  \/ \E r \in Reader : QueryFill(r) \/ \E f \in File : QueryRead(r, f)

Spec == Init /\ [][Next]_vars

-----------------------------------------------------------------------------
TypeOK ==
  /\ mode \in {"ask", "auto", "full"}
  /\ call \in [Call -> CallState]
  /\ pending \subseteq Call
  /\ answering \in [Call -> {"none", "allow", "reject"}]
  /\ channel \in [Call -> {"none", "allow", "reject"}]
  /\ row \in [File -> Agent \cup {NoOne}]
  /\ lapsed \subseteq {f \in File : row[f] # NoOne}
  /\ cache \in [File -> Agent \cup {NoOne, Unlocked}]
  /\ flock \subseteq File
  /\ query \in [Reader -> [file : File \cup {"none"}, saw : Agent \cup {NoOne}]]

\* What a call that was allowed to write believes it has locked.
Guarded(c) == IF Writing(c) THEN call[c].locked ELSE {}

\* Two agents never write a file that both were told they had locked: what
\* try_acquire_write_lock_preemptive is for ("instead of letting two agents
\* stomp on each other's changes").  It rests on the cache as much as on the
\* rows: after a sweep the entry of an expired lock is all there is.
OneGuardedWriter ==
  \A c, d \in Call : Guarded(c) \cap Guarded(d) # {} => Owner[c] = Owner[d]

\* A file that a call writes under a lock loses its row only by expiry, when
\* the call has ended, or by another call of the same agent giving it back.
LockKept ==
  \A c \in Call : \A f \in Guarded(c) :
    row[f] = Owner[c] /\ row'[f] # Owner[c]
      => \/ f \in lapsed
         \/ ~Writing(c)'
         \/ \E d \in Call \ {c} : /\ Owner[d] = Owner[c]
                                 /\ f \in call[d].files
                                 /\ call[d].pc \in {"undo", "releasing"}

KeptWhileWriting == [][LockKept]_vars

\* A request is answered at most once, and a user is never shown one whose
\* call no longer waits: it leaves the pending requests before its answer is
\* sent, by a response, by the cancelling of a turn or by the timeout, in
\* whatever order they come.
OneAnswer ==
  \A c \in Call :
    /\ c \in pending => call[c].pc \in {"asking", "timedout"}
    /\ answering[c] # "none" => c \notin pending /\ channel[c] = "none"
    /\ channel[c] # "none" => c \notin pending /\ call[c].pc = "asking"

\* The cache is asked before the rows and believed: where no lock expires and
\* no status query fills the cache with what it read a while ago, its entry
\* is the row's (auto_acquire_write_lock and the pre-lock invalidate and fill
\* it in the section that writes the row).
CacheAgrees ==
  \A f \in File : cache[f] # NoOne => cache[f] = row[f]

\* An open flock belongs to a lock, so that no file stays locked against the
\* other processes when its lock has gone: where no lock expires, one of a row.
FlockBelongs ==
  \A f \in flock : row[f] # NoOne

\* So the three records of a lock, its entry in the cache, its row and its open
\* file, agree.
LockRecordsAgree == CacheAgrees /\ FlockBelongs
=============================================================================
