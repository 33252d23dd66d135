-------------------------- MODULE ToolGate_proofs --------------------------
(***************************************************************************)
(* Proofs about ToolGate, for any number of agents, files, calls, readers, *)
(* every limit and every set of modes: type correctness, at most one       *)
(* answer to a request, for what reasons a writer loses its lock, and,     *)
(* where no lock expires, one writer at a time.                            *)
(***************************************************************************)
EXTENDS ToolGate, TLAPS

-----------------------------------------------------------------------------
(***************************************************************************)
(* Type correctness.  A call takes and gives back only the files it was    *)
(* asked for, and knows which of them it is about to lock.                 *)
(***************************************************************************)
FilesOK(k) ==
  /\ k.locked \subseteq k.files /\ k.todo \subseteq k.files
  /\ k.pc = "insert" => k.file \in k.files

TypeInv == TypeOK /\ \A c \in Call : FilesOK(call[c])

\* A call that is about its own files.
Sound == {k \in CallState : FilesOK(k)}

CallsOK == call \in [Call -> Sound]

LocksOK ==
  /\ row \in [File -> Agent \cup {NoOne}]
  /\ lapsed \subseteq {f \in File : row[f] # NoOne}
  /\ cache \in [File -> Agent \cup {NoOne, Unlocked}]
  /\ flock \subseteq File

PermissionsOK ==
  /\ mode \in {"ask", "auto", "full"}
  /\ pending \subseteq Call
  /\ answering \in [Call -> {"none", "allow", "reject"}]
  /\ channel \in [Call -> {"none", "allow", "reject"}]

QueriesOK == query \in [Reader -> [file : File \cup {"none"}, saw : Agent \cup {NoOne}]]

\* The invariant in its four parts.
LEMMA TypeParts == TypeInv <=> CallsOK /\ LocksOK /\ PermissionsOK /\ QueriesOK
BY DEF TypeInv, TypeOK, CallsOK, LocksOK, PermissionsOK, QueriesOK, Sound

LEMMA TypePartsNext == TypeInv' <=> CallsOK' /\ LocksOK' /\ PermissionsOK' /\ QueriesOK'
BY DEF TypeInv, TypeOK, CallsOK, LocksOK, PermissionsOK, QueriesOK, Sound, FilesOK

\* A step of one call leaves the others where they are.
LEMMA GoStep ==
  ASSUME CallsOK, NEW c \in Call, NEW k \in Sound, Go(c, k)
  PROVE  /\ CallsOK'
         /\ call'[c] = k
         /\ \A d \in Call \ {c} : call'[d] = call[d]
BY DEF CallsOK, Go

LEMMA IdleSound == Idle \in Sound
BY DEF Idle, Sound, FilesOK, CallState

\* A call at one of these control points is about its files wherever it goes
\* with them.
LEMMA PcSound ==
  ASSUME NEW k \in Sound,
         NEW pc \in {"timedout", "prelock", "undo", "inner", "approved", "running", "releasing"}
  PROVE  [k EXCEPT !.pc = pc] \in Sound
BY DEF Sound, FilesOK, CallState

LEMMA TodoSound ==
  ASSUME NEW k \in Sound, NEW S \in SUBSET k.files
  PROVE  [k EXCEPT !.todo = S] \in Sound
BY DEF Sound, FilesOK, CallState

LEMMA LockedSound ==
  ASSUME NEW k \in Sound, NEW S \in SUBSET k.files
  PROVE  [k EXCEPT !.locked = S] \in Sound
BY DEF Sound, FilesOK, CallState

\* A new request.
LEMMA RequestSound ==
  ASSUME NEW kind \in Kinds, NEW S \in SUBSET File, NEW T \in SUBSET S,
         NEW pc \in {"asking", "prelock", "inner"}
  PROVE  [Idle EXCEPT !.pc = pc, !.kind = kind, !.files = S, !.todo = T] \in Sound
BY DEF Idle, Sound, FilesOK, CallState, Kinds

\* The three sections of the lock manager that write a lock.
LEMMA InsertType ==
  ASSUME LocksOK, NEW a \in Agent, NEW f \in File, InsertRow(a, f)
  PROVE  /\ row' \in [File -> Agent \cup {NoOne}]
         /\ lapsed' \subseteq {x \in File : row'[x] # NoOne}
         /\ cache' \in [File -> Agent \cup {NoOne, Unlocked}]
BY NamesAssumption DEF LocksOK, InsertRow

LEMMA ReleaseType ==
  ASSUME LocksOK, NEW a, NEW f \in File, ReleaseLock(a, f)
  PROVE  LocksOK'
BY DEF LocksOK, ReleaseLock, lockVars

LEMMA TypeKept ==
  ASSUME TypeInv
  PROVE  /\ UNCHANGED lockVars => LocksOK'
         /\ UNCHANGED permissionVars => PermissionsOK'
         /\ UNCHANGED query => QueriesOK'
         /\ UNCHANGED call => CallsOK'
BY TypeParts DEF LocksOK, PermissionsOK, QueriesOK, CallsOK, lockVars, permissionVars

\* What the steps of a call do to it, in one lemma for the steps that touch
\* nothing else.
LEMMA TypeOfAsking ==
  ASSUME TypeInv, NEW c \in Call,
         Request(c) \/ Decided(c) \/ AskTimeout(c) \/ ForceReject(c)
  PROVE  TypeInv'
<1>1. CallsOK /\ LocksOK /\ PermissionsOK /\ QueriesOK /\ call[c] \in Sound
  BY TypeParts DEF CallsOK
<1>2. CASE Request(c)
  <2>1. PICK kind \in Kinds, files \in (SUBSET File) \ {{}} :
             Ask(c, kind, files) \/ Unasked(c, kind, files)
    BY <1>2 DEF Request
  <2>2. CASE Ask(c, kind, files)
    <3>1. [Idle EXCEPT !.pc = "asking", !.kind = kind, !.files = files] \in Sound
      BY DEF Idle, Sound, FilesOK, CallState, Kinds
    <3>2. CallsOK'
      BY <1>1, <2>2, <3>1, GoStep DEF Ask
    <3>3. PermissionsOK'
      BY <1>1, <2>2 DEF Ask, PermissionsOK
    <3>4. QED
      BY <2>2, <3>2, <3>3, TypeKept, TypePartsNext DEF Ask
  <2>3. CASE Unasked(c, kind, files)
    <3>1. \A pc \in {"prelock", "inner"} :
            [Idle EXCEPT !.pc = pc, !.kind = kind, !.files = files, !.todo = files] \in Sound
      BY RequestSound
    <3>2. CallsOK'
      BY <1>1, <2>3, <3>1, GoStep DEF Unasked
    <3>3. QED
      BY <2>3, <3>2, TypeKept, TypePartsNext DEF Unasked
  <2>4. QED
    BY <2>1, <2>2, <2>3
<1>3. CASE Decided(c)
  <2>1. [call[c] EXCEPT !.pc = "prelock", !.todo = call[c].files, !.inner = TRUE] \in Sound
    BY <1>1 DEF Sound, FilesOK, CallState
  <2>2. CallsOK'
    BY <1>1, <1>3, <2>1, IdleSound, GoStep DEF Decided
  <2>3. PermissionsOK'
    BY <1>1, <1>3 DEF Decided, PermissionsOK
  <2>4. QED
    BY <1>3, <2>2, <2>3, TypeKept, TypePartsNext DEF Decided
<1>4. CASE AskTimeout(c)
  <2>1. CallsOK'
    BY <1>1, <1>4, PcSound, GoStep DEF AskTimeout
  <2>2. QED
    BY <1>4, <2>1, TypeKept, TypePartsNext DEF AskTimeout
<1>5. CASE ForceReject(c)
  <2>1. CallsOK'
    BY <1>1, <1>5, IdleSound, GoStep DEF ForceReject
  <2>2. PermissionsOK'
    BY <1>1, <1>5 DEF ForceReject, PermissionsOK
  <2>3. QED
    BY <1>5, <2>1, <2>2, TypeKept, TypePartsNext DEF ForceReject
<1>6. QED
  BY <1>2, <1>3, <1>4, <1>5

\* The locking of the files, and its undoing.
LEMMA TypeOfPreLock ==
  ASSUME TypeInv, NEW c \in Call,
         \/ \E f \in File : PreLockCached(c, f) \/ PreLockMiss(c, f) \/ Undo(c, f)
         \/ PreLockInsert(c) \/ PreLockOwn(c) \/ PreLockRefused(c)
         \/ Refused(c) \/ PreLockDone(c)
  PROVE  TypeInv'
<1>1. CallsOK /\ LocksOK /\ PermissionsOK /\ QueriesOK /\ call[c] \in Sound
  BY TypeParts DEF CallsOK
<1>2. ASSUME NEW f \in File, PreLockCached(c, f) PROVE TypeInv'
  <2>1. /\ [call[c] EXCEPT !.todo = @ \ {f}, !.locked = @ \cup {f}] \in Sound
        /\ [call[c] EXCEPT !.pc = "undo", !.todo = {}] \in Sound
    BY <1>1, <1>2 DEF Sound, FilesOK, CallState, PreLockCached
  <2>2. CallsOK'
    BY <1>1, <1>2, <2>1, GoStep DEF PreLockCached
  <2>3. QED
    BY <1>2, <2>2, TypeKept, TypePartsNext DEF PreLockCached
<1>3. ASSUME NEW f \in File, PreLockMiss(c, f) PROVE TypeInv'
  <2>1. [call[c] EXCEPT !.pc = "insert", !.file = f] \in Sound
    BY <1>1, <1>3 DEF Sound, FilesOK, CallState, PreLockMiss
  <2>2. CallsOK'
    BY <1>1, <1>3, <2>1, GoStep DEF PreLockMiss
  <2>3. QED
    BY <1>3, <2>2, TypeKept, TypePartsNext DEF PreLockMiss
<1>4. ASSUME NEW f \in File, Undo(c, f) PROVE TypeInv'
  <2>1. [call[c] EXCEPT !.locked = @ \ {f}] \in Sound
    BY <1>1 DEF Sound, FilesOK, CallState
  <2>2. CallsOK'
    BY <1>1, <1>4, <2>1, GoStep DEF Undo
  <2>3. LocksOK'
    BY <1>1, <1>4, ReleaseType DEF Undo
  <2>4. QED
    BY <1>4, <2>2, <2>3, TypeKept, TypePartsNext DEF Undo
<1>5. call[c].pc = "insert" => call[c].file \in File /\ Locked(c) \in Sound
  BY <1>1 DEF Sound, FilesOK, CallState, Locked
<1>6. CASE PreLockInsert(c)
  <2>1. Me(c) \in Agent
    BY GateAssumption DEF Me
  <2>2. CallsOK'
    BY <1>1, <1>5, <1>6, GoStep DEF PreLockInsert
  <2>3. LocksOK'
    BY <1>1, <1>5, <1>6, <2>1, InsertType DEF PreLockInsert, TakeFlock, LocksOK
  <2>4. QED
    BY <1>6, <2>2, <2>3, TypeKept, TypePartsNext DEF PreLockInsert
<1>7. CASE PreLockOwn(c)
  <2>1. CallsOK'
    BY <1>1, <1>5, <1>7, GoStep DEF PreLockOwn
  <2>2. QED
    BY <1>7, <2>1, TypeKept, TypePartsNext DEF PreLockOwn
<1>8. CASE PreLockRefused(c)
  <2>1. [call[c] EXCEPT !.pc = "undo", !.todo = {}, !.file = "none"] \in Sound
    BY <1>1 DEF Sound, FilesOK, CallState
  <2>2. CallsOK'
    BY <1>1, <1>8, <2>1, GoStep DEF PreLockRefused
  <2>3. QED
    BY <1>8, <2>2, TypeKept, TypePartsNext DEF PreLockRefused
<1>9. CASE Refused(c)
  <2>1. CallsOK'
    BY <1>1, <1>9, IdleSound, GoStep DEF Refused
  <2>2. QED
    BY <1>9, <2>1, TypeKept, TypePartsNext DEF Refused
<1>10. CASE PreLockDone(c)
  <2>1. /\ [call[c] EXCEPT !.pc = "inner", !.todo = call[c].files] \in Sound
        /\ [call[c] EXCEPT !.pc = "approved", !.todo = {}] \in Sound
    BY <1>1 DEF Sound, FilesOK, CallState
  <2>2. CallsOK'
    BY <1>1, <1>10, <2>1, GoStep DEF PreLockDone
  <2>3. QED
    BY <1>10, <2>2, TypeKept, TypePartsNext DEF PreLockDone
<1>11. QED
  BY <1>2, <1>3, <1>4, <1>6, <1>7, <1>8, <1>9, <1>10

\* The wrapped handler and the tool.
LEMMA TypeOfTool ==
  ASSUME TypeInv, NEW c \in Call,
         \/ \E f \in File : InnerAcquire(c, f) \/ ReleaseOne(c, f)
         \/ InnerRefused(c) \/ InnerDone(c) \/ ToolStart(c) \/ ToolEnd(c)
  PROVE  TypeInv'
<1>1. CallsOK /\ LocksOK /\ PermissionsOK /\ QueriesOK /\ call[c] \in Sound
  BY TypeParts DEF CallsOK
<1>2. \A f : [call[c] EXCEPT !.todo = @ \ {f}] \in Sound
  BY <1>1 DEF Sound, FilesOK, CallState
<1>3. ASSUME NEW f \in File, InnerAcquire(c, f) PROVE TypeInv'
  <2>1. Me(c) \in Agent
    BY GateAssumption DEF Me
  <2>2. CallsOK'
    BY <1>1, <1>2, <1>3, GoStep DEF InnerAcquire
  <2>3. LocksOK'
    BY <1>1, <1>3, <2>1, InsertType DEF InnerAcquire, LocksOK
  <2>4. QED
    BY <1>3, <2>2, <2>3, TypeKept, TypePartsNext DEF InnerAcquire
<1>4. ASSUME NEW f \in File, ReleaseOne(c, f) PROVE TypeInv'
  <2>1. CallsOK'
    BY <1>1, <1>2, <1>4, IdleSound, GoStep DEF ReleaseOne
  <2>2. LocksOK'
    BY <1>1, <1>4, ReleaseType DEF ReleaseOne
  <2>3. QED
    BY <1>4, <2>1, <2>2, TypeKept, TypePartsNext DEF ReleaseOne
<1>5. CASE InnerRefused(c)
  <2>1. CallsOK'
    BY <1>1, <1>5, IdleSound, GoStep DEF InnerRefused
  <2>2. QED
    BY <1>5, <2>1, TypeKept, TypePartsNext DEF InnerRefused
<1>6. CASE InnerDone(c)
  <2>1. [call[c] EXCEPT !.pc = "approved", !.todo = {}] \in Sound
    BY <1>1 DEF Sound, FilesOK, CallState
  <2>2. CallsOK'
    BY <1>1, <1>6, <2>1, GoStep DEF InnerDone
  <2>3. QED
    BY <1>6, <2>2, TypeKept, TypePartsNext DEF InnerDone
<1>7. CASE ToolStart(c)
  <2>1. CallsOK'
    BY <1>1, <1>7, PcSound, GoStep DEF ToolStart
  <2>2. LocksOK'
    BY <1>1, <1>7 DEF ToolStart, RenewLocks, LocksOK
  <2>3. QED
    BY <1>7, <2>1, <2>2, TypeKept, TypePartsNext DEF ToolStart
<1>8. CASE ToolEnd(c)
  <2>1. [call[c] EXCEPT !.pc = "releasing", !.todo = call[c].files] \in Sound
    BY <1>1 DEF Sound, FilesOK, CallState
  <2>2. CallsOK'
    BY <1>1, <1>8, <2>1, IdleSound, GoStep DEF ToolEnd
  <2>3. QED
    BY <1>8, <2>2, TypeKept, TypePartsNext DEF ToolEnd
<1>9. QED
  BY <1>3, <1>4, <1>5, <1>6, <1>7, <1>8

\* Answers, the mode, time, queries and a restart.
LEMMA TypeOfRest ==
  ASSUME TypeInv,
         \/ \E c \in Call : Deliver(c) \/ \E d \in {"allow", "reject"} : Respond(c, d)
         \/ \E a \in Agent : RejectAll(a)
         \/ \E m \in Modes : SetMode(m)
         \/ \E f \in File : Lapse(f)
         \/ Sweep \/ CacheCleanup \/ Restart
         \/ \E r \in Reader : QueryFill(r) \/ \E f \in File : QueryRead(r, f)
  PROVE  TypeInv'
<1>1. CallsOK /\ LocksOK /\ PermissionsOK /\ QueriesOK
  BY TypeParts
<1>2. ASSUME NEW c \in Call, Deliver(c) \/ \E d \in {"allow", "reject"} : Respond(c, d)
      PROVE  TypeInv'
  <2>1. PermissionsOK' /\ UNCHANGED <<lockVars, call, query>>
    BY <1>1, <1>2 DEF Deliver, Respond, PermissionsOK
  <2>2. QED
    BY <2>1, TypeKept, TypePartsNext
<1>3. ASSUME NEW a \in Agent, RejectAll(a) PROVE TypeInv'
  <2>1. PermissionsOK' /\ UNCHANGED <<lockVars, call, query>>
    BY <1>1, <1>3 DEF RejectAll, PermissionsOK
  <2>2. QED
    BY <2>1, TypeKept, TypePartsNext
<1>4. ASSUME NEW m \in Modes, SetMode(m) PROVE TypeInv'
  <2>1. PermissionsOK' /\ UNCHANGED <<lockVars, call, query>>
    BY <1>1, <1>4, GateAssumption DEF SetMode, PermissionsOK
  <2>2. QED
    BY <2>1, TypeKept, TypePartsNext
<1>5. CASE Sweep \/ CacheCleanup \/ \E f \in File : Lapse(f)
  <2>1. LocksOK' /\ UNCHANGED <<permissionVars, call, query>>
    BY <1>1, <1>5 DEF Sweep, CacheCleanup, Lapse, LocksOK
  <2>2. QED
    BY <2>1, TypeKept, TypePartsNext
<1>6. ASSUME NEW r \in Reader, QueryFill(r) \/ \E f \in File : QueryRead(r, f)
      PROVE  TypeInv'
  <2>1. LocksOK' /\ QueriesOK' /\ UNCHANGED <<permissionVars, call>>
    BY <1>1, <1>6 DEF QueryFill, QueryRead, LocksOK, QueriesOK
  <2>2. QED
    BY <2>1, TypeKept, TypePartsNext
<1>7. CASE Restart
  <2>1. CallsOK'
    BY <1>7, IdleSound DEF Restart, CallsOK
  <2>2. LocksOK' /\ PermissionsOK' /\ QueriesOK'
    BY <1>1, <1>7 DEF Restart, LocksOK, PermissionsOK, QueriesOK
  <2>3. QED
    BY <2>1, <2>2, TypePartsNext
<1>8. QED
  BY <1>2, <1>3, <1>4, <1>5, <1>6, <1>7

\* Whatever can happen keeps the types.
LEMMA TypeNext == ASSUME TypeInv, [Next]_vars PROVE TypeInv'
<1>1. CASE UNCHANGED vars
  BY <1>1, TypeKept, TypePartsNext DEF vars
<1>2. CASE Next
  BY <1>2, TypeOfAsking, TypeOfPreLock, TypeOfTool, TypeOfRest DEF Next
<1>3. QED
  BY <1>1, <1>2

LEMMA TypeInvariant == Spec => []TypeInv
<1>1. Init => TypeInv
  <2> SUFFICES ASSUME Init PROVE CallsOK /\ LocksOK /\ PermissionsOK /\ QueriesOK
    BY TypeParts
  <2>1. CallsOK
    BY IdleSound DEF Init, CallsOK
  <2>2. QED
    BY <2>1 DEF Init, LocksOK, PermissionsOK, QueriesOK
<1>2. QED
  BY <1>1, TypeNext, PTL DEF Spec

\* Every reachable state is well typed; in particular only a file with a row
\* lapses.
THEOREM TypeCorrect == Spec => []TypeOK
BY TypeInvariant, PTL DEF TypeInv

-----------------------------------------------------------------------------
(***************************************************************************)
(* One answer.  A request is in one place at most: pending, taken and not  *)
(* yet sent, or in its channel; and a call waits for the latter.  That     *)
(* much is inductive.                                                      *)
(***************************************************************************)
LEMMA AnswerNext == ASSUME TypeInv, OneAnswer, [Next]_vars PROVE OneAnswer'
<1> USE DEF OneAnswer
<1>1. CallsOK /\ PermissionsOK
  BY TypeParts
<1>4. ASSUME NEW c \in Call, Request(c) PROVE OneAnswer'
  <2>1. PICK kind \in Kinds, files \in (SUBSET File) \ {{}} :
             Ask(c, kind, files) \/ Unasked(c, kind, files)
    BY <1>4 DEF Request
  <2>2. CASE Ask(c, kind, files)
    BY <1>1, <2>2 DEF Ask, Go, CallsOK, PermissionsOK, Idle
  <2>3. CASE Unasked(c, kind, files)
    BY <1>1, <2>3 DEF Unasked, Go, CallsOK, PermissionsOK, Idle, permissionVars
  <2>4. QED
    BY <2>1, <2>2, <2>3
<1>5. ASSUME NEW c \in Call,
             \/ Deliver(c) \/ Decided(c) \/ AskTimeout(c) \/ ForceReject(c)
             \/ \E d \in {"allow", "reject"} : Respond(c, d)
      PROVE  OneAnswer'
  <2>1. CASE Deliver(c) \/ \E d \in {"allow", "reject"} : Respond(c, d)
    BY <1>1, <2>1 DEF Deliver, Respond, PermissionsOK
  <2>2. CASE Decided(c)
    BY <1>1, <2>2 DEF Decided, Go, CallsOK, Sound, CallState, PermissionsOK, Idle
  <2>3. CASE AskTimeout(c) \/ ForceReject(c)
    BY <1>1, <2>3
       DEF AskTimeout, ForceReject, Go, CallsOK, Sound, CallState, PermissionsOK, Idle,
           permissionVars
  <2>4. QED
    BY <1>5, <2>1, <2>2, <2>3
<1>6. ASSUME NEW a \in Agent, RejectAll(a) PROVE OneAnswer'
  BY <1>1, <1>6 DEF RejectAll, PermissionsOK
<1>7. ASSUME NEW c \in Call,
             \/ PreLockInsert(c) \/ PreLockOwn(c) \/ PreLockRefused(c)
             \/ Refused(c) \/ PreLockDone(c) \/ InnerRefused(c) \/ InnerDone(c)
             \/ ToolStart(c) \/ ToolEnd(c)
             \/ \E f \in File : \/ PreLockCached(c, f) \/ PreLockMiss(c, f)
                                \/ Undo(c, f) \/ InnerAcquire(c, f) \/ ReleaseOne(c, f)
      PROVE  OneAnswer'
  <2>1. UNCHANGED permissionVars /\ call[c].pc \notin {"asking", "timedout"}
    BY <1>7
       DEF PreLockInsert, PreLockOwn, PreLockRefused, Refused, PreLockDone, InnerRefused,
           InnerDone, ToolStart, ToolEnd, PreLockCached, PreLockMiss, Undo, InnerAcquire,
           ReleaseOne
  <2>2. call[c] \in CallState
    BY <1>1 DEF CallsOK, Sound
  <2>3. \A d \in Call \ {c} : call'[d] = call[d]
    BY <1>1, <1>7
       DEF PreLockInsert, PreLockOwn, PreLockRefused, Refused, PreLockDone, InnerRefused,
           InnerDone, ToolStart, ToolEnd, PreLockCached, PreLockMiss, Undo, InnerAcquire,
           ReleaseOne, Go, CallsOK
  <2>4. call'[c].pc # "asking"
    <3>1. CASE PreLockInsert(c) \/ PreLockOwn(c)
      <4>1. call'[c] = Locked(c)
        BY <1>1, <3>1 DEF PreLockInsert, PreLockOwn, Go, CallsOK
      <4>2. QED
        BY <2>2, <4>1 DEF Locked, CallState
    <3>2. CASE PreLockRefused(c)
      <4>1. call'[c] = [call[c] EXCEPT !.pc = "undo", !.todo = {}, !.file = "none"]
        BY <1>1, <3>2 DEF PreLockRefused, Go, CallsOK
      <4>2. QED
        BY <2>2, <4>1 DEF CallState
    <3>3. CASE PreLockDone(c) \/ InnerDone(c)
      <4>1. \/ call'[c] = [call[c] EXCEPT !.pc = "inner", !.todo = call[c].files]
            \/ call'[c] = [call[c] EXCEPT !.pc = "approved", !.todo = {}]
        BY <1>1, <3>3 DEF PreLockDone, InnerDone, Go, CallsOK
      <4>2. CASE call'[c] = [call[c] EXCEPT !.pc = "inner", !.todo = call[c].files]
        BY <2>2, <4>2 DEF CallState
      <4>3. CASE call'[c] = [call[c] EXCEPT !.pc = "approved", !.todo = {}]
        BY <2>2, <4>3 DEF CallState
      <4>4. QED
        BY <4>1, <4>2, <4>3
    <3>4. CASE ToolStart(c) \/ ToolEnd(c)
      <4>1. \/ call'[c] = Idle
            \/ call'[c] = [call[c] EXCEPT !.pc = "running"]
            \/ call'[c] = [call[c] EXCEPT !.pc = "releasing", !.todo = call[c].files]
        BY <1>1, <3>4 DEF ToolStart, ToolEnd, Go, CallsOK
      <4>2. CASE call'[c] = [call[c] EXCEPT !.pc = "running"]
        BY <2>2, <4>2 DEF CallState
      <4>3. CASE call'[c] = [call[c] EXCEPT !.pc = "releasing", !.todo = call[c].files]
        BY <2>2, <4>3 DEF CallState
      <4>4. QED
        BY <4>1, <4>2, <4>3 DEF Idle
    <3>5. CASE Refused(c) \/ InnerRefused(c)
      BY <1>1, <3>5 DEF Refused, InnerRefused, Go, CallsOK, Idle
    <3>6. ASSUME NEW f \in File, PreLockCached(c, f) \/ PreLockMiss(c, f) \/ Undo(c, f)
          PROVE  call'[c].pc # "asking"
      BY <1>1, <2>2, <3>6 DEF PreLockCached, PreLockMiss, Undo, Go, CallsOK, CallState
    <3>7. ASSUME NEW f \in File, InnerAcquire(c, f) \/ ReleaseOne(c, f)
          PROVE  call'[c].pc # "asking"
      BY <1>1, <2>2, <3>7 DEF InnerAcquire, ReleaseOne, Go, Idle, CallsOK, CallState
    <3>8. QED
      BY <1>7, <3>1, <3>2, <3>3, <3>4, <3>5, <3>6, <3>7
  <2>5. QED
    BY <2>1, <2>3, <2>4 DEF permissionVars
<1>8. CASE Restart
  BY <1>8 DEF Restart
<1>9. CASE \/ UNCHANGED vars
           \/ \E m \in Modes : SetMode(m)
           \/ \E f \in File : Lapse(f)
           \/ Sweep \/ CacheCleanup
           \/ \E r \in Reader : QueryFill(r) \/ \E f \in File : QueryRead(r, f)
  BY <1>9 DEF vars, permissionVars, SetMode, Lapse, Sweep, CacheCleanup, QueryFill, QueryRead
<1>10. QED
  BY <1>4, <1>5, <1>6, <1>7, <1>8, <1>9 DEF Next

\* A request is answered at most once, and none is pending whose call has gone,
\* in whatever order answers, timeouts and cancelled turns come.
THEOREM AnsweredOnce == Spec => []OneAnswer
<1>1. Init => OneAnswer
  BY DEF Init, OneAnswer
<1>2. QED
  BY <1>1, AnswerNext, TypeInvariant, PTL DEF Spec

-----------------------------------------------------------------------------
(***************************************************************************)
(* How a writer loses its lock.  A row changes hands only through the      *)
(* free state: an insert wants no row, a release wants the caller's own.   *)
(***************************************************************************)

\* A row that was taken is given up by a release of its agent's or a sweep.
LEMMA RowLost ==
  ASSUME TypeInv, [Next]_vars, NEW f \in File, NEW a \in Agent, row[f] = a, row'[f] # a
  PROVE  \/ f \in lapsed
         \/ Restart
         \/ \E d \in Call : /\ Owner[d] = a /\ f \in call[d].files
                            /\ call[d].pc \in {"undo", "releasing"}
<1>1. CallsOK /\ LocksOK
  BY TypeParts
<1>2. a # NoOne
  BY NamesAssumption
<1>3. \A d \in Call : call[d].locked \subseteq call[d].files /\ call[d].todo \subseteq call[d].files
  BY DEF TypeInv, FilesOK
<1>4. ASSUME NEW d \in Call,
             \/ PreLockInsert(d)
             \/ \E x \in File : Undo(d, x) \/ InnerAcquire(d, x) \/ ReleaseOne(d, x)
      PROVE  /\ Owner[d] = a /\ f \in call[d].files
             /\ call[d].pc \in {"undo", "releasing"}
  BY <1>1, <1>2, <1>3, <1>4
     DEF PreLockInsert, Undo, InnerAcquire, ReleaseOne, ReleaseLock, InsertRow, LocksOK, Me,
         lockVars
<1>5. CASE \/ UNCHANGED vars
           \/ \E d \in Call :
                \/ Request(d)
                \/ \E x \in {"allow", "reject"} : Respond(d, x)
                \/ Deliver(d) \/ Decided(d) \/ AskTimeout(d) \/ ForceReject(d)
                \/ \E x \in File : PreLockCached(d, x) \/ PreLockMiss(d, x)
                \/ PreLockOwn(d) \/ PreLockRefused(d)
                \/ Refused(d) \/ PreLockDone(d) \/ InnerRefused(d) \/ InnerDone(d)
                \/ ToolStart(d) \/ ToolEnd(d)
           \/ \E x \in Agent : RejectAll(x)
           \/ \E m \in Modes : SetMode(m)
           \/ \E x \in File : Lapse(x)
           \/ CacheCleanup
           \/ \E r \in Reader : QueryFill(r) \/ \E x \in File : QueryRead(r, x)
  <2>1. row' = row
    BY <1>5
       DEF vars, lockVars, Request, Ask, Unasked, Respond, Deliver, Decided, AskTimeout,
           ForceReject, PreLockCached, PreLockMiss, PreLockOwn, PreLockRefused, Refused,
           PreLockDone, InnerRefused, InnerDone, ToolStart, ToolEnd, RejectAll, SetMode,
           Lapse, CacheCleanup, QueryFill, QueryRead
  <2>2. QED
    BY <2>1
<1>6. CASE Sweep
  BY <1>6 DEF Sweep
<1>7. QED
  BY <1>4, <1>5, <1>6 DEF Next

\* While a call writes a file, its agent's row goes only by expiry, by the
\* call's end, or by a parallel call of the same agent.
THEOREM WriterKeepsLock == Spec => KeptWhileWriting
<1>1. ASSUME TypeInv, [Next]_vars, NEW c \in Call, NEW f \in Guarded(c),
             row[f] = Owner[c], row'[f] # Owner[c]
      PROVE  \/ f \in lapsed
             \/ ~Writing(c)'
             \/ \E d \in Call \ {c} : /\ Owner[d] = Owner[c]
                                      /\ f \in call[d].files
                                      /\ call[d].pc \in {"undo", "releasing"}
  <2>1. Writing(c) /\ f \in File /\ Owner[c] \in Agent
    BY <1>1, GateAssumption DEF Guarded, TypeInv, TypeOK, CallState
  <2>2. call[c].pc \notin {"undo", "releasing"}
    BY <2>1 DEF Writing
  <2>3. Restart => ~Writing(c)'
    BY DEF Restart, Writing, Idle
  <2>4. QED
    BY <1>1, <2>1, <2>2, <2>3, RowLost
<1>2. TypeInv /\ [Next]_vars => LockKept
  BY <1>1 DEF LockKept
<1>3. QED
  BY <1>2, TypeInvariant, PTL DEF Spec, KeptWhileWriting

-----------------------------------------------------------------------------
(***************************************************************************)
(* One writer.  Where no lock expires, no status query fills the cache and *)
(* an agent makes one call at a time, the three records of a lock agree,   *)
(* and what a call was told it has locked is locked by a row of its agent: *)
(* the answer of the cache is as good as the rows'.                        *)
(***************************************************************************)
Undisturbed ==
  /\ ~Expiry /\ Reader = {}
  /\ \A c, d \in Call : Owner[c] = Owner[d] => c = d

\* Where a call is while what it has locked is its agent's.
Holding == {"prelock", "insert", "inner", "approved", "running"}

RowsHeld ==
  \A c \in Call : \A f \in call[c].locked :
    /\ call[c].pc \in Holding => row[f] = Owner[c]
    /\ call[c].pc \notin {"idle", "asking", "timedout"}

LockInv ==
  /\ lapsed = {} /\ RowsHeld
  /\ \A f \in File : cache[f] \in {NoOne, row[f]}
  /\ FlockBelongs

\* A step that moves one call and no lock.
LEMMA HeldMove ==
  ASSUME TypeInv, LockInv, UNCHANGED lockVars, NEW c \in Call, NEW k \in Sound, Go(c, k),
         \A f \in k.locked : /\ k.pc \in Holding => row[f] = Owner[c]
                             /\ k.pc \notin {"idle", "asking", "timedout"}
  PROVE  LockInv'
<1>1. CallsOK
  BY TypeParts
<1>2. RowsHeld'
  BY <1>1, GoStep DEF LockInv, RowsHeld, lockVars
<1>3. QED
  BY <1>2 DEF LockInv, FlockBelongs, lockVars

\* A step that gives a lock to the agent of a call, or takes one from it.
LEMMA HeldInsert ==
  ASSUME TypeInv, LockInv, NEW c \in Call, NEW f \in File, NEW k \in Sound, Go(c, k),
         row[f] = NoOne, InsertRow(Owner[c], f), flock' \in {flock, flock \cup {f}},
         k.pc \in Holding, k.locked \subseteq call[c].locked \cup {f}, call[c].pc \in Holding
  PROVE  LockInv'
<1>1. CallsOK /\ LocksOK /\ Owner[c] \in Agent
  BY TypeParts, GateAssumption
<1>2. \A d \in Call : Owner[d] # NoOne
  BY GateAssumption, NamesAssumption
<1>3. row'[f] = Owner[c] /\ \A x \in File \ {f} : row'[x] = row[x]
  BY <1>1 DEF InsertRow, LocksOK
<1>4. RowsHeld'
  <2>1. \A d \in Call : call[d] \in Sound /\ call[d].locked \subseteq File
    BY <1>1 DEF CallsOK, Sound, CallState
  <2>2. k.locked \subseteq File
    BY DEF Sound, CallState
  <2>3. \A x \in call[c].locked : row[x] = Owner[c]
    BY DEF LockInv, RowsHeld
  <2>4. \A d \in Call \ {c} : call'[d] = call[d]
    BY <1>1, GoStep
  <2>5. call'[c] = k
    BY <1>1, GoStep
  <2>6. k.pc \notin {"idle", "asking", "timedout"}
    BY DEF Holding
  <2>7. \A x \in k.locked : row'[x] = Owner[c]
    BY <1>3, <2>2, <2>3
  <2>8. \A d \in Call \ {c} : \A x \in call[d].locked :
            /\ call[d].pc \in Holding => row'[x] = Owner[d]
            /\ call[d].pc \notin {"idle", "asking", "timedout"}
    BY <1>2, <1>3, <2>1 DEF LockInv, RowsHeld
  <2>9. QED
    BY <2>4, <2>5, <2>6, <2>7, <2>8 DEF RowsHeld
<1>5. \A x \in File : cache'[x] \in {NoOne, row'[x]}
  BY <1>1, <1>3 DEF InsertRow, LocksOK, LockInv
<1>6. lapsed' = {} /\ FlockBelongs'
  BY <1>1, <1>2, <1>3 DEF InsertRow, LocksOK, LockInv, FlockBelongs
<1>7. QED
  BY <1>4, <1>5, <1>6 DEF LockInv

LEMMA HeldRelease ==
  ASSUME TypeInv, LockInv, Undisturbed, NEW c \in Call, NEW f \in File, NEW k \in Sound,
         Go(c, k), ReleaseLock(Owner[c], f),
         k.pc \notin Holding, k.pc \in {"idle", "asking", "timedout"} => k.locked = {}
  PROVE  LockInv'
<1>1. CallsOK /\ LocksOK
  BY TypeParts
<1>2. CASE row[f] # Owner[c]
  <2>1. UNCHANGED lockVars
    BY <1>2 DEF ReleaseLock
  <2>2. QED
    BY <2>1, HeldMove
<1>3. CASE row[f] = Owner[c]
  <2>1. row'[f] = NoOne /\ \A x \in File \ {f} : row'[x] = row[x]
    BY <1>1, <1>3 DEF ReleaseLock, LocksOK
  <2>2. \A d \in Call \ {c} : Owner[d] # Owner[c]
    BY DEF Undisturbed
  <2>3. \A d \in Call : call[d].locked \subseteq File
    BY <1>1 DEF CallsOK, Sound, CallState
  <2>4. \A d \in Call \ {c} : \A x \in call[d].locked :
            /\ call[d].pc \in Holding => row'[x] = Owner[d]
            /\ call[d].pc \notin {"idle", "asking", "timedout"}
    BY <1>3, <2>1, <2>2, <2>3 DEF LockInv, RowsHeld
  <2>5. call'[c] = k /\ \A d \in Call \ {c} : call'[d] = call[d]
    BY <1>1, GoStep
  <2>6. RowsHeld'
    BY <2>4, <2>5 DEF RowsHeld
  <2>7. /\ \A x \in File : cache'[x] \in {NoOne, row'[x]}
        /\ lapsed' = {} /\ FlockBelongs'
    BY <1>1, <1>3, <2>1 DEF ReleaseLock, LocksOK, LockInv, FlockBelongs
  <2>8. QED
    BY <2>6, <2>7 DEF LockInv
<1>4. QED
  BY <1>2, <1>3

\* The request, up to the locks.
LEMMA HeldAsking ==
  ASSUME TypeInv, LockInv, NEW c \in Call,
         \/ Request(c) \/ Decided(c) \/ AskTimeout(c) \/ ForceReject(c)
         \/ Refused(c) \/ InnerRefused(c)
  PROVE  LockInv'
<1>1. CallsOK /\ call[c] \in Sound /\ Idle.locked = {}
  BY TypeParts DEF CallsOK, Idle
<1>2. CASE ForceReject(c) \/ Refused(c) \/ InnerRefused(c)
  BY <1>1, <1>2, IdleSound, HeldMove DEF ForceReject, Refused, InnerRefused
<1>3. CASE Request(c)
  <2>1. PICK kind \in Kinds, files \in (SUBSET File) \ {{}} :
             Ask(c, kind, files) \/ Unasked(c, kind, files)
    BY <1>3 DEF Request
  <2>2. PICK k \in Sound : Go(c, k) /\ k.locked = {} /\ UNCHANGED lockVars
    <3>1. CASE Ask(c, kind, files)
      BY <3>1 DEF Ask, Idle, Sound, FilesOK, CallState, Kinds
    <3>2. CASE Unasked(c, kind, files)
      BY <3>2 DEF Unasked, Idle, Sound, FilesOK, CallState, Kinds
    <3>3. QED
      BY <2>1, <3>1, <3>2
  <2>3. QED
    BY <2>2, HeldMove
<1>4. CASE Decided(c) \/ AskTimeout(c)
  <2>1. call[c].locked = {}
    BY <1>4 DEF Decided, AskTimeout, LockInv, RowsHeld
  <2>2. PICK k \in Sound : Go(c, k) /\ k.locked = {} /\ UNCHANGED lockVars
    BY <1>1, <1>4, <2>1, IdleSound DEF Decided, AskTimeout, Sound, FilesOK, CallState
  <2>3. QED
    BY <2>2, HeldMove
<1>5. QED
  BY <1>2, <1>3, <1>4

\* A call that goes on with what it has locked.
KeepsLocked(c, k) ==
  k \in Sound /\ k.locked = call[c].locked /\ k.pc \notin {"idle", "asking", "timedout"}

\* The locking of the files, and its undoing.
LEMMA HeldPreLock ==
  ASSUME TypeInv, LockInv, Undisturbed, NEW c \in Call,
         \/ \E f \in File : PreLockCached(c, f) \/ PreLockMiss(c, f) \/ Undo(c, f)
         \/ PreLockInsert(c) \/ PreLockOwn(c) \/ PreLockRefused(c) \/ PreLockDone(c)
  PROVE  LockInv'
<1>1. CallsOK /\ call[c] \in Sound /\ Me(c) = Owner[c] /\ Owner[c] # NoOne
  BY TypeParts, GateAssumption, NamesAssumption DEF CallsOK, Me
<1>2. \A f \in call[c].locked : call[c].pc \in Holding => row[f] = Owner[c]
  BY DEF LockInv, RowsHeld
<1>3. ASSUME NEW f \in File, PreLockCached(c, f) PROVE LockInv'
  <2>1. cache[f] = Owner[c] => row[f] = Owner[c]
    BY <1>1 DEF LockInv
  <2>2. PICK k \in Sound :
             /\ Go(c, k) /\ UNCHANGED lockVars
             /\ k.pc \notin {"idle", "asking", "timedout"}
             /\ k.pc \in Holding => \A x \in k.locked : row[x] = Owner[c]
    <3>1. /\ call[c].pc = "prelock" /\ call[c].pc \in Holding
          /\ call[c] \in CallState /\ FilesOK(call[c]) /\ f \in call[c].files
      BY <1>1, <1>3 DEF PreLockCached, Sound, FilesOK, Holding
    <3>2. CASE cache[f] = Me(c)
      <4> DEFINE k == [call[c] EXCEPT !.todo = @ \ {f}, !.locked = @ \cup {f}]
      <4>1. k \in Sound /\ k.pc = "prelock" /\ k.locked = call[c].locked \cup {f}
        BY <3>1 DEF Sound, FilesOK, CallState
      <4>2. Go(c, k) /\ UNCHANGED lockVars
        BY <1>3, <3>2 DEF PreLockCached
      <4>3. \A x \in k.locked : row[x] = Owner[c]
        BY <1>1, <1>2, <2>1, <3>1, <3>2, <4>1
      <4> HIDE DEF k
      <4>4. QED
        BY <4>1, <4>2, <4>3
    <3>3. CASE cache[f] # Me(c)
      <4> DEFINE k == [call[c] EXCEPT !.pc = "undo", !.todo = {}]
      <4>1. k \in Sound /\ k.pc = "undo"
        BY <3>1 DEF Sound, FilesOK, CallState
      <4>2. Go(c, k) /\ UNCHANGED lockVars
        BY <1>3, <3>3 DEF PreLockCached
      <4> HIDE DEF k
      <4>3. QED
        BY <4>1, <4>2 DEF Holding
    <3>4. QED
      BY <3>2, <3>3
  <2>3. QED
    BY <2>2, HeldMove
<1>4. CASE PreLockDone(c) \/ \E f \in File : PreLockMiss(c, f)
  <2>1. call[c].pc = "prelock" /\ call[c].pc \in Holding /\ UNCHANGED lockVars
    BY <1>4 DEF PreLockMiss, PreLockDone, Holding
  <2>2. /\ \A f \in call[c].todo : KeepsLocked(c, [call[c] EXCEPT !.pc = "insert", !.file = f])
        /\ KeepsLocked(c, [call[c] EXCEPT !.pc = "inner", !.todo = call[c].files])
        /\ KeepsLocked(c, [call[c] EXCEPT !.pc = "approved", !.todo = {}])
    BY <1>1 DEF KeepsLocked, Sound, FilesOK, CallState
  <2>3. PICK k : KeepsLocked(c, k) /\ Go(c, k)
    BY <1>4, <2>2 DEF PreLockMiss, PreLockDone
  <2>4. QED
    BY <1>2, <2>1, <2>3, HeldMove DEF KeepsLocked
<1>5. CASE PreLockRefused(c)
  <2> DEFINE k == [call[c] EXCEPT !.pc = "undo", !.todo = {}, !.file = "none"]
  <2>1. k \in Sound /\ k.pc = "undo"
    BY <1>1 DEF Sound, FilesOK, CallState
  <2>2. Go(c, k) /\ UNCHANGED lockVars
    BY <1>5 DEF PreLockRefused
  <2> HIDE DEF k
  <2>3. QED
    BY <2>1, <2>2, HeldMove DEF Holding
<1>6. CASE PreLockInsert(c) \/ PreLockOwn(c)
  <2>1. call[c].pc = "insert" /\ call[c].file \in File /\ call[c].pc \in Holding
    BY <1>1, <1>6 DEF PreLockInsert, PreLockOwn, Sound, FilesOK, CallState, Holding
  <2>2. /\ Locked(c) \in Sound
        /\ Locked(c).locked = call[c].locked \cup {call[c].file}
        /\ Locked(c).pc = "prelock"
    BY <1>1, <2>1 DEF Locked, Sound, FilesOK, CallState
  <2>3. CASE PreLockInsert(c)
    BY <1>1, <2>1, <2>2, <2>3, HeldInsert DEF PreLockInsert, TakeFlock, Holding
  <2>4. CASE PreLockOwn(c)
    BY <1>1, <1>2, <2>1, <2>2, <2>4, HeldMove DEF PreLockOwn
  <2>5. QED
    BY <1>6, <2>3, <2>4
<1>7. ASSUME NEW f \in File, Undo(c, f) PROVE LockInv'
  <2>1. PICK k \in Sound : Go(c, k) /\ k.pc = "undo"
    BY <1>1, <1>7 DEF Undo, Sound, FilesOK, CallState
  <2>2. QED
    BY <1>1, <1>7, <2>1, HeldRelease DEF Undo, Holding
<1>8. QED
  BY <1>3, <1>4, <1>5, <1>6, <1>7

\* The wrapped handler and the tool.
LEMMA HeldTool ==
  ASSUME TypeInv, LockInv, Undisturbed, NEW c \in Call,
         \/ \E f \in File : InnerAcquire(c, f) \/ ReleaseOne(c, f)
         \/ InnerDone(c) \/ ToolStart(c) \/ ToolEnd(c)
  PROVE  LockInv'
<1>1. CallsOK /\ call[c] \in Sound /\ Me(c) = Owner[c]
  BY TypeParts DEF CallsOK, Me
<1>2. \A f \in call[c].locked : call[c].pc \in Holding => row[f] = Owner[c]
  BY DEF LockInv, RowsHeld
<1>3. ASSUME NEW f \in File, InnerAcquire(c, f) PROVE LockInv'
  <2>1. PICK k \in Sound : Go(c, k) /\ k.locked = call[c].locked /\ k.pc = "inner"
    BY <1>1, <1>3 DEF InnerAcquire, Sound, FilesOK, CallState
  <2>2. call[c].pc \in Holding /\ k.pc \in Holding
    BY <1>3, <2>1 DEF InnerAcquire, Holding
  <2>3. CASE row[f] = NoOne
    BY <1>1, <1>3, <2>1, <2>2, <2>3, HeldInsert DEF InnerAcquire
  <2>4. CASE row[f] # NoOne
    <3>1. UNCHANGED lockVars
      BY <1>3, <2>4 DEF InnerAcquire, lockVars
    <3>2. QED
      BY <1>2, <2>1, <2>2, <3>1, HeldMove
  <2>5. QED
    BY <2>3, <2>4
<1>4. CASE InnerDone(c) \/ ToolStart(c)
  <2>1. /\ KeepsLocked(c, [call[c] EXCEPT !.pc = "approved", !.todo = {}])
        /\ KeepsLocked(c, [call[c] EXCEPT !.pc = "running"])
    BY <1>1 DEF KeepsLocked, Sound, FilesOK, CallState
  <2>2. call[c].pc \in Holding
    BY <1>4 DEF InnerDone, ToolStart, Holding
  <2>3. UNCHANGED lockVars
    BY <1>4 DEF InnerDone, ToolStart, RenewLocks, lockVars, LockInv
  <2>4. PICK k : KeepsLocked(c, k) /\ Go(c, k)
    BY <1>4, <2>1 DEF InnerDone, ToolStart
  <2>5. QED
    BY <1>2, <2>2, <2>3, <2>4, HeldMove DEF KeepsLocked
<1>5. CASE ToolEnd(c)
  <2> DEFINE k == [call[c] EXCEPT !.pc = "releasing", !.todo = call[c].files]
  <2>1. k \in Sound /\ k.pc = "releasing"
    BY <1>1 DEF Sound, FilesOK, CallState
  <2>2. (Go(c, k) \/ Go(c, Idle)) /\ UNCHANGED lockVars
    BY <1>5 DEF ToolEnd
  <2>3. Idle.locked = {}
    BY DEF Idle
  <2> HIDE DEF k
  <2>4. QED
    BY <2>1, <2>2, <2>3, IdleSound, HeldMove DEF Holding
<1>6. ASSUME NEW f \in File, ReleaseOne(c, f) PROVE LockInv'
  <2>1. PICK k \in Sound : Go(c, k) /\ (k = Idle \/ k.pc = "releasing")
    BY <1>1, <1>6, IdleSound DEF ReleaseOne, Sound, FilesOK, CallState
  <2>2. k.pc \notin Holding /\ (k.pc \in {"idle", "asking", "timedout"} => k.locked = {})
    BY <2>1 DEF Idle, Holding
  <2>3. QED
    BY <1>1, <1>6, <2>1, <2>2, HeldRelease DEF ReleaseOne
<1>7. QED
  BY <1>3, <1>4, <1>5, <1>6

\* What the user does, the background and a restart.
LEMMA HeldRest ==
  ASSUME TypeInv, LockInv, Undisturbed,
         \/ UNCHANGED vars
         \/ \E c \in Call : Deliver(c) \/ \E d \in {"allow", "reject"} : Respond(c, d)
         \/ \E a \in Agent : RejectAll(a)
         \/ \E m \in Modes : SetMode(m)
         \/ \E f \in File : Lapse(f)
         \/ Sweep \/ CacheCleanup \/ Restart
         \/ \E r \in Reader : QueryFill(r) \/ \E f \in File : QueryRead(r, f)
  PROVE  LockInv'
<1>1. CallsOK /\ LocksOK
  BY TypeParts
<1>2. ASSUME UNCHANGED <<row, lapsed, flock, call>>,
             \A f \in File : cache'[f] \in {NoOne, cache[f]}
      PROVE  LockInv'
  BY <1>2 DEF LockInv, RowsHeld, FlockBelongs
<1>3. CASE Restart
  BY <1>1, <1>3 DEF Restart, LockInv, RowsHeld, FlockBelongs, Idle, LocksOK
<1>4. CASE CacheCleanup
  BY <1>1, <1>2, <1>4 DEF CacheCleanup, LocksOK
<1>5. ~Sweep /\ \A f \in File : ~Lapse(f)
  BY DEF Sweep, Lapse, LockInv, Undisturbed
<1>6. \A r \in Reader : FALSE
  BY DEF Undisturbed
<1>7. CASE \/ UNCHANGED vars
           \/ \E c \in Call : Deliver(c) \/ \E d \in {"allow", "reject"} : Respond(c, d)
           \/ \E a \in Agent : RejectAll(a)
           \/ \E m \in Modes : SetMode(m)
  BY <1>2, <1>7 DEF vars, lockVars, Deliver, Respond, RejectAll, SetMode
<1>8. QED
  BY <1>3, <1>4, <1>5, <1>6, <1>7

LEMMA LockNext == ASSUME TypeInv, LockInv, Undisturbed, [Next]_vars PROVE LockInv'
BY HeldAsking, HeldPreLock, HeldTool, HeldRest DEF Next

LEMMA LockInvariant == ASSUME Undisturbed PROVE Spec => []LockInv
<1>1. Init => LockInv
  BY DEF Init, LockInv, RowsHeld, FlockBelongs, Idle
<1>2. TypeInv /\ LockInv /\ [Next]_vars => LockInv'
  BY LockNext
<1>3. QED
  BY <1>1, <1>2, TypeInvariant, PTL DEF Spec

\* Two agents never write a file that both were told they had locked.
THEOREM OneWriter == ASSUME Undisturbed PROVE Spec => []OneGuardedWriter
<1>1. TypeInv /\ LockInv => OneGuardedWriter
  <2> SUFFICES ASSUME TypeInv, LockInv, NEW c \in Call, NEW d \in Call,
                      NEW f \in Guarded(c) \cap Guarded(d)
               PROVE  Owner[c] = Owner[d]
    BY DEF OneGuardedWriter
  <2>1. /\ f \in call[c].locked /\ call[c].pc \in Holding
        /\ f \in call[d].locked /\ call[d].pc \in Holding
    BY DEF Guarded, Writing, Holding
  <2>2. QED
    BY <2>1 DEF LockInv, RowsHeld
<1>2. QED
  BY <1>1, TypeInvariant, LockInvariant, PTL

\* The cache's word is the rows', and an open file under flock belongs to a row.
THEOREM RecordsAgree == ASSUME Undisturbed PROVE Spec => []LockRecordsAgree
<1>1. LockInv => LockRecordsAgree
  BY DEF LockInv, LockRecordsAgree, CacheAgrees
<1>2. QED
  BY <1>1, LockInvariant, PTL

=============================================================================
