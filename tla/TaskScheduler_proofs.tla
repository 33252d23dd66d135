------------------------ MODULE TaskScheduler_proofs ------------------------
(***************************************************************************)
(* Proofs about TaskScheduler, for any tasks, agents, priorities, limit,   *)
(* cap of the dedup set and bounds.  Permits are conserved on every path;  *)
(* where a task is released only after its launch, it has one live         *)
(* submission at most, no submission is lost, and only duplicates are      *)
(* dropped.                                                                *)
(***************************************************************************)
EXTENDS TaskScheduler, FiniteSetTheorems, TLAPS

-----------------------------------------------------------------------------
C == worker[Consumer]
B == worker[Background]

\* The message the consumer has in hand, until it is queued or running; then
\* the consumer still holds it to acknowledge it, but it is elsewhere.
Own == IF C.pc \in {"acquire", "check", "launch", "push", "queue"} THEN C.item ELSE {}

\* The submissions that are on their way to an agent, or with one.
Placed == pending \cup processing \cup Own \cup B.item \cup B.rest \cup B.remaining

TypeInv ==
  /\ stream \subseteq Submission /\ pending \subseteq Submission
  /\ processing \subseteq Submission /\ queueFile \subseteq Submission
  /\ dropped \subseteq Submission
  /\ seen \subseteq TaskId /\ releasing \subseteq TaskId
  /\ submits \in 0..MaxSubmits
  /\ permits \in Nat
  /\ worker \in [Worker -> Frame]
  /\ launches \in [1..MaxSubmits -> Nat]
  /\ redeliveries \in 0..MaxRedeliveries /\ faults \in 0..MaxFaults
  /\ crashes \in 0..MaxCrashes
  /\ \A m \in stream : m.copy <= redeliveries + faults

FramesOK ==
  /\ C.rest = {} /\ C.remaining = {} /\ C.pc # "next"
  /\ C.pc = "idle" => C.item = {}
  /\ C.pc # "idle" => \E m \in stream : C.item = {m}
  /\ B.pc \notin {"queue", "ack"}
  /\ B.pc \in {"acquire", "check", "launch", "push"} => \E m \in Submission : B.item = {m}
  /\ B.pc \in {"idle", "next", "save"} => B.item = {}
  /\ B.pc \in {"idle", "save"} => B.rest = {} /\ B.remaining = {}

\* A submission is in the stream once, and what is placed was delivered before:
\* it is an older copy, or the consumer has it in hand.
StreamOK ==
  /\ \A m, k \in stream : m.seq = k.seq => m = k
  /\ \A m \in stream \cup Placed : m.seq <= submits
  /\ \A m \in stream, x \in Placed :
       x.seq = m.seq => x.copy < m.copy \/ (x = m /\ C.item = {m})

\* A submission is in one place.
Apart ==
  /\ processing \cap (pending \cup Own \cup B.item \cup B.rest \cup B.remaining) = {}
  /\ pending \cap (Own \cup B.item \cup B.rest \cup B.remaining) = {}
  /\ Own \cap (B.item \cup B.rest \cup B.remaining) = {}
  /\ B.item \cap (B.rest \cup B.remaining) = {}
  /\ B.rest \cap B.remaining = {}

Counted == IsFiniteSet(processing) /\ IsFiniteSet(PermitHolders) /\ PermitsConserved

PlaceInv == TypeInv /\ FramesOK /\ StreamOK /\ Apart

\* A step that accepts nothing.
Shrunk == Placed' \subseteq Placed /\ worker'[Consumer].item \subseteq C.item

Holding == {"check", "launch", "push"}

LEMMA Workers == Worker = {Consumer, Background} /\ Consumer # Background
BY DEF Worker, Consumer, Background

\* One frame changes, and whether its worker holds a permit with it.
LEMMA OneFrame ==
  ASSUME TypeInv, NEW w \in Worker, NEW k \in Frame, worker' = [worker EXCEPT ![w] = k]
  PROVE  /\ worker' \in [Worker -> Frame] /\ worker'[w] = k
         /\ \A v \in Worker \ {w} : worker'[v] = worker[v]
         /\ PermitHolders' = IF k.pc \in Holding THEN PermitHolders \cup {w}
                             ELSE PermitHolders \ {w}
BY DEF TypeInv, PermitHolders, Holding

LEMMA HoldersCount ==
  ASSUME TypeInv, Counted, NEW w \in Worker, NEW k \in Frame, worker' = [worker EXCEPT ![w] = k]
  PROVE  /\ IsFiniteSet(PermitHolders')
         /\ Cardinality(PermitHolders) \in Nat
         /\ Cardinality(PermitHolders)' = Cardinality(PermitHolders)
              + (IF k.pc \in Holding THEN 1 ELSE 0)
              - (IF worker[w].pc \in Holding THEN 1 ELSE 0)
<1>1. w \in PermitHolders <=> worker[w].pc \in Holding
  BY DEF PermitHolders, Holding
<1>2. IsFiniteSet(PermitHolders) /\ Cardinality(PermitHolders) \in Nat
  BY FS_CardinalityType DEF Counted
<1>3. /\ IsFiniteSet(PermitHolders \cup {w})
      /\ Cardinality(PermitHolders \cup {w}) =
           IF w \in PermitHolders THEN Cardinality(PermitHolders) ELSE Cardinality(PermitHolders) + 1
  BY <1>2, FS_AddElement
<1>4. /\ IsFiniteSet(PermitHolders \ {w})
      /\ Cardinality(PermitHolders \ {w}) =
           IF w \in PermitHolders THEN Cardinality(PermitHolders) - 1 ELSE Cardinality(PermitHolders)
  BY <1>2, FS_RemoveElement
<1>5. PermitHolders' = IF k.pc \in Holding THEN PermitHolders \cup {w} ELSE PermitHolders \ {w}
  BY OneFrame
<1>6. QED
  BY <1>1, <1>2, <1>3, <1>4, <1>5

\* The frames a worker may be left with.
Turned(w, pc) == [worker[w] EXCEPT !.pc = pc]

LEMMA Frames ==
  ASSUME TypeInv, NEW w \in Worker
  PROVE  /\ worker[w] \in Frame
         /\ Idle \in Frame /\ Idle.pc = "idle" /\ Idle.item = {} /\ Idle.rest = {}
         /\ Idle.remaining = {}
BY DEF TypeInv, Frame, Idle

LEMMA TurnedFrame ==
  ASSUME TypeInv, NEW w \in Worker,
         NEW pc \in {"acquire", "check", "launch", "push", "queue", "next", "save", "ack"}
  PROVE  /\ Turned(w, pc) \in Frame /\ Turned(w, pc).pc = pc
         /\ Turned(w, pc).item = worker[w].item /\ Turned(w, pc).rest = worker[w].rest
         /\ Turned(w, pc).remaining = worker[w].remaining
<1>1. worker[w] \in Frame
  BY DEF TypeInv
<1>2. QED
  BY <1>1 DEF Frame, Turned

\* Moves that leave the stream and what the consumer holds alone.
LEMMA StreamKept ==
  ASSUME StreamOK, UNCHANGED <<stream, submits>>, Placed' \subseteq Placed,
         worker'[Consumer].item = C.item
  PROVE  StreamOK'
BY DEF StreamOK, C

\* A worker moves on with what it has in hand.
LEMMA MovesOn ==
  ASSUME PlaceInv, NEW w \in Worker, NEW pc \in {"check", "launch", "push", "queue", "ack"},
         worker' = [worker EXCEPT ![w] = Turned(w, pc)],
         UNCHANGED <<stream, submits, pending, processing>>,
         w = Background => pc \in Holding /\ B.pc \in {"acquire", "check", "launch"},
         w = Consumer => C.pc # "idle" /\ (pc = "ack" <=> C.pc = "save")
                           /\ C.pc # "ack"
  PROVE  worker' \in [Worker -> Frame] /\ FramesOK' /\ StreamOK' /\ Apart' /\ Shrunk
<1> DEFINE k == Turned(w, pc)
<1>1. TypeInv /\ FramesOK /\ StreamOK /\ Apart
  BY DEF PlaceInv
<1>2. /\ k \in Frame /\ k.pc = pc /\ k.item = worker[w].item
      /\ k.rest = worker[w].rest /\ k.remaining = worker[w].remaining
  BY <1>1, TurnedFrame
<1>3. worker' = [worker EXCEPT ![w] = k]
  OBVIOUS
<1> HIDE DEF k
<1>4. /\ worker' \in [Worker -> Frame] /\ worker'[w] = k
      /\ \A v \in Worker \ {w} : worker'[v] = worker[v]
  BY <1>1, <1>2, <1>3, OneFrame
<1>5. /\ worker'[Consumer].item = C.item /\ worker'[Consumer].rest = C.rest
      /\ worker'[Consumer].remaining = C.remaining
      /\ worker'[Background].item = B.item /\ worker'[Background].rest = B.rest
      /\ worker'[Background].remaining = B.remaining
  BY <1>2, <1>4, Workers DEF C, B
<1>6. Own' = Own
  <2>1. C.pc \in {"acquire", "check", "launch", "push", "queue", "save", "ack", "next", "idle"}
    BY <1>1, Frames, Workers DEF C, Frame
  <2>2. C.pc # "next"
    BY <1>1 DEF FramesOK
  <2>3. QED
    BY <1>2, <1>4, <1>5, <2>1, <2>2, Workers DEF Own, C
<1>7. Placed' = Placed /\ Apart'
  BY <1>1, <1>5, <1>6 DEF Placed, Apart, B
<1>8. FramesOK'
  BY <1>1, <1>2, <1>4, <1>5, Workers DEF FramesOK, C, B, Holding
<1>9. QED
  BY <1>1, <1>4, <1>5, <1>7, <1>8, StreamKept DEF Shrunk

\* What the bookkeeping of a step leaves of the types.
LEMMA TypeKept ==
  ASSUME TypeInv, worker' \in [Worker -> Frame],
         UNCHANGED <<stream, submits, seen, releasing, dropped, redeliveries, crashes>>,
         permits' \in Nat, launches' \in [1..MaxSubmits -> Nat],
         pending' \subseteq Submission, processing' \subseteq Submission,
         queueFile' \subseteq Submission,
         faults' = faults \/ (faults < MaxFaults /\ faults' = faults + 1)
  PROVE  TypeInv'
<1> DEFINE f == faults f1 == faults' r == redeliveries
<1>1. /\ f \in Nat /\ f <= MaxFaults /\ MaxFaults \in Nat /\ r \in Nat
      /\ f1 = f \/ (f < MaxFaults /\ f1 = f + 1)
  BY TaskSchedulerAssumption DEF TypeInv
<1> HIDE DEF f, f1, r
<1>2. f1 \in 0..MaxFaults /\ \A k \in Nat : k <= r + f => k <= r + f1
  BY <1>1
<1>3. faults' \in 0..MaxFaults /\ \A k \in Nat : k <= redeliveries + faults => k <= redeliveries' + faults'
  BY <1>2 DEF f, f1, r
<1>4. \A m \in stream : m.copy \in Nat
  BY DEF TypeInv, Submission
<1>5. QED
  BY <1>3, <1>4 DEF TypeInv

LEMMA GotoTurns ==
  ASSUME NEW w, NEW pc
  PROVE  Goto(w, pc) => worker' = [worker EXCEPT ![w] = Turned(w, pc)]
BY DEF Goto, Turned

\* What a worker has in hand while it tries to schedule it.
LEMMA HandType ==
  ASSUME PlaceInv, NEW w \in Worker
  PROVE  /\ worker[w].item \subseteq Submission /\ worker[w].rest \subseteq Submission
         /\ worker[w].remaining \subseteq Submission
         /\ worker[w].pc \in {"acquire", "check", "launch", "push"}
              => \E m \in Submission : worker[w].item = {m}
<1>1. worker[w] \in Frame
  BY Frames DEF PlaceInv
<1>2. QED
  BY <1>1, Workers DEF PlaceInv, TypeInv, FramesOK, Frame, C, B

\* A message is delivered to the consumer, which has nothing in hand: no copy
\* of it as young as this one is anywhere.
LEMMA HandleKeeps ==
  ASSUME PlaceInv, NEW m \in Submission, HandleNatsTask(m)
  PROVE  PlaceInv'
<1>1. /\ TypeInv /\ FramesOK /\ StreamOK /\ Apart
      /\ m \in stream /\ C.pc = "idle"
      /\ UNCHANGED <<submits, releasing, pending, processing, permits, queueFile, launches, boundVars>>
  BY DEF PlaceInv, HandleNatsTask, At, C
<1>2. seen' \subseteq TaskId
  BY <1>1 DEF HandleNatsTask, InsertSeen, TypeInv, Submission
<1>3. CASE AlreadySeen(m.task)
  <2>1. UNCHANGED worker /\ stream' \subseteq stream /\ dropped' = dropped \cup {m}
    BY <1>3 DEF HandleNatsTask
  <2>2. UNCHANGED <<C, B, Own, Placed>>
    BY <1>1, <2>1 DEF C, B, Own, Placed
  <2>3. C.item = {}
    BY <1>1 DEF FramesOK
  <2>4. TypeInv'
    BY <1>1, <1>2, <2>1 DEF TypeInv, boundVars
  <2>5. FramesOK' /\ Apart'
    BY <1>1, <2>1, <2>2 DEF FramesOK, Apart
  <2>6. StreamOK'
    BY <1>1, <2>1, <2>2 DEF StreamOK
  <2>7. QED
    BY <2>4, <2>5, <2>6 DEF PlaceInv
<1>4. CASE ~AlreadySeen(m.task)
  <2> DEFINE k == [C EXCEPT !.pc = "acquire", !.item = {m}]
  <2>1. C \in Frame /\ C.item = {} /\ C.rest = {} /\ C.remaining = {}
    BY <1>1, Frames, Workers DEF FramesOK, C
  <2>2. k \in Frame /\ k.pc = "acquire" /\ k.item = {m} /\ k.rest = {} /\ k.remaining = {}
    BY <2>1 DEF Frame
  <2>3. worker' = [worker EXCEPT ![Consumer] = k] /\ UNCHANGED <<stream, dropped>>
    BY <1>4 DEF HandleNatsTask, C
  <2> HIDE DEF k
  <2>4. /\ worker' \in [Worker -> Frame] /\ C' = k /\ B' = B
    BY <1>1, <2>2, <2>3, OneFrame, Workers DEF C, B
  <2>5. Own = {} /\ Own' = {m}
    BY <1>1, <2>2, <2>4 DEF Own
  <2>6. Placed' = Placed \cup {m}
    BY <1>1, <2>4, <2>5 DEF Placed
  <2>7. \A x \in Placed : x.seq = m.seq => x.copy < m.copy
    BY <1>1, <2>1 DEF StreamOK
  <2>8. m \notin Placed
    <3>1. m.copy \in Nat
      BY DEF Submission
    <3>2. QED
      BY <2>7, <3>1
  <2>9. TypeInv'
    BY <1>1, <1>2, <2>3, <2>4 DEF TypeInv, boundVars
  <2>10. FramesOK'
    BY <1>1, <2>2, <2>3, <2>4 DEF FramesOK
  <2>11. Apart'
    BY <1>1, <2>4, <2>5, <2>8 DEF Apart, Placed
  <2>12. StreamOK'
    <3>1. \A y \in stream, x \in Placed' : x.seq = y.seq => x.copy < y.copy \/ (x = y /\ C'.item = {y})
      BY <1>1, <2>1, <2>2, <2>4, <2>6 DEF StreamOK
    <3>2. \A y \in stream \cup Placed' : y.seq <= submits
      BY <1>1, <2>6 DEF StreamOK
    <3>3. QED
      BY <1>1, <2>3, <3>1, <3>2 DEF StreamOK
  <2>13. QED
    BY <2>9, <2>10, <2>11, <2>12 DEF PlaceInv
<1>5. QED
  BY <1>3, <1>4

CopiesSame == redeliveries' = redeliveries /\ faults' = faults
CopiesOneMore ==
  /\ redeliveries' \in Nat /\ faults' \in Nat
  /\ redeliveries' <= MaxRedeliveries /\ faults' <= MaxFaults
  /\ redeliveries' + faults' = redeliveries + faults + 1

\* What one redelivery or fault more leaves room for.
LEMMA CopiesRoom ==
  ASSUME redeliveries \in Nat, faults \in Nat, CopiesOneMore
  PROVE  \A k \in Nat : k <= redeliveries + faults =>
           /\ k + 1 \in 0..(MaxRedeliveries + MaxFaults)
           /\ k + 1 <= redeliveries' + faults' /\ k <= redeliveries' + faults'
<1> DEFINE r == redeliveries f == faults r1 == redeliveries' f1 == faults'
<1>1. /\ r \in Nat /\ f \in Nat /\ r1 \in Nat /\ f1 \in Nat
      /\ r1 <= MaxRedeliveries /\ f1 <= MaxFaults /\ r1 + f1 = r + f + 1
      /\ MaxRedeliveries \in Nat /\ MaxFaults \in Nat
  BY TaskSchedulerAssumption DEF CopiesOneMore
<1> HIDE DEF r, f, r1, f1
<1>2. \A k \in Nat : k <= r + f =>
        k + 1 \in 0..(MaxRedeliveries + MaxFaults) /\ k + 1 <= r1 + f1 /\ k <= r1 + f1
  BY <1>1
<1>3. QED
  BY <1>2 DEF r, f, r1, f1

\* The consumer is done with its message, which is acknowledged or stays in
\* the stream as a younger copy.
LEMMA ConsumerEnds ==
  ASSUME PlaceInv, C.pc # "idle",
         worker' = [worker EXCEPT ![Consumer] = Idle],
         UNCHANGED <<submits, pending, processing, seen, releasing, queueFile, launches, dropped,
                     crashes>>,
         permits' \in Nat,
         \/ stream' = stream \ InHand(Consumer) /\ CopiesSame
         \/ Redelivered(Consumer) /\ CopiesOneMore
  PROVE  PlaceInv' /\ Shrunk
<1>1. TypeInv /\ FramesOK /\ StreamOK /\ Apart
  BY DEF PlaceInv
<1>2. PICK m \in stream : C.item = {m}
  BY <1>1 DEF FramesOK
<1> DEFINE c == m.copy
<1>3. m \in Submission /\ c \in Nat /\ c <= redeliveries + faults /\ m.seq \in 1..MaxSubmits
      /\ m.task \in TaskId /\ m.copy = c
  BY <1>1 DEF TypeInv, Submission
<1> HIDE DEF c
<1>4. redeliveries \in Nat /\ faults \in Nat /\ MaxRedeliveries \in Nat /\ MaxFaults \in Nat
  BY <1>1, TaskSchedulerAssumption DEF TypeInv
<1>5. /\ worker' \in [Worker -> Frame] /\ C' = Idle /\ B' = B
  BY <1>1, Frames, OneFrame, Workers DEF C, B
<1>6. Own' = {} /\ Placed' \subseteq Placed
  BY <1>5, Frames DEF Own, Placed, Idle
<1>13. Shrunk
  BY <1>5, <1>6, Frames DEF Shrunk, C, Idle
<1>7. Apart'
  BY <1>1, <1>5, <1>6 DEF Apart
<1>8. CASE stream' = stream \ InHand(Consumer) /\ CopiesSame
  <2>1. stream' = stream \ {m}
    BY <1>2, <1>8 DEF InHand, C
  <2>2. FramesOK'
    BY <1>1, <1>5 DEF FramesOK, Idle
  <2>3. StreamOK'
    BY <1>1, <1>2, <1>6, <2>1 DEF StreamOK
  <2>4. TypeInv'
    BY <1>1, <1>4, <1>5, <1>8, <2>1 DEF TypeInv, CopiesSame
  <2>5. QED
    BY <1>7, <1>13, <2>2, <2>3, <2>4 DEF PlaceInv
<1>9. CASE Redelivered(Consumer) /\ CopiesOneMore
  <2>0. \A k \in Nat : k <= redeliveries + faults =>
          /\ k + 1 \in 0..(MaxRedeliveries + MaxFaults)
          /\ k + 1 <= redeliveries' + faults' /\ k <= redeliveries' + faults'
    BY <1>4, <1>9, CopiesRoom
  <2>9. redeliveries' \in 0..MaxRedeliveries /\ faults' \in 0..MaxFaults
    BY <1>4, <1>9 DEF CopiesOneMore
  <2> DEFINE n == [m EXCEPT !.copy = @ + 1]
  <2>1. n \in Submission /\ n.seq = m.seq /\ n.copy = c + 1 /\ n.task = m.task
    <3>1. c + 1 \in 0..(MaxRedeliveries + MaxFaults)
      BY <1>3, <2>0
    <3>2. QED
      BY <1>3, <3>1 DEF Submission
  <2>2. stream' = (stream \ {m}) \cup {n}
    BY <1>2, <1>9 DEF Redelivered, InHand, C
  <2> HIDE DEF n
  <2>3. FramesOK'
    BY <1>1, <1>5 DEF FramesOK, Idle
  <2>4. \A x \in Placed : x.seq = m.seq => x.copy \in Nat /\ x.copy <= c
    <3>1. Placed \subseteq Submission
      BY <1>1, HandType, Workers DEF Placed, TypeInv, Own, C, B, PlaceInv
    <3>2. \A x \in Placed : x.copy \in Nat
      BY <3>1 DEF Submission
    <3>3. QED
      BY <1>1, <1>2, <1>3, <3>2 DEF StreamOK
  <2>5. StreamOK'
    <3>1. \A y \in stream' : y = n \/ (y \in stream /\ y.seq # m.seq)
      BY <1>1, <2>2 DEF StreamOK
    <3>2. \A y \in stream', x \in Placed' : x.seq = y.seq => x.copy < y.copy
      BY <1>1, <1>2, <1>3, <1>6, <2>1, <2>4, <3>1 DEF StreamOK
    <3>3. \A y, x \in stream' : y.seq = x.seq => y = x
      BY <1>1, <2>1, <3>1 DEF StreamOK
    <3>4. \A y \in stream' \cup Placed' : y.seq <= submits
      BY <1>1, <1>6, <2>1, <3>1 DEF StreamOK
    <3>5. QED
      BY <3>2, <3>3, <3>4 DEF StreamOK
  <2>6. \A y \in stream' : y \in Submission /\ y.copy <= redeliveries' + faults'
    <3>1. \A y \in stream : y \in Submission /\ y.copy \in Nat /\ y.copy <= redeliveries + faults
      BY <1>1 DEF TypeInv, Submission
    <3>2. n.copy <= redeliveries' + faults'
      BY <1>3, <2>0, <2>1
    <3>3. \A y \in stream : y.copy <= redeliveries' + faults'
      BY <2>0, <3>1
    <3>4. QED
      BY <2>1, <2>2, <3>1, <3>2, <3>3
  <2>7. TypeInv'
    BY <1>1, <1>5, <2>6, <2>9 DEF TypeInv
  <2>8. QED
    BY <1>7, <1>13, <2>3, <2>5, <2>7 DEF PlaceInv
<1>10. QED
  BY <1>8, <1>9

\* The background loop moves submissions about among the places it handles.
LEMMA BackgroundMoves ==
  ASSUME PlaceInv, NEW k \in Frame, worker' = [worker EXCEPT ![Background] = k],
         UNCHANGED <<stream, submits>>,
         k.pc \notin {"queue", "ack"},
         k.pc \in {"acquire", "check", "launch", "push"} => \E m \in Submission : k.item = {m},
         k.pc \in {"idle", "next", "save"} => k.item = {},
         k.pc \in {"idle", "save"} => k.rest = {} /\ k.remaining = {},
         (processing' \cup pending' \cup k.item \cup k.rest \cup k.remaining)
           \subseteq (processing \cup pending \cup B.item \cup B.rest \cup B.remaining),
         processing' \cap (pending' \cup k.item \cup k.rest \cup k.remaining) = {},
         pending' \cap (k.item \cup k.rest \cup k.remaining) = {},
         k.item \cap (k.rest \cup k.remaining) = {},
         k.rest \cap k.remaining = {}
  PROVE  worker' \in [Worker -> Frame] /\ FramesOK' /\ StreamOK' /\ Apart' /\ Shrunk
<1>1. TypeInv /\ FramesOK /\ StreamOK /\ Apart
  BY DEF PlaceInv
<1>2. worker' \in [Worker -> Frame] /\ B' = k /\ C' = C
  BY <1>1, OneFrame, Workers DEF C, B
<1>3. Own' = Own
  BY <1>2 DEF Own
<1>4. FramesOK'
  BY <1>1, <1>2 DEF FramesOK
<1>5. Apart'
  BY <1>1, <1>2, <1>3 DEF Apart
<1>6. Placed' \subseteq Placed
  BY <1>2, <1>3 DEF Placed
<1>7. worker'[Consumer].item = C.item
  BY <1>2 DEF C
<1>8. QED
  BY <1>1, <1>2, <1>4, <1>5, <1>6, <1>7, StreamKept DEF Shrunk

\* The consumer gives the submission it has in hand its place.
LEMMA ConsumerPlaces ==
  ASSUME PlaceInv, NEW pc \in {"ack", "save"}, C.pc \in {"push", "queue"},
         worker' = [worker EXCEPT ![Consumer] = Turned(Consumer, pc)],
         UNCHANGED <<stream, submits>>,
         \/ processing' = processing \cup C.item /\ pending' = pending
         \/ pending' = pending \cup C.item /\ processing' = processing
  PROVE  worker' \in [Worker -> Frame] /\ FramesOK' /\ StreamOK' /\ Apart' /\ Shrunk
<1> DEFINE k == Turned(Consumer, pc)
<1>1. TypeInv /\ FramesOK /\ StreamOK /\ Apart
  BY DEF PlaceInv
<1>2. k \in Frame /\ k.pc = pc /\ k.item = C.item /\ k.rest = C.rest /\ k.remaining = C.remaining
  BY <1>1, TurnedFrame, Workers DEF C
<1>3. worker' = [worker EXCEPT ![Consumer] = k]
  OBVIOUS
<1> HIDE DEF k
<1>4. worker' \in [Worker -> Frame] /\ C' = k /\ B' = B
  BY <1>1, <1>2, <1>3, OneFrame, Workers DEF C, B
<1>5. Own = C.item /\ Own' = {}
  BY <1>2, <1>4 DEF Own
<1>6. FramesOK'
  BY <1>1, <1>2, <1>4 DEF FramesOK
<1>7. Apart'
  BY <1>1, <1>4, <1>5 DEF Apart
<1>8. Placed' \subseteq Placed
  BY <1>4, <1>5 DEF Placed
<1>9. worker'[Consumer].item = C.item
  BY <1>2, <1>4 DEF C
<1>10. QED
  BY <1>1, <1>4, <1>6, <1>7, <1>8, <1>9, StreamKept DEF Shrunk

\* A release or a cancellation only takes submissions away.
LEMMA TakenAway ==
  ASSUME PlaceInv, UNCHANGED <<stream, submits, worker>>,
         processing' \subseteq processing, pending' \subseteq pending
  PROVE  worker' \in [Worker -> Frame] /\ FramesOK' /\ StreamOK' /\ Apart' /\ Shrunk
<1>1. TypeInv /\ FramesOK /\ StreamOK /\ Apart
  BY DEF PlaceInv
<1>2. C' = C /\ B' = B /\ Own' = Own
  BY DEF C, B, Own
<1>3. FramesOK' /\ Apart' /\ Placed' \subseteq Placed
  BY <1>1, <1>2 DEF FramesOK, Apart, Placed
<1>4. worker' \in [Worker -> Frame] /\ worker'[Consumer].item = C.item
  BY <1>1 DEF TypeInv, C
<1>5. QED
  BY <1>1, <1>3, <1>4, StreamKept DEF Shrunk

-----------------------------------------------------------------------------
(* One lemma per action. *)

LEMMA SubmitKeeps ==
  ASSUME PlaceInv, NEW t \in TaskId, Submit(t)
  PROVE  PlaceInv'
<1> DEFINE n == [task |-> t, seq |-> submits + 1, copy |-> 0]
<1>1. /\ TypeInv /\ FramesOK /\ StreamOK /\ Apart
      /\ submits \in Nat /\ submits < MaxSubmits /\ submits' = submits + 1
      /\ MaxSubmits \in Nat /\ MaxRedeliveries \in Nat /\ MaxFaults \in Nat
  BY TaskSchedulerAssumption DEF PlaceInv, TypeInv, Submit
<1>10. stream' = stream \cup {n}
  BY DEF Submit
<1>2. submits + 1 \in 1..MaxSubmits /\ 0 \in 0..(MaxRedeliveries + MaxFaults)
  BY <1>1
<1>3. n \in Submission /\ n.seq = submits + 1 /\ n.copy = 0
  BY <1>2 DEF Submission
<1> HIDE DEF n
<1>4. UNCHANGED <<C, B, Own, Placed>>
  BY DEF Submit, C, B, Own, Placed
<1>5. \A x \in stream \cup Placed : x.seq \in Nat /\ x.seq <= submits
  <2>1. stream \cup Placed \subseteq Submission
    BY <1>1, HandType, Workers DEF Placed, TypeInv, Own, C, B
  <2>2. \A x \in stream \cup Placed : x.seq \in Nat
    BY <2>1, <1>1 DEF Submission
  <2>3. QED
    BY <1>1, <2>2 DEF StreamOK
<1>6. StreamOK'
  <2>1. \A x \in stream \cup Placed : x.seq # n.seq /\ x.seq <= submits'
    BY <1>1, <1>3, <1>5
  <2>2. n.seq <= submits'
    BY <1>1, <1>3
  <2>3. QED
    BY <1>1, <1>10, <1>4, <2>1, <2>2 DEF StreamOK, C
<1>7. FramesOK' /\ Apart'
  BY <1>1, <1>4 DEF FramesOK, Apart, Submit
<1>8. TypeInv'
  <2>1. submits' \in 0..MaxSubmits /\ 0 <= redeliveries + faults
    BY <1>1 DEF TypeInv
  <2>2. QED
    BY <1>1, <1>10, <1>3, <2>1 DEF TypeInv, Submit, boundVars
<1>9. QED
  BY <1>6, <1>7, <1>8 DEF PlaceInv

LEMMA DrainPendingKeeps ==
  ASSUME PlaceInv, DrainPending(Background)
  PROVE  PlaceInv' /\ Shrunk
<1> DEFINE k == [B EXCEPT !.pc = "next", !.rest = pending]
<1>1. /\ TypeInv /\ FramesOK /\ Apart /\ B.pc = "idle" /\ B \in Frame
      /\ B.item = {} /\ B.rest = {} /\ B.remaining = {}
  BY Frames, Workers DEF PlaceInv, FramesOK, DrainPending, At, B
<1>2. k \in Frame /\ k.pc = "next" /\ k.item = {} /\ k.rest = pending /\ k.remaining = {}
  BY <1>1 DEF Frame, TypeInv
<1>3. worker' = [worker EXCEPT ![Background] = k] /\ pending' = {}
      /\ UNCHANGED <<stream, submits, processing>>
  BY DEF DrainPending, B
<1> HIDE DEF k
<1>4. worker' \in [Worker -> Frame] /\ FramesOK' /\ StreamOK' /\ Apart' /\ Shrunk
  BY <1>1, <1>2, <1>3, BackgroundMoves DEF Apart
<1>5. QED
  BY <1>1, <1>3, <1>4, TypeKept DEF PlaceInv, DrainPending, TypeInv, boundVars

LEMMA NextPendingKeeps ==
  ASSUME PlaceInv, NEW m \in Submission, NextPending(Background, m)
  PROVE  PlaceInv' /\ Shrunk
<1> DEFINE k == [B EXCEPT !.pc = "acquire", !.item = {m}, !.rest = B.rest \ {m}]
<1>1. TypeInv /\ FramesOK /\ Apart /\ B.pc = "next" /\ B \in Frame /\ B.item = {} /\ m \in B.rest
  BY Frames, Workers DEF PlaceInv, FramesOK, NextPending, At, B
<1>2. /\ k \in Frame /\ k.pc = "acquire" /\ k.item = {m} /\ k.rest = B.rest \ {m}
      /\ k.remaining = B.remaining
  BY <1>1 DEF Frame
<1>3. worker' = [worker EXCEPT ![Background] = k] /\ UNCHANGED <<stream, submits, processing, pending>>
  BY DEF NextPending, B
<1> HIDE DEF k
<1>6. /\ k.item \cup k.rest = B.rest /\ k.item \cap k.rest = {} /\ k.item \subseteq B.rest
      /\ k.remaining = B.remaining /\ k.rest \subseteq B.rest
  BY <1>1, <1>2
<1>7. /\ processing' \cap (pending' \cup k.item \cup k.rest \cup k.remaining) = {}
      /\ pending' \cap (k.item \cup k.rest \cup k.remaining) = {}
      /\ k.item \cap (k.rest \cup k.remaining) = {} /\ k.rest \cap k.remaining = {}
      /\ (processing' \cup pending' \cup k.item \cup k.rest \cup k.remaining)
           \subseteq (processing \cup pending \cup B.item \cup B.rest \cup B.remaining)
  BY <1>1, <1>3, <1>6 DEF Apart
<1>4. worker' \in [Worker -> Frame] /\ FramesOK' /\ StreamOK' /\ Apart' /\ Shrunk
  BY <1>1, <1>2, <1>3, <1>7, BackgroundMoves
<1>5. QED
  BY <1>1, <1>3, <1>4, TypeKept DEF PlaceInv, NextPending, TypeInv, boundVars

LEMMA PutBackKeeps ==
  ASSUME PlaceInv, PutBack(Background)
  PROVE  PlaceInv' /\ Shrunk
<1> DEFINE k == [B EXCEPT !.pc = "save", !.remaining = {}]
<1>1. /\ TypeInv /\ FramesOK /\ Apart /\ B.pc = "next" /\ B \in Frame
      /\ B.item = {} /\ B.rest = {}
  BY Frames, Workers DEF PlaceInv, FramesOK, PutBack, At, B
<1>2. k \in Frame /\ k.pc = "save" /\ k.item = {} /\ k.rest = {} /\ k.remaining = {}
  BY <1>1 DEF Frame
<1>3. worker' = [worker EXCEPT ![Background] = k] /\ pending' = pending \cup B.remaining
      /\ UNCHANGED <<stream, submits, processing>>
  BY DEF PutBack, B
<1> HIDE DEF k
<1>4. worker' \in [Worker -> Frame] /\ FramesOK' /\ StreamOK' /\ Apart' /\ Shrunk
  BY <1>1, <1>2, <1>3, BackgroundMoves DEF Apart
<1>5. B.remaining \subseteq Submission
  BY <1>1 DEF Frame
<1>6. QED
  BY <1>1, <1>3, <1>4, <1>5, TypeKept DEF PlaceInv, PutBack, TypeInv, boundVars

\* What cannot run now goes to the queue or stays with the background loop.
LEMMA NotNowKeeps ==
  ASSUME PlaceInv, NEW w \in Worker, NotNow(w), worker[w].pc \in {"acquire", "check", "launch"},
         UNCHANGED <<stream, submits, processing, pending>>
  PROVE  worker' \in [Worker -> Frame] /\ FramesOK' /\ StreamOK' /\ Apart' /\ Shrunk
<1>1. CASE w = Consumer
  <2>1. worker' = [worker EXCEPT ![Consumer] = Turned(Consumer, "queue")]
    BY <1>1 DEF NotNow, Turned
  <2>2. QED
    BY <1>1, <2>1, MovesOn, Workers DEF C, Holding
<1>2. CASE w = Background
  <2> DEFINE k == [B EXCEPT !.pc = "next", !.item = {}, !.remaining = B.remaining \cup InHand(Background)]
  <2>1. TypeInv /\ FramesOK /\ Apart /\ B \in Frame /\ InHand(Background) = B.item
    BY Frames, Workers DEF PlaceInv, B, InHand
  <2>2. /\ k \in Frame /\ k.pc = "next" /\ k.item = {} /\ k.rest = B.rest
        /\ k.remaining = B.remaining \cup B.item
    BY <2>1 DEF Frame
  <2>3. worker' = [worker EXCEPT ![Background] = k]
    BY <1>2, Workers DEF NotNow, B
  <2> HIDE DEF k
  <2>4. QED
    BY <2>1, <2>2, <2>3, BackgroundMoves DEF Apart
<1>3. QED
  BY <1>1, <1>2, Workers

LEMMA TryAcquirePermitKeeps ==
  ASSUME PlaceInv, NEW w \in Worker, TryAcquirePermit(w)
  PROVE  PlaceInv' /\ Shrunk
<1>1. TypeInv /\ FramesOK /\ worker[w].pc = "acquire"
  BY DEF PlaceInv, TryAcquirePermit, At
<1>2. worker' \in [Worker -> Frame] /\ FramesOK' /\ StreamOK' /\ Apart' /\ Shrunk
  <2>1. CASE permits = 0
    BY <1>1, <2>1, NotNowKeeps DEF TryAcquirePermit
  <2>2. CASE permits # 0
    <3>1. worker' = [worker EXCEPT ![w] = Turned(w, "check")]
      BY <2>2 DEF TryAcquirePermit, Goto, Turned
    <3>2. QED
      BY <1>1, <3>1, MovesOn, Workers DEF TryAcquirePermit, Holding, C, B
  <2>3. QED
    BY <2>1, <2>2
<1>3. permits' \in Nat
  BY <1>1 DEF TryAcquirePermit, TypeInv
<1>4. QED
  BY <1>1, <1>2, <1>3, TypeKept DEF PlaceInv, TryAcquirePermit, TypeInv, boundVars

LEMMA CheckAgentAvailabilityKeeps ==
  ASSUME PlaceInv, NEW w \in Worker, CheckAgentAvailability(w)
  PROVE  PlaceInv' /\ Shrunk
<1>1. TypeInv /\ FramesOK /\ worker[w].pc = "check"
  BY DEF PlaceInv, CheckAgentAvailability, At
<1>2. worker' \in [Worker -> Frame] /\ FramesOK' /\ StreamOK' /\ Apart' /\ Shrunk
  <2>1. CASE NotNow(w)
    BY <1>1, <2>1, NotNowKeeps DEF CheckAgentAvailability
  <2>2. CASE Goto(w, "launch")
    <3>1. worker' = [worker EXCEPT ![w] = Turned(w, "launch")]
      BY <2>2 DEF Goto, Turned
    <3>2. QED
      BY <1>1, <3>1, MovesOn, Workers DEF CheckAgentAvailability, Holding, C, B
  <2>3. QED
    BY <2>1, <2>2 DEF CheckAgentAvailability
<1>3. permits' \in Nat
  BY <1>1 DEF CheckAgentAvailability, TypeInv
<1>4. QED
  BY <1>1, <1>2, <1>3, TypeKept DEF PlaceInv, CheckAgentAvailability, TypeInv, boundVars

LEMMA LaunchAgentsKeeps ==
  ASSUME PlaceInv, NEW w \in Worker, LaunchAgents(w)
  PROVE  PlaceInv' /\ Shrunk
<1>1. TypeInv /\ FramesOK /\ worker[w].pc = "launch"
  BY DEF PlaceInv, LaunchAgents, At
<1>2. worker' = [worker EXCEPT ![w] = Turned(w, "push")]
  BY DEF LaunchAgents, Goto, Turned
<1>3. worker' \in [Worker -> Frame] /\ FramesOK' /\ StreamOK' /\ Apart' /\ Shrunk
  BY <1>1, <1>2, MovesOn, Workers DEF LaunchAgents, Holding, C, B
<1>4. launches' \in [1..MaxSubmits -> Nat]
  BY <1>1 DEF LaunchAgents, TypeInv
<1>5. QED
  BY <1>1, <1>3, <1>4, TypeKept DEF PlaceInv, LaunchAgents, TypeInv, boundVars

\* The counting of faults and redeliveries makes room for another copy.
LEMMA FaultCounted ==
  ASSUME TypeInv, faults < MaxFaults, faults' = faults + 1, redeliveries' = redeliveries
  PROVE  CopiesOneMore
<1> DEFINE r == redeliveries f == faults r1 == redeliveries' f1 == faults'
<1>1. /\ r \in Nat /\ f \in Nat /\ r1 = r /\ f1 = f + 1 /\ f < MaxFaults /\ r <= MaxRedeliveries
      /\ MaxRedeliveries \in Nat /\ MaxFaults \in Nat
  BY TaskSchedulerAssumption DEF TypeInv
<1> HIDE DEF r, f, r1, f1
<1>2. r1 \in Nat /\ f1 \in Nat /\ r1 <= MaxRedeliveries /\ f1 <= MaxFaults /\ r1 + f1 = r + f + 1
  BY <1>1
<1>3. QED
  BY <1>2 DEF CopiesOneMore, r, f, r1, f1

LEMMA RedeliveryCounted ==
  ASSUME TypeInv, redeliveries < MaxRedeliveries, redeliveries' = redeliveries + 1,
         faults' = faults
  PROVE  CopiesOneMore
<1> DEFINE r == redeliveries f == faults r1 == redeliveries' f1 == faults'
<1>1. /\ r \in Nat /\ f \in Nat /\ f1 = f /\ r1 = r + 1 /\ r < MaxRedeliveries /\ f <= MaxFaults
      /\ MaxRedeliveries \in Nat /\ MaxFaults \in Nat
  BY TaskSchedulerAssumption DEF TypeInv
<1> HIDE DEF r, f, r1, f1
<1>2. r1 \in Nat /\ f1 \in Nat /\ r1 <= MaxRedeliveries /\ f1 <= MaxFaults /\ r1 + f1 = r + f + 1
  BY <1>1
<1>3. QED
  BY <1>2 DEF CopiesOneMore, r, f, r1, f1

LEMMA LaunchFaultKeeps ==
  ASSUME PlaceInv, NEW w \in Worker, LaunchFault(w)
  PROVE  PlaceInv' /\ Shrunk
<1>1. TypeInv /\ FramesOK /\ worker[w].pc = "launch" /\ permits' \in Nat
  BY DEF PlaceInv, LaunchFault, At, TypeInv
<1>2. CASE w = Consumer
  <2>1. CopiesOneMore
    BY <1>1, FaultCounted DEF LaunchFault
  <2>2. QED
    BY <1>1, <1>2, <2>1, ConsumerEnds DEF LaunchFault, C
<1>3. CASE w = Background
  <2>1. NotNow(w) /\ UNCHANGED stream
    BY <1>3, Workers DEF LaunchFault
  <2>2. worker' \in [Worker -> Frame] /\ FramesOK' /\ StreamOK' /\ Apart' /\ Shrunk
    BY <1>1, <2>1, NotNowKeeps DEF LaunchFault
  <2>3. /\ faults' = faults \/ (faults < MaxFaults /\ faults' = faults + 1)
        /\ UNCHANGED <<submits, seen, releasing, pending, processing, queueFile, launches, dropped,
                       redeliveries, crashes>>
    BY DEF LaunchFault
  <2>4. TypeInv'
    BY <1>1, <2>1, <2>2, <2>3, TypeKept DEF TypeInv
  <2>5. QED
    BY <2>2, <2>4 DEF PlaceInv
<1>4. QED
  BY <1>2, <1>3, Workers

LEMMA PushProcessingKeeps ==
  ASSUME PlaceInv, NEW w \in Worker, PushProcessing(w)
  PROVE  PlaceInv' /\ Shrunk
<1>1. /\ TypeInv /\ FramesOK /\ Apart /\ worker[w].pc = "push"
      /\ processing' = processing \cup worker[w].item
      /\ UNCHANGED <<stream, submits, pending>>
  BY DEF PlaceInv, PushProcessing, At, InHand
<1>2. worker' \in [Worker -> Frame] /\ FramesOK' /\ StreamOK' /\ Apart' /\ Shrunk
  <2>1. CASE w = Consumer
    <3>1. worker' = [worker EXCEPT ![Consumer] = Turned(Consumer, "ack")]
      BY <2>1 DEF PushProcessing, Turned
    <3>2. QED
      BY <1>1, <2>1, <3>1, ConsumerPlaces DEF C
  <2>2. CASE w = Background
    <3> DEFINE k == [B EXCEPT !.pc = "next", !.item = {}]
    <3>1. B \in Frame /\ B.pc = "push" /\ processing' = processing \cup B.item
      BY <1>1, <2>2, Frames, Workers DEF B
    <3>2. k \in Frame /\ k.pc = "next" /\ k.item = {} /\ k.rest = B.rest /\ k.remaining = B.remaining
      BY <3>1 DEF Frame
    <3>3. worker' = [worker EXCEPT ![Background] = k]
      BY <2>2, Workers DEF PushProcessing, B
    <3> HIDE DEF k
    <3>4. QED
      BY <1>1, <3>1, <3>2, <3>3, BackgroundMoves DEF Apart
  <2>3. QED
    BY <2>1, <2>2, Workers
<1>3. processing' \subseteq Submission
  BY <1>1, HandType DEF TypeInv
<1>4. QED
  BY <1>1, <1>2, <1>3, TypeKept DEF PlaceInv, PushProcessing, TypeInv, boundVars

LEMMA QueueTaskKeeps ==
  ASSUME PlaceInv, NEW w \in Worker, QueueTask(w)
  PROVE  PlaceInv' /\ Shrunk
<1>1. /\ TypeInv /\ FramesOK /\ worker[w].pc = "queue" /\ UNCHANGED <<stream, submits, processing>>
      /\ pending' = pending \cup worker[w].item
  BY DEF PlaceInv, QueueTask, At, InHand
<1>2. w = Consumer
  BY <1>1, Workers DEF FramesOK, B
<1>3. worker' = [worker EXCEPT ![Consumer] = Turned(Consumer, "save")]
  BY <1>2 DEF QueueTask, Goto, Turned
<1>4. worker' \in [Worker -> Frame] /\ FramesOK' /\ StreamOK' /\ Apart' /\ Shrunk
  BY <1>1, <1>2, <1>3, ConsumerPlaces DEF C
<1>5. pending' \subseteq Submission
  BY <1>1, HandType DEF TypeInv
<1>6. QED
  BY <1>1, <1>4, <1>5, TypeKept DEF PlaceInv, QueueTask, TypeInv, boundVars

\* The background loop ends its pass.
LEMMA PassEnds ==
  ASSUME PlaceInv, B.pc = "save", worker' = [worker EXCEPT ![Background] = Idle],
         UNCHANGED <<stream, submits, processing, pending>>
  PROVE  worker' \in [Worker -> Frame] /\ FramesOK' /\ StreamOK' /\ Apart' /\ Shrunk
<1>1. TypeInv /\ FramesOK /\ Apart
  BY DEF PlaceInv
<1>2. /\ Idle \in Frame /\ Idle.pc = "idle" /\ Idle.item = {} /\ Idle.rest = {}
      /\ Idle.remaining = {}
  BY <1>1, Frames, Workers
<1>3. QED
  BY <1>1, <1>2, BackgroundMoves DEF Apart

LEMMA SaveToDiskKeeps ==
  ASSUME PlaceInv, NEW w \in Worker, SaveToDisk(w)
  PROVE  PlaceInv' /\ Shrunk
<1>1. TypeInv /\ FramesOK /\ worker[w].pc = "save" /\ UNCHANGED <<stream, submits, processing, pending>>
  BY DEF PlaceInv, SaveToDisk, At
<1>2. worker' \in [Worker -> Frame] /\ FramesOK' /\ StreamOK' /\ Apart' /\ Shrunk
  <2>1. CASE w = Consumer
    <3>1. worker' = [worker EXCEPT ![Consumer] = Turned(Consumer, "ack")]
      BY <2>1 DEF SaveToDisk, Turned
    <3>2. QED
      BY <1>1, <2>1, <3>1, MovesOn, Workers DEF C
  <2>2. CASE w = Background
    <3>1. worker' = [worker EXCEPT ![Background] = Idle]
      BY <2>2, Workers DEF SaveToDisk
    <3>2. QED
      BY <1>1, <2>2, <3>1, PassEnds DEF B
  <2>3. QED
    BY <2>1, <2>2, Workers
<1>3. QED
  BY <1>1, <1>2, TypeKept DEF PlaceInv, SaveToDisk, TypeInv, boundVars

LEMMA SaveFaultKeeps ==
  ASSUME PlaceInv, NEW w \in Worker, SaveFault(w)
  PROVE  PlaceInv' /\ Shrunk
<1>1. TypeInv /\ FramesOK /\ worker[w].pc = "save" /\ permits' \in Nat
      /\ worker' = [worker EXCEPT ![w] = Idle]
  BY DEF PlaceInv, SaveFault, At, TypeInv
<1>2. CASE w = Consumer
  <2>1. CopiesOneMore
    BY <1>1, FaultCounted DEF SaveFault
  <2>2. QED
    BY <1>1, <1>2, <2>1, ConsumerEnds DEF SaveFault, C
<1>3. CASE w = Background
  <2>1. UNCHANGED stream
    BY <1>3, Workers DEF SaveFault
  <2>2. worker' \in [Worker -> Frame] /\ FramesOK' /\ StreamOK' /\ Apart' /\ Shrunk
    BY <1>1, <1>3, <2>1, PassEnds DEF SaveFault, B
  <2>3. /\ faults' = faults \/ (faults < MaxFaults /\ faults' = faults + 1)
        /\ UNCHANGED <<submits, seen, releasing, pending, processing, queueFile, launches, dropped,
                       redeliveries, crashes>>
    BY DEF SaveFault
  <2>4. TypeInv'
    BY <1>1, <2>1, <2>2, <2>3, TypeKept DEF TypeInv
  <2>5. QED
    BY <2>2, <2>4 DEF PlaceInv
<1>4. QED
  BY <1>2, <1>3, Workers

LEMMA AcknowledgeKeeps ==
  ASSUME PlaceInv, Acknowledge(Consumer)
  PROVE  PlaceInv' /\ Shrunk
<1>1. TypeInv /\ C.pc = "ack" /\ permits' \in Nat /\ CopiesSame
  BY DEF PlaceInv, Acknowledge, At, TypeInv, C, boundVars, CopiesSame
<1>2. QED
  BY <1>1, ConsumerEnds DEF Acknowledge, boundVars

LEMMA LateAcknowledgeKeeps ==
  ASSUME PlaceInv, LateAcknowledge(Consumer)
  PROVE  PlaceInv' /\ Shrunk
<1>1. TypeInv /\ C.pc = "ack" /\ permits' \in Nat
  BY DEF PlaceInv, LateAcknowledge, At, TypeInv, C
<1>2. CopiesOneMore
  BY <1>1, RedeliveryCounted DEF LateAcknowledge
<1>3. QED
  BY <1>1, <1>2, ConsumerEnds DEF LateAcknowledge

\* The entries of a task are few enough to be counted.
LEMMA EntriesCounted ==
  ASSUME Counted, NEW t
  PROVE  /\ IsFiniteSet(processing \ EntriesOf(t))
         /\ Cardinality(processing) \in Nat /\ Cardinality(EntriesOf(t)) \in Nat
         /\ Cardinality(processing \ EntriesOf(t)) = Cardinality(processing) - Cardinality(EntriesOf(t))
<1>1. EntriesOf(t) \subseteq processing /\ IsFiniteSet(processing)
  BY DEF EntriesOf, Counted
<1>2. IsFiniteSet(EntriesOf(t)) /\ processing \cap EntriesOf(t) = EntriesOf(t)
  BY <1>1, FS_Subset
<1>3. QED
  BY <1>1, <1>2, FS_Difference, FS_CardinalityType

LEMMA ReleaseProcessingKeeps ==
  ASSUME PlaceInv, Counted, NEW t \in TaskId, ReleaseProcessing(t)
  PROVE  PlaceInv' /\ Shrunk
<1>1. TypeInv /\ permits \in Nat /\ Cardinality(EntriesOf(t)) \in Nat
  BY EntriesCounted DEF PlaceInv, TypeInv
<1>2. permits' \in Nat
  BY <1>1 DEF ReleaseProcessing
<1>3. FramesOK' /\ StreamOK' /\ Apart' /\ Shrunk
  BY TakenAway DEF ReleaseProcessing
<1>4. TypeInv'
  BY <1>1, <1>2 DEF TypeInv, ReleaseProcessing, boundVars
<1>5. QED
  BY <1>3, <1>4 DEF PlaceInv

LEMMA FreeSeenKeeps ==
  ASSUME PlaceInv, NEW t \in TaskId, FreeSeen(t)
  PROVE  PlaceInv' /\ Shrunk
<1>1. FramesOK' /\ StreamOK' /\ Apart' /\ Shrunk
  BY TakenAway DEF FreeSeen
<1>2. TypeInv'
  BY DEF PlaceInv, TypeInv, FreeSeen, boundVars
<1>3. QED
  BY <1>1, <1>2 DEF PlaceInv

LEMMA ReleaseUnlaunchedKeeps ==
  ASSUME PlaceInv, NEW t \in TaskId, ReleaseUnlaunched(t)
  PROVE  PlaceInv' /\ Shrunk
<1>1. FramesOK' /\ StreamOK' /\ Apart' /\ Shrunk
  BY TakenAway DEF ReleaseUnlaunched
<1>2. TypeInv'
  BY DEF PlaceInv, TypeInv, ReleaseUnlaunched, boundVars
<1>3. QED
  BY <1>1, <1>2 DEF PlaceInv

LEMMA CancelTaskKeeps ==
  ASSUME PlaceInv, NEW t \in TaskId, CancelTask(t)
  PROVE  PlaceInv' /\ Shrunk
<1>1. FramesOK' /\ StreamOK' /\ Apart' /\ Shrunk
  BY TakenAway DEF CancelTask
<1>2. TypeInv'
  BY DEF PlaceInv, TypeInv, CancelTask, boundVars
<1>3. QED
  BY <1>1, <1>2 DEF PlaceInv

LEMMA CrashKeeps ==
  ASSUME PlaceInv, Crash
  PROVE  PlaceInv'
<1>1. TypeInv /\ StreamOK
  BY DEF PlaceInv
<1>2. /\ Idle \in Frame /\ Idle.pc = "idle" /\ Idle.item = {} /\ Idle.rest = {}
      /\ Idle.remaining = {}
  BY <1>1, Frames, Workers
<1>3. worker' \in [Worker -> Frame] /\ C' = Idle /\ B' = Idle
  BY <1>2, Workers DEF Crash, C, B
<1>4. Own' = {} /\ Placed' = {}
  BY <1>2, <1>3 DEF Own, Placed, Crash
<1>5. FramesOK' /\ Apart'
  BY <1>2, <1>3, <1>4 DEF FramesOK, Apart, Crash
<1>6. StreamOK'
  BY <1>1, <1>4 DEF StreamOK, Crash
<1>7. TypeInv'
  <2>1. crashes' \in 0..MaxCrashes /\ Limit \in Nat
    <3>1. crashes \in Nat /\ MaxCrashes \in Nat /\ crashes < MaxCrashes /\ crashes' = crashes + 1
      BY <1>1, TaskSchedulerAssumption DEF TypeInv, Crash
    <3>2. QED
      BY <3>1, TaskSchedulerAssumption
  <2>2. QED
    BY <1>1, <1>3, <2>1 DEF TypeInv, Crash
<1>8. QED
  BY <1>5, <1>6, <1>7 DEF PlaceInv

LEMMA WorkerSteps ==
  ASSUME PlaceInv, NEW w \in Worker, WorkerStep(w)
  PROVE  PlaceInv' /\ Shrunk
<1>1. CASE w = Consumer
  <2>1. \A m \in Submission : ~NextPending(w, m)
    BY <1>1 DEF PlaceInv, FramesOK, NextPending, At, C
  <2>2. ~DrainPending(w) /\ ~PutBack(w)
    BY <1>1, Workers DEF PlaceInv, FramesOK, DrainPending, PutBack, At, C
  <2>3. QED
    BY <1>1, <2>1, <2>2, TryAcquirePermitKeeps, CheckAgentAvailabilityKeeps, LaunchAgentsKeeps,
       LaunchFaultKeeps, PushProcessingKeeps, QueueTaskKeeps, SaveToDiskKeeps, SaveFaultKeeps,
       AcknowledgeKeeps, LateAcknowledgeKeeps DEF WorkerStep
<1>2. CASE w = Background
  <2>1. ~Acknowledge(w) /\ ~LateAcknowledge(w)
    BY <1>2, Workers DEF Acknowledge, LateAcknowledge
  <2>2. QED
    BY <1>2, <2>1, TryAcquirePermitKeeps, CheckAgentAvailabilityKeeps, LaunchAgentsKeeps,
       LaunchFaultKeeps, PushProcessingKeeps, QueueTaskKeeps, SaveToDiskKeeps, SaveFaultKeeps,
       DrainPendingKeeps, PutBackKeeps, NextPendingKeeps DEF WorkerStep
<1>3. QED
  BY <1>1, <1>2, Workers

LEMMA Steps ==
  ASSUME PlaceInv, Counted, [Next]_vars
  PROVE  PlaceInv'
<1>1. CASE UNCHANGED vars
  BY <1>1 DEF vars, boundVars, PlaceInv, TypeInv, FramesOK, StreamOK, Apart, Placed, Own, C, B
<1>2. CASE \E t \in TaskId : Submit(t) \/ ReleaseProcessing(t) \/ FreeSeen(t)
                            \/ ReleaseUnlaunched(t) \/ CancelTask(t)
  BY <1>2, SubmitKeeps, ReleaseProcessingKeeps, FreeSeenKeeps, ReleaseUnlaunchedKeeps,
     CancelTaskKeeps
<1>3. CASE \E m \in Submission : HandleNatsTask(m)
  BY <1>3, HandleKeeps
<1>4. CASE \E w \in Worker : WorkerStep(w)
  BY <1>4, WorkerSteps
<1>5. CASE Crash
  BY <1>5, CrashKeeps
<1>6. QED
  BY <1>1, <1>2, <1>3, <1>4, <1>5 DEF Next

-----------------------------------------------------------------------------
(* The permits. *)

\* What leaves the semaphore is with a worker or in processing, and the other
\* way round.
LEMMA Balance ==
  ASSUME TypeInv, Counted, IsFiniteSet(processing'), IsFiniteSet(PermitHolders'),
         \/ /\ permits' = permits - 1 /\ Cardinality(PermitHolders)' = Cardinality(PermitHolders) + 1
            /\ Cardinality(processing)' = Cardinality(processing)
         \/ /\ permits' = permits + 1 /\ Cardinality(PermitHolders)' = Cardinality(PermitHolders) - 1
            /\ Cardinality(processing)' = Cardinality(processing)
         \/ /\ permits' = permits /\ Cardinality(PermitHolders)' = Cardinality(PermitHolders) - 1
            /\ Cardinality(processing)' = Cardinality(processing) + 1
  PROVE  Counted'
<1> DEFINE P == permits H == Cardinality(PermitHolders) Q == Cardinality(processing)
           P1 == permits' H1 == Cardinality(PermitHolders)' Q1 == Cardinality(processing)'
<1>1. /\ P \in Nat /\ H \in Nat /\ Q \in Nat /\ P + H + Q = Limit
      /\ \/ P1 = P - 1 /\ H1 = H + 1 /\ Q1 = Q
         \/ P1 = P + 1 /\ H1 = H - 1 /\ Q1 = Q
         \/ P1 = P /\ H1 = H - 1 /\ Q1 = Q + 1
  BY FS_CardinalityType DEF TypeInv, Counted, PermitsConserved
<1> HIDE DEF P, H, Q, P1, H1, Q1
<1>2. P1 + H1 + Q1 = Limit
  BY <1>1
<1>3. PermitsConserved'
  BY <1>2 DEF PermitsConserved, P1, H1, Q1
<1>4. QED
  BY <1>3 DEF Counted

\* A step that changes one frame at most, and no permit or entry.
LEMMA NothingMoves ==
  ASSUME PlaceInv, Counted, UNCHANGED <<permits, processing>>,
         UNCHANGED worker \/
           \E w \in Worker, k \in Frame :
              worker' = [worker EXCEPT ![w] = k] /\ (k.pc \in Holding <=> worker[w].pc \in Holding)
  PROVE  Counted'
<1>1. IsFiniteSet(PermitHolders') /\ Cardinality(PermitHolders)' = Cardinality(PermitHolders)
  <2>1. CASE UNCHANGED worker
    BY <2>1 DEF PermitHolders, Counted
  <2>2. ASSUME NEW w \in Worker, NEW k \in Frame, worker' = [worker EXCEPT ![w] = k],
               k.pc \in Holding <=> worker[w].pc \in Holding
        PROVE  /\ IsFiniteSet(PermitHolders')
               /\ Cardinality(PermitHolders)' = Cardinality(PermitHolders)
    <3>1. /\ IsFiniteSet(PermitHolders') /\ Cardinality(PermitHolders) \in Nat
          /\ Cardinality(PermitHolders)' = Cardinality(PermitHolders)
              + (IF k.pc \in Holding THEN 1 ELSE 0)
              - (IF worker[w].pc \in Holding THEN 1 ELSE 0)
      BY <2>2, HoldersCount DEF PlaceInv
    <3>2. QED
      BY <2>2, <3>1
  <2>3. QED
    BY <2>1, <2>2
<1>2. IsFiniteSet(processing') /\ PermitsConserved'
  BY <1>1 DEF Counted, PermitsConserved
<1>3. QED
  BY <1>1, <1>2 DEF Counted

\* A permit goes from the semaphore to a worker, back, or into processing.
LEMMA HoldersDiffer ==
  ASSUME PlaceInv, Counted, NEW w \in Worker, NEW k \in Frame, worker' = [worker EXCEPT ![w] = k]
  PROVE  /\ IsFiniteSet(PermitHolders')
         /\ worker[w].pc \notin Holding /\ k.pc \in Holding
              => Cardinality(PermitHolders)' = Cardinality(PermitHolders) + 1
         /\ worker[w].pc \in Holding /\ k.pc \notin Holding
              => Cardinality(PermitHolders)' = Cardinality(PermitHolders) - 1
<1>1. /\ IsFiniteSet(PermitHolders') /\ Cardinality(PermitHolders) \in Nat
      /\ Cardinality(PermitHolders)' = Cardinality(PermitHolders)
          + (IF k.pc \in Holding THEN 1 ELSE 0)
          - (IF worker[w].pc \in Holding THEN 1 ELSE 0)
  BY HoldersCount DEF PlaceInv
<1>2. QED
  BY <1>1

LEMMA Takes ==
  ASSUME PlaceInv, Counted, NEW w \in Worker, NEW k \in Frame, worker' = [worker EXCEPT ![w] = k],
         worker[w].pc \notin Holding, k.pc \in Holding, permits' = permits - 1,
         UNCHANGED processing
  PROVE  Counted'
<1>1. IsFiniteSet(processing') /\ Cardinality(processing)' = Cardinality(processing)
  BY DEF Counted
<1>2. QED
  BY <1>1, HoldersDiffer, Balance, ZenonT(30) DEF PlaceInv

LEMMA GivesBack ==
  ASSUME PlaceInv, Counted, NEW w \in Worker, NEW k \in Frame, worker' = [worker EXCEPT ![w] = k],
         worker[w].pc \in Holding, k.pc \notin Holding, permits' = permits + 1,
         UNCHANGED processing
  PROVE  Counted'
<1>1. IsFiniteSet(processing') /\ Cardinality(processing)' = Cardinality(processing)
  BY DEF Counted
<1>2. QED
  BY <1>1, HoldersDiffer, Balance, ZenonT(30) DEF PlaceInv

LEMMA Stores ==
  ASSUME PlaceInv, Counted, NEW w \in Worker, NEW k \in Frame, worker' = [worker EXCEPT ![w] = k],
         worker[w].pc \in Holding, k.pc \notin Holding, UNCHANGED permits,
         NEW m, m \notin processing, processing' = processing \cup {m}
  PROVE  Counted'
<1>1. IsFiniteSet(processing') /\ Cardinality(processing)' = Cardinality(processing) + 1
  BY FS_AddElement DEF Counted
<1>2. QED
  BY <1>1, HoldersDiffer, Balance, ZenonT(30) DEF PlaceInv

\* The frame NotNow leaves holds no permit.
LEMMA NotNowFrame ==
  ASSUME PlaceInv, NEW w \in Worker, NotNow(w)
  PROVE  \E k \in Frame : worker' = [worker EXCEPT ![w] = k] /\ k.pc \notin Holding
<1>1. worker[w] \in Frame
  BY Frames DEF PlaceInv
<1>2. CASE w = Consumer
  <2>1. worker' = [worker EXCEPT ![w] = Turned(w, "queue")]
    BY <1>2 DEF NotNow, Turned
  <2>2. Turned(w, "queue") \in Frame /\ Turned(w, "queue").pc = "queue"
    BY TurnedFrame DEF PlaceInv
  <2>3. QED
    BY <2>1, <2>2 DEF Holding
<1>3. CASE w # Consumer
  <2> DEFINE k == [worker[w] EXCEPT !.pc = "next", !.item = {},
                                    !.remaining = worker[w].remaining \cup InHand(w)]
  <2>1. k \in Frame /\ k.pc = "next"
    BY <1>1 DEF Frame, InHand
  <2>2. worker' = [worker EXCEPT ![w] = k]
    BY <1>3 DEF NotNow
  <2> HIDE DEF k
  <2>3. QED
    BY <2>1, <2>2 DEF Holding
<1>4. QED
  BY <1>2, <1>3

LEMMA TryAcquirePermitCounts ==
  ASSUME PlaceInv, Counted, NEW w \in Worker, TryAcquirePermit(w)
  PROVE  Counted'
<1>1. worker[w].pc = "acquire" /\ permits \in Nat /\ UNCHANGED processing
  BY DEF TryAcquirePermit, At, PlaceInv, TypeInv
<1>2. CASE permits = 0
  <2>1. NotNow(w) /\ UNCHANGED permits
    BY <1>2 DEF TryAcquirePermit
  <2>2. QED
    BY <1>1, <2>1, NotNowFrame, NothingMoves DEF Holding
<1>3. CASE permits # 0
  <2> DEFINE k == Turned(w, "check")
  <2>1. worker' = [worker EXCEPT ![w] = k] /\ permits' = permits - 1
    BY <1>1, <1>3 DEF TryAcquirePermit, Goto, Turned
  <2>2. k \in Frame /\ k.pc = "check"
    BY TurnedFrame DEF PlaceInv
  <2> HIDE DEF k
  <2>3. QED
    BY <1>1, <2>1, <2>2, Takes DEF Holding
<1>4. QED
  BY <1>2, <1>3

LEMMA CheckAgentAvailabilityCounts ==
  ASSUME PlaceInv, Counted, NEW w \in Worker, CheckAgentAvailability(w)
  PROVE  Counted'
<1>1. worker[w].pc = "check" /\ UNCHANGED processing
  BY DEF CheckAgentAvailability, At
<1>2. CASE NotNow(w) /\ permits' = permits + 1
  BY <1>1, <1>2, NotNowFrame, GivesBack DEF Holding
<1>3. CASE Goto(w, "launch") /\ UNCHANGED permits
  <2>1. worker' = [worker EXCEPT ![w] = Turned(w, "launch")]
    BY <1>3 DEF Goto, Turned
  <2>2. Turned(w, "launch") \in Frame /\ Turned(w, "launch").pc = "launch"
    BY TurnedFrame DEF PlaceInv
  <2>3. QED
    BY <1>1, <1>3, <2>1, <2>2, NothingMoves DEF Holding
<1>4. QED
  BY <1>2, <1>3 DEF CheckAgentAvailability

LEMMA LaunchFaultCounts ==
  ASSUME PlaceInv, Counted, NEW w \in Worker, LaunchFault(w)
  PROVE  Counted'
<1>1. worker[w].pc = "launch" /\ UNCHANGED processing /\ permits' = permits + 1
  BY DEF LaunchFault, At
<1>2. \E k \in Frame : worker' = [worker EXCEPT ![w] = k] /\ k.pc \notin Holding
  <2>1. Idle \in Frame /\ Idle.pc = "idle"
    BY Frames DEF PlaceInv
  <2>2. QED
    BY <2>1, NotNowFrame DEF LaunchFault, Holding
<1>3. QED
  BY <1>1, <1>2, GivesBack DEF Holding

LEMMA PushProcessingCounts ==
  ASSUME PlaceInv, Counted, NEW w \in Worker, PushProcessing(w)
  PROVE  Counted'
<1>1. /\ worker[w].pc = "push" /\ processing' = processing \cup worker[w].item
      /\ UNCHANGED permits
  BY DEF PushProcessing, At, InHand
<1>2. PICK m : worker[w].item = {m}
  BY <1>1, HandType
<1>3. m \notin processing
  BY <1>1, <1>2, Workers DEF PlaceInv, Apart, Own, B, C
<1>5. PICK k \in Frame : worker' = [worker EXCEPT ![w] = k] /\ k.pc \notin Holding
  <2> DEFINE n == [worker[w] EXCEPT !.pc = "next", !.item = {}]
  <2>1. n \in Frame /\ n.pc = "next"
    BY Frames DEF PlaceInv, Frame
  <2>2. Turned(w, "ack") \in Frame /\ Turned(w, "ack").pc = "ack"
    BY TurnedFrame DEF PlaceInv
  <2>3. \/ worker' = [worker EXCEPT ![w] = n]
        \/ worker' = [worker EXCEPT ![w] = Turned(w, "ack")]
    BY DEF PushProcessing, Turned
  <2> HIDE DEF n
  <2>4. QED
    BY <2>1, <2>2, <2>3 DEF Holding
<1>6. QED
  BY <1>1, <1>2, <1>3, <1>5, Stores DEF Holding

\* The other steps of a worker leave its permit where it is.
LEMMA OtherStepsCount ==
  ASSUME PlaceInv, Counted, NEW w \in Worker,
         \/ LaunchAgents(w) \/ QueueTask(w) \/ SaveToDisk(w) \/ SaveFault(w)
         \/ Acknowledge(w) \/ LateAcknowledge(w) \/ DrainPending(w) \/ PutBack(w)
         \/ \E m \in Submission : NextPending(w, m)
  PROVE  Counted'
<1>1. UNCHANGED <<permits, processing>>
  BY DEF LaunchAgents, QueueTask, SaveToDisk, SaveFault, Acknowledge, LateAcknowledge,
         DrainPending, PutBack, NextPending
<1>2. worker[w] \in Frame /\ Idle \in Frame /\ Idle.pc = "idle"
  BY Frames DEF PlaceInv
<1>3. CASE LaunchAgents(w)
  <2>1. worker' = [worker EXCEPT ![w] = Turned(w, "push")] /\ worker[w].pc = "launch"
    BY <1>3 DEF LaunchAgents, Goto, Turned, At
  <2>2. Turned(w, "push") \in Frame /\ Turned(w, "push").pc = "push"
    BY TurnedFrame DEF PlaceInv
  <2>3. QED
    BY <1>1, <2>1, <2>2, NothingMoves DEF Holding
<1>4. CASE QueueTask(w)
  <2>1. worker' = [worker EXCEPT ![w] = Turned(w, "save")] /\ worker[w].pc = "queue"
    BY <1>4 DEF QueueTask, Goto, Turned, At
  <2>2. Turned(w, "save") \in Frame /\ Turned(w, "save").pc = "save"
    BY TurnedFrame DEF PlaceInv
  <2>3. QED
    BY <1>1, <2>1, <2>2, NothingMoves DEF Holding
<1>5. CASE SaveToDisk(w) \/ SaveFault(w) \/ Acknowledge(w) \/ LateAcknowledge(w)
  <2>1. /\ worker[w].pc \in {"save", "ack"}
        /\ \/ worker' = [worker EXCEPT ![w] = Idle]
           \/ worker' = [worker EXCEPT ![w] = Turned(w, "ack")]
    BY <1>5 DEF SaveToDisk, SaveFault, Acknowledge, LateAcknowledge, At, Turned
  <2>2. Turned(w, "ack") \in Frame /\ Turned(w, "ack").pc = "ack"
    BY TurnedFrame DEF PlaceInv
  <2>3. QED
    BY <1>1, <1>2, <2>1, <2>2, NothingMoves DEF Holding
<1>6. CASE DrainPending(w) \/ PutBack(w) \/ \E m \in Submission : NextPending(w, m)
  <2>1. /\ worker[w].pc \in {"idle", "next"}
        /\ \E k \in Frame : worker' = [worker EXCEPT ![w] = k] /\ k.pc \in {"next", "save", "acquire"}
    <3>1. CASE DrainPending(w)
      <4> DEFINE k == [worker[w] EXCEPT !.pc = "next", !.rest = pending]
      <4>1. k \in Frame /\ k.pc = "next"
        BY <1>2 DEF Frame, PlaceInv, TypeInv
      <4>2. worker' = [worker EXCEPT ![w] = k] /\ worker[w].pc = "idle"
        BY <3>1 DEF DrainPending, At
      <4> HIDE DEF k
      <4>3. QED
        BY <4>1, <4>2
    <3>2. CASE PutBack(w)
      <4> DEFINE k == [worker[w] EXCEPT !.pc = "save", !.remaining = {}]
      <4>1. k \in Frame /\ k.pc = "save"
        BY <1>2 DEF Frame
      <4>2. worker' = [worker EXCEPT ![w] = k] /\ worker[w].pc = "next"
        BY <3>2 DEF PutBack, At
      <4> HIDE DEF k
      <4>3. QED
        BY <4>1, <4>2
    <3>3. ASSUME NEW m \in Submission, NextPending(w, m)
          PROVE  /\ worker[w].pc \in {"idle", "next"}
                 /\ \E k \in Frame : worker' = [worker EXCEPT ![w] = k] /\ k.pc \in {"next", "save", "acquire"}
      <4> DEFINE k == [worker[w] EXCEPT !.pc = "acquire", !.item = {m}, !.rest = worker[w].rest \ {m}]
      <4>1. k \in Frame /\ k.pc = "acquire"
        BY <1>2 DEF Frame
      <4>2. worker' = [worker EXCEPT ![w] = k] /\ worker[w].pc = "next"
        BY <3>3 DEF NextPending, At
      <4> HIDE DEF k
      <4>3. QED
        BY <4>1, <4>2
    <3>4. QED
      BY <1>6, <3>1, <3>2, <3>3
  <2>2. QED
    BY <1>1, <2>1, NothingMoves DEF Holding
<1>7. QED
  BY <1>3, <1>4, <1>5, <1>6

LEMMA HandleCounts ==
  ASSUME PlaceInv, Counted, NEW m \in Submission, HandleNatsTask(m)
  PROVE  Counted'
<1> DEFINE k == [worker[Consumer] EXCEPT !.pc = "acquire", !.item = {m}]
<1>1. k \in Frame /\ k.pc = "acquire"
  BY Frames, Workers DEF PlaceInv, Frame
<1>2. /\ UNCHANGED <<permits, processing>> /\ worker[Consumer].pc = "idle"
      /\ UNCHANGED worker \/ worker' = [worker EXCEPT ![Consumer] = k]
  BY DEF HandleNatsTask, At
<1> HIDE DEF k
<1>3. QED
  BY <1>1, <1>2, NothingMoves, Workers DEF Holding

LEMMA ReleaseProcessingCounts ==
  ASSUME PlaceInv, Counted, NEW t \in TaskId, ReleaseProcessing(t)
  PROVE  Counted'
<1> DEFINE P == permits H == Cardinality(PermitHolders) Q == Cardinality(processing)
           P1 == permits' H1 == Cardinality(PermitHolders)' Q1 == Cardinality(processing)'
           n == Cardinality(EntriesOf(t))
<1>1. n \in Nat /\ Q \in Nat /\ IsFiniteSet(processing') /\ Q1 = Q - n /\ P1 = P + n
  BY EntriesCounted DEF ReleaseProcessing
<1>2. PermitHolders' = PermitHolders
  BY DEF ReleaseProcessing, PermitHolders
<1>3. P \in Nat /\ H \in Nat /\ P + H + Q = Limit /\ H1 = H /\ IsFiniteSet(PermitHolders')
  BY <1>2, FS_CardinalityType DEF PlaceInv, TypeInv, Counted, PermitsConserved
<1> HIDE DEF P, H, Q, P1, H1, Q1, n
<1>4. P1 + H1 + Q1 = Limit
  BY <1>1, <1>3
<1>5. PermitsConserved'
  BY <1>4 DEF PermitsConserved, P1, H1, Q1
<1>6. QED
  BY <1>1, <1>3, <1>5 DEF Counted

\* The semaphore of a new process is full.
LEMMA CrashCounts ==
  ASSUME PlaceInv, Counted, Crash
  PROVE  Counted'
<1>1. PermitHolders' = {}
  BY Frames DEF Crash, PermitHolders, PlaceInv, Idle
<1>2. processing' = {} /\ permits' = Limit /\ Limit \in Nat
  BY TaskSchedulerAssumption DEF Crash
<1>3. QED
  BY <1>1, <1>2, FS_EmptySet DEF Counted, PermitsConserved

LEMMA StepsCount ==
  ASSUME PlaceInv, Counted, [Next]_vars
  PROVE  Counted'
<1>1. CASE UNCHANGED vars
  BY <1>1, NothingMoves DEF vars
<1>2. ASSUME NEW t \in TaskId, Submit(t) \/ FreeSeen(t) \/ ReleaseUnlaunched(t) \/ CancelTask(t)
      PROVE  Counted'
  BY <1>2, NothingMoves DEF Submit, FreeSeen, ReleaseUnlaunched, CancelTask
<1>3. ASSUME NEW w \in Worker, WorkerStep(w)
      PROVE  Counted'
  BY <1>3, TryAcquirePermitCounts, CheckAgentAvailabilityCounts, LaunchFaultCounts,
     PushProcessingCounts, OtherStepsCount DEF WorkerStep
<1>4. QED
  BY <1>1, <1>2, <1>3, ReleaseProcessingCounts, HandleCounts, CrashCounts DEF Next

-----------------------------------------------------------------------------
LEMMA Inits == Init => PlaceInv /\ Counted
<1> SUFFICES ASSUME Init PROVE PlaceInv /\ Counted
  OBVIOUS
<1>1. /\ Idle \in Frame /\ Idle.pc = "idle" /\ Idle.item = {} /\ Idle.rest = {}
      /\ Idle.remaining = {}
  BY DEF Idle, Frame
<1>2. worker \in [Worker -> Frame] /\ C = Idle /\ B = Idle
  BY <1>1, Workers DEF Init, C, B
<1>3. Own = {} /\ Placed = {}
  BY <1>1, <1>2 DEF Own, Placed, Init
<1>4. FramesOK /\ Apart /\ StreamOK
  BY <1>1, <1>2, <1>3 DEF FramesOK, Apart, StreamOK, Init
<1>5. TypeInv
  BY <1>2, TaskSchedulerAssumption DEF TypeInv, Init
<1>6. PermitHolders = {}
  BY <1>1 DEF Init, PermitHolders
<1>7. Counted
  BY <1>6, FS_EmptySet, TaskSchedulerAssumption DEF Counted, PermitsConserved, Init
<1>8. QED
  BY <1>4, <1>5, <1>7 DEF PlaceInv

LEMMA Invariants == Spec => [](PlaceInv /\ Counted)
<1>1. PlaceInv /\ Counted /\ [Next]_vars => (PlaceInv /\ Counted)'
  BY Steps, StepsCount
<1>2. QED
  BY <1>1, Inits, PTL DEF Spec

\* No permit of the semaphore is lost or made on any path: not by a busy agent,
\* a failed launch, a duplicate, a release in any order with a launch, or a
\* restart.
THEOREM PermitsKept == Spec => []PermitsConserved
<1>1. Counted => PermitsConserved
  BY DEF Counted
<1>2. QED
  BY <1>1, Invariants, PTL

\* Every variable has its type; available permits are within the limit.
THEOREM TypeCorrect == Spec => []TypeOK
<1>1. PlaceInv /\ Counted => TypeOK
  <2> SUFFICES ASSUME PlaceInv, Counted PROVE TypeOK
    OBVIOUS
  <2>1. permits \in 0..Limit
    <3> DEFINE p == permits h == Cardinality(PermitHolders) q == Cardinality(processing)
    <3>1. p \in Nat /\ h \in Nat /\ q \in Nat /\ Limit \in Nat /\ p + h + q = Limit
      BY FS_CardinalityType, TaskSchedulerAssumption DEF PlaceInv, TypeInv, Counted, PermitsConserved
    <3> HIDE DEF p, h, q
    <3>2. p \in 0..Limit
      BY <3>1
    <3>3. QED
      BY <3>2 DEF p
  <2>2. QED
    BY <2>1 DEF TypeOK, PlaceInv, TypeInv
<1>2. QED
  BY <1>1, Invariants, PTL

-----------------------------------------------------------------------------
(* One live submission for a task, where a task is released only after its   *)
(* launch and the dedup set is never cleared.                                *)

Orderly == ~AnyTimeRelease /\ IsFiniteSet(TaskId) /\ Cardinality(TaskId) < SeenCap

\* The task of a submission that is on its way or runs is in the dedup set, and
\* is not being released; the consumer may hold one that was released besides.
LiveInv ==
  /\ \A x, y \in Placed \cup C.item : x.task = y.task => x = y
  /\ \A x \in Placed : x.task \in seen /\ x.task \notin releasing
  /\ releasing \subseteq seen

LEMMA LiveKept ==
  ASSUME LiveInv, Shrunk, UNCHANGED <<seen, releasing>>
  PROVE  LiveInv'
BY DEF LiveInv, Shrunk, C

LEMMA NeverCleared ==
  ASSUME TypeInv, Orderly
  PROVE  Cardinality(seen) < SeenCap /\ ~(Cardinality(seen) >= SeenCap)
<1>1. Cardinality(seen) <= Cardinality(TaskId)
      /\ Cardinality(seen) \in Nat /\ Cardinality(TaskId) \in Nat
  BY FS_Subset, FS_CardinalityType DEF TypeInv, Orderly
<1>2. QED
  BY <1>1, TaskSchedulerAssumption DEF Orderly

\* A submission is accepted only when no other of its task is live.
LEMMA HandleLive ==
  ASSUME PlaceInv, LiveInv, Orderly, NEW m \in Submission, HandleNatsTask(m)
  PROVE  LiveInv'
<1>5. Cardinality(seen) < SeenCap /\ seen' = seen \cup {m.task}
  BY NeverCleared DEF PlaceInv, HandleNatsTask, InsertSeen
<1>1. /\ FramesOK /\ C.pc = "idle" /\ C.item = {} /\ Own = {} /\ Cardinality(seen) < SeenCap
      /\ UNCHANGED <<pending, processing, releasing>> /\ seen' = seen \cup {m.task}
  BY <1>5 DEF PlaceInv, FramesOK, HandleNatsTask, At, C, Own
<1>2. CASE m.task \in seen
  <2>1. UNCHANGED <<worker, seen>>
    BY <1>1, <1>2 DEF HandleNatsTask, AlreadySeen
  <2>2. UNCHANGED <<C, B, Own, Placed>>
    BY <1>1, <2>1 DEF C, B, Own, Placed
  <2>3. Shrunk
    BY <2>1, <2>2 DEF Shrunk, C
  <2>4. QED
    BY <1>1, <2>1, <2>3, LiveKept
<1>3. CASE m.task \notin seen
  <2> DEFINE k == [C EXCEPT !.pc = "acquire", !.item = {m}]
  <2>1. k \in Frame /\ k.pc = "acquire" /\ k.item = {m}
    BY <1>1, Frames, Workers DEF PlaceInv, Frame, C
  <2>2. worker' = [worker EXCEPT ![Consumer] = k]
    BY <1>3 DEF HandleNatsTask, C, AlreadySeen
  <2> HIDE DEF k
  <2>3. C' = k /\ B' = B
    BY <2>1, <2>2, OneFrame, Workers DEF PlaceInv, C, B
  <2>4. Own' = {m} /\ Placed' = Placed \cup {m}
    BY <1>1, <2>1, <2>3 DEF Own, Placed
  <2>5. \A x \in Placed : x.task \in seen /\ x.task # m.task
    BY <1>3 DEF LiveInv
  <2>6. m.task \notin releasing
    BY <1>3 DEF LiveInv
  <2>7. Placed' \cup C'.item = Placed \cup {m}
    BY <2>1, <2>3, <2>4
  <2>8. \A x, y \in Placed : x.task = y.task => x = y
    BY DEF LiveInv
  <2>9. \A x, y \in Placed \cup {m} : x.task = y.task => x = y
    BY <2>5, <2>8
  <2>10. QED
    BY <1>1, <2>4, <2>5, <2>6, <2>7, <2>9 DEF LiveInv
<1>4. QED
  BY <1>2, <1>3

\* What is released was the only live submission of its task.
LEMMA ReleaseLive ==
  ASSUME PlaceInv, Counted, LiveInv, NEW t \in TaskId, ReleaseProcessing(t)
  PROVE  LiveInv'
<1>1. PICK e \in processing : e.task = t
  BY DEF ReleaseProcessing, EntriesOf
<1>2. /\ e \in Placed /\ UNCHANGED <<seen, pending, worker, C, B, Own>>
      /\ processing' = processing \ EntriesOf(t) /\ releasing' = releasing \cup {t}
  BY <1>1 DEF Placed, ReleaseProcessing, C, B, Own
<1>3. \A x \in Placed : x.task = t => x = e
  BY <1>1, <1>2 DEF LiveInv
<1>4. e \notin processing' /\ e \notin pending \cup Own \cup B.item \cup B.rest \cup B.remaining
  BY <1>1, <1>2 DEF EntriesOf, PlaceInv, Apart
<1>5. Placed' \subseteq Placed /\ e \notin Placed'
  BY <1>2, <1>4 DEF Placed
<1>6. t \in seen
  BY <1>1, <1>2 DEF LiveInv
<1>7. \A x \in Placed' : x.task # t
  BY <1>3, <1>5
<1>8. QED
  BY <1>2, <1>5, <1>6, <1>7 DEF LiveInv

LEMMA LiveSteps ==
  ASSUME PlaceInv, Counted, LiveInv, Orderly, [Next]_vars
  PROVE  LiveInv'
<1>1. CASE UNCHANGED vars
  BY <1>1 DEF vars, LiveInv, Placed, Own, C, B
<1>2. ASSUME NEW t \in TaskId, Submit(t)
      PROVE  LiveInv'
  BY <1>2 DEF Submit, LiveInv, Placed, Own, C, B
<1>3. ASSUME NEW t \in TaskId, FreeSeen(t)
      PROVE  LiveInv'
  <2>1. t \in releasing /\ seen' = seen \ {t} /\ releasing' = releasing \ {t}
        /\ UNCHANGED <<C, B, Own, Placed>>
    BY <1>3 DEF FreeSeen, Placed, Own, C, B
  <2>2. QED
    BY <2>1 DEF LiveInv
<1>4. ASSUME NEW w \in Worker, WorkerStep(w)
      PROVE  LiveInv'
  <2>1. UNCHANGED <<seen, releasing>>
    BY <1>4 DEF WorkerStep, TryAcquirePermit, CheckAgentAvailability, LaunchAgents, LaunchFault,
       PushProcessing, QueueTask, SaveToDisk, SaveFault, Acknowledge, LateAcknowledge,
       DrainPending, PutBack, NextPending
  <2>2. QED
    BY <1>4, <2>1, WorkerSteps, LiveKept
<1>5. CASE Crash
  <2>1. Idle.pc = "idle" /\ Idle.item = {} /\ Idle.rest = {} /\ Idle.remaining = {}
    BY DEF Idle
  <2>2. C' = Idle /\ B' = Idle /\ Own' = {}
    BY <1>5, <2>1, Workers DEF Crash, C, B, Own
  <2>3. Placed' = {}
    BY <1>5, <2>1, <2>2 DEF Crash, Placed
  <2>4. QED
    BY <1>5, <2>1, <2>2, <2>3 DEF LiveInv, Crash
<1>6. \A t \in TaskId : ~ReleaseUnlaunched(t) /\ ~CancelTask(t)
  BY DEF Orderly, ReleaseUnlaunched, CancelTask
<1>7. QED
  BY <1>1, <1>2, <1>3, <1>4, <1>5, <1>6, HandleLive, ReleaseLive DEF Next

LEMMA LiveInit == Init => LiveInv
<1> SUFFICES ASSUME Init PROVE LiveInv
  OBVIOUS
<1>1. C = Idle /\ B = Idle /\ Idle.pc = "idle" /\ Idle.item = {} /\ Idle.rest = {}
      /\ Idle.remaining = {}
  BY Workers DEF Init, C, B, Idle
<1>2. Placed = {}
  BY <1>1 DEF Placed, Own, Init
<1>3. QED
  BY <1>1, <1>2 DEF LiveInv, Init

\* A task has at most one submission on its way to an agent or with one, where
\* it is released only after its launch and the dedup set has room for all.
THEOREM OneLive ==
  ASSUME Orderly
  PROVE  Spec => []OneLiveSubmission
<1>1. PlaceInv /\ Counted /\ LiveInv /\ [Next]_vars => LiveInv'
  BY LiveSteps
<1>2. PlaceInv /\ LiveInv => OneLiveSubmission
  <2> SUFFICES ASSUME PlaceInv, LiveInv PROVE OneLiveSubmission
    OBVIOUS
  <2>1. C.rest = {} /\ C.remaining = {}
    BY DEF PlaceInv, FramesOK
  <2>2. Held \subseteq Placed \cup C.item
    BY <2>1, Workers DEF Held, InHand, Placed, C, B
  <2>3. pending \cup processing \subseteq Placed
    BY DEF Placed
  <2>4. QED
    BY <2>2, <2>3 DEF LiveInv, OneLiveSubmission
<1>3. QED
  BY <1>1, <1>2, Invariants, LiveInit, PTL DEF Spec

-----------------------------------------------------------------------------
(* Nothing is lost, where a task is released only after its launch and the   *)
(* process does not restart.                                                 *)

Undisturbed == ~AnyTimeRelease /\ MaxCrashes = 0

Queue == pending \cup B.item \cup B.rest \cup B.remaining
Launched(m) == launches[m.seq] > 0
Passed(m) == m \in Queue \/ Launched(m)

\* The consumer's message may go once it is queued or launched.
HandInv ==
  /\ C.pc \in {"save", "ack"} => \A m \in C.item : Passed(m)
  /\ C.pc = "push" => \A m \in C.item : Launched(m)
  /\ B.pc = "push" => \A m \in B.item : Launched(m)

Kept == stream \cup Queue \cup dropped
KeptInv == \A s \in 1..submits : launches[s] > 0 \/ \E m \in Kept : m.seq = s

\* A step keeps what was launched launched, and the queue queued or launched.
Onward ==
  /\ \A s \in 1..MaxSubmits : launches[s] > 0 => launches'[s] > 0
  /\ \A m \in Queue : m \in Queue' \/ launches'[m.seq] > 0

\* It keeps the messages, but for those that were queued or launched.
Delivered == \A m \in stream : (\E k \in stream' : k.seq = m.seq) \/ Passed(m)'

LEMMA Safe ==
  ASSUME PlaceInv, KeptInv, Onward, Delivered, UNCHANGED submits, dropped \subseteq dropped'
  PROVE  KeptInv'
<1> SUFFICES ASSUME NEW s \in 1..submits
             PROVE  launches'[s] > 0 \/ \E m \in Kept' : m.seq = s
  BY DEF KeptInv
<1>1. s \in 1..MaxSubmits
  BY TaskSchedulerAssumption DEF PlaceInv, TypeInv
<1>2. CASE launches[s] > 0
  BY <1>1, <1>2 DEF Onward
<1>3. ASSUME NEW m \in Kept, m.seq = s
      PROVE  launches'[s] > 0 \/ \E k \in Kept' : k.seq = s
  BY <1>3 DEF Kept, Onward, Delivered, Passed, Launched
<1>4. QED
  BY <1>2, <1>3 DEF KeptInv

\* The launch of what w has in hand is counted.
LEMMA LaunchCounted ==
  ASSUME TypeInv, NEW w \in Worker, LaunchAgents(w), worker[w].item \subseteq Submission
  PROVE  /\ \A s \in 1..MaxSubmits : launches[s] > 0 => launches'[s] > 0
         /\ \A m \in worker[w].item : launches'[m.seq] > 0
<1>1. \A s \in 1..MaxSubmits : launches[s] \in Nat
  BY DEF TypeInv
<1>2. launches' = [s \in 1..MaxSubmits |->
                     IF \E m \in worker[w].item : m.seq = s THEN launches[s] + 1 ELSE launches[s]]
  BY DEF LaunchAgents, InHand
<1>3. \A m \in worker[w].item : m.seq \in 1..MaxSubmits
  BY DEF Submission
<1>4. \A n \in Nat : n + 1 > 0 /\ (n > 0 => n + 1 > 0)
  OBVIOUS
<1>5. ASSUME NEW s \in 1..MaxSubmits, launches[s] > 0
      PROVE  launches'[s] > 0
  BY <1>1, <1>2, <1>4, <1>5
<1>6. ASSUME NEW m \in worker[w].item
      PROVE  launches'[m.seq] > 0
  <2>1. launches'[m.seq] = launches[m.seq] + 1
    BY <1>2, <1>3
  <2>2. QED
    BY <1>1, <1>3, <1>4, <2>1
<1>7. QED
  BY <1>5, <1>6

LEMMA RedeliveredKeeps ==
  ASSUME stream \subseteq Submission, NEW w, Redelivered(w)
  PROVE  \A m \in stream : \E k \in stream' : k.seq = m.seq
<1> SUFFICES ASSUME NEW m \in stream PROVE \E k \in stream' : k.seq = m.seq
  OBVIOUS
<1>1. CASE m \notin InHand(w)
  BY <1>1 DEF Redelivered
<1>2. CASE m \in InHand(w)
  <2> DEFINE k == [m EXCEPT !.copy = m.copy + 1]
  <2>1. k \in stream'
    BY <1>2 DEF Redelivered
  <2>2. k.seq = m.seq
    BY DEF Submission
  <2>3. QED
    BY <2>1, <2>2
<1>3. QED
  BY <1>1, <1>2

LEMMA Stays ==
  ASSUME Onward, NEW m \in Submission
  PROVE  (Launched(m) => Launched(m)') /\ (Passed(m) => Passed(m)')
<1>1. m.seq \in 1..MaxSubmits
  BY DEF Submission
<1>2. QED
  BY <1>1 DEF Onward, Launched, Passed

LEMMA ConsumerOnward ==
  ASSUME PlaceInv, HandInv, WorkerStep(Consumer)
  PROVE  Onward /\ Delivered /\ HandInv' /\ UNCHANGED <<submits, dropped>>
<1>0. /\ \A m \in Submission : ~NextPending(Consumer, m)
      /\ ~DrainPending(Consumer) /\ ~PutBack(Consumer)
  BY Workers DEF PlaceInv, FramesOK, NextPending, DrainPending, PutBack, At, C
<1>1. C.pc # "idle"
  BY <1>0 DEF WorkerStep, TryAcquirePermit, CheckAgentAvailability, LaunchAgents, LaunchFault,
     PushProcessing, QueueTask, SaveToDisk, SaveFault, Acknowledge, LateAcknowledge, At, C
<1>2. PICK m \in stream : C.item = {m}
  BY <1>1 DEF PlaceInv, FramesOK
<1>3. m \in Submission /\ stream \subseteq Submission /\ B.item \subseteq Submission
  BY HandType, Workers DEF PlaceInv, TypeInv, B
<1>4. worker \in [Worker -> Frame] /\ InHand(Consumer) = {m}
  BY <1>2 DEF PlaceInv, TypeInv, InHand, C
<1>5. UNCHANGED <<submits, dropped>> /\ pending \subseteq pending'
  BY <1>0 DEF WorkerStep, TryAcquirePermit, CheckAgentAvailability, LaunchAgents, LaunchFault,
     PushProcessing, QueueTask, SaveToDisk, SaveFault, Acknowledge, LateAcknowledge, boundVars
<1>6. /\ B' = B
      /\ C'.pc = "push" => LaunchAgents(Consumer)
      /\ C'.pc = "save" => QueueTask(Consumer)
      /\ C'.pc = "ack" => C.pc = "push" \/ C.pc = "save"
      /\ C'.pc \in {"push", "save", "ack"} => C'.item = {m}
  <2>1. CASE TryAcquirePermit(Consumer) \/ CheckAgentAvailability(Consumer)
    BY <1>4, <2>1, Workers DEF TryAcquirePermit, CheckAgentAvailability, NotNow, Goto, B, C, Frame
  <2>2. CASE LaunchAgents(Consumer) \/ QueueTask(Consumer)
    BY <1>2, <1>4, <2>2, Workers DEF LaunchAgents, QueueTask, Goto, B, C, Frame
  <2>3. CASE PushProcessing(Consumer) \/ SaveToDisk(Consumer)
    BY <1>2, <1>4, <2>3, Workers DEF PushProcessing, SaveToDisk, At, B, C, Frame
  <2>4. CASE LaunchFault(Consumer) \/ SaveFault(Consumer) \/ Acknowledge(Consumer)
             \/ LateAcknowledge(Consumer)
    BY <1>4, <2>4, Workers DEF LaunchFault, SaveFault, Acknowledge, LateAcknowledge, Idle, B, C
  <2>5. QED
    BY <1>0, <2>1, <2>2, <2>3, <2>4 DEF WorkerStep
<1>7. /\ \A s \in 1..MaxSubmits : launches[s] > 0 => launches'[s] > 0
      /\ LaunchAgents(Consumer) => Launched(m)'
  <2>1. CASE LaunchAgents(Consumer)
    BY <1>2, <1>3, <2>1, LaunchCounted, Workers DEF PlaceInv, Launched, C
  <2>2. CASE ~LaunchAgents(Consumer)
    BY <1>0, <2>2 DEF WorkerStep, TryAcquirePermit, CheckAgentAvailability, LaunchFault,
       PushProcessing, QueueTask, SaveToDisk, SaveFault, Acknowledge, LateAcknowledge
  <2>3. QED
    BY <2>1, <2>2
<1>8. Onward
  BY <1>5, <1>6, <1>7 DEF Onward, Queue
<1>9. Delivered
  <2>1. CASE Acknowledge(Consumer)
    <3>1. Passed(m) /\ stream' = stream \ {m}
      BY <1>2, <1>4, <2>1 DEF Acknowledge, At, HandInv, C
    <3>2. Passed(m)'
      BY <1>3, <1>8, <3>1, Stays
    <3>3. QED
      BY <3>1, <3>2 DEF Delivered
  <2>2. CASE ~Acknowledge(Consumer)
    <3>1. UNCHANGED stream \/ Redelivered(Consumer)
      BY <1>0, <2>2 DEF WorkerStep, TryAcquirePermit, CheckAgentAvailability, LaunchAgents,
         LaunchFault, PushProcessing, QueueTask, SaveToDisk, SaveFault, LateAcknowledge
    <3>2. QED
      BY <1>3, <3>1, RedeliveredKeeps DEF Delivered
  <2>3. QED
    BY <2>1, <2>2
<1>10. HandInv'
  <2>1. C'.pc = "push" => \A x \in C'.item : Launched(x)'
    BY <1>6, <1>7
  <2>2. C'.pc = "save" => Passed(m)'
    <3>1. QueueTask(Consumer) => m \in pending'
      BY <1>4 DEF QueueTask
    <3>2. QED
      BY <1>6, <3>1 DEF Passed, Queue
  <2>3. C'.pc = "ack" => Passed(m)'
    <3>1. C.pc = "push" => Launched(m)
      BY <1>2 DEF HandInv
    <3>2. C.pc = "save" => Passed(m)
      BY <1>2 DEF HandInv
    <3>3. QED
      BY <1>3, <1>6, <1>8, <3>1, <3>2, Stays DEF Passed
  <2>4. B'.pc = "push" => \A x \in B'.item : Launched(x)'
    BY <1>3, <1>6, <1>8, Stays DEF HandInv
  <2>5. C'.pc \in {"save", "ack"} => \A x \in C'.item : Passed(x)'
    BY <1>6, <2>2, <2>3
  <2>6. QED
    BY <2>1, <2>4, <2>5 DEF HandInv
<1>11. QED
  BY <1>5, <1>8, <1>9, <1>10

LEMMA BackgroundOnward ==
  ASSUME PlaceInv, HandInv, WorkerStep(Background)
  PROVE  Onward /\ Delivered /\ HandInv' /\ UNCHANGED <<submits, dropped>>
<1>0. ~Acknowledge(Background) /\ ~LateAcknowledge(Background) /\ ~QueueTask(Background)
  BY Workers DEF PlaceInv, FramesOK, Acknowledge, LateAcknowledge, QueueTask, At, B
<1>1. /\ worker \in [Worker -> Frame] /\ B \in Frame /\ InHand(Background) = B.item
      /\ B.item \subseteq Submission /\ C.item \subseteq Submission
  BY HandType, Frames, Workers DEF PlaceInv, TypeInv, InHand, B, C
<1>2. UNCHANGED <<submits, dropped, stream>>
  BY <1>0, Workers DEF WorkerStep, TryAcquirePermit, CheckAgentAvailability, LaunchAgents,
     LaunchFault, PushProcessing, SaveToDisk, SaveFault, DrainPending, PutBack, NextPending,
     boundVars
<1>3. /\ C' = C
      /\ \A x \in Queue : x \in Queue' \/ (B.pc = "push" /\ x \in B.item)
      /\ B'.pc = "push" => LaunchAgents(Background) /\ B'.item = B.item
  <2>1. CASE NotNow(Background) /\ UNCHANGED pending
    BY <1>1, <2>1, Workers DEF NotNow, B, C, Frame, Queue
  <2>2. CASE (Goto(Background, "check") \/ Goto(Background, "launch")) /\ UNCHANGED pending
    BY <1>1, <2>2, Workers DEF Goto, B, C, Frame, Queue
  <2>3. CASE LaunchAgents(Background)
    BY <1>1, <2>3, Workers DEF LaunchAgents, Goto, B, C, Frame, Queue
  <2>4. CASE PushProcessing(Background)
    BY <1>1, <2>4, Workers DEF PushProcessing, At, B, C, Frame, Queue
  <2>5. CASE SaveToDisk(Background) \/ SaveFault(Background)
    <3>1. B.item = {} /\ B.rest = {} /\ B.remaining = {}
      BY <2>5 DEF SaveToDisk, SaveFault, At, PlaceInv, FramesOK, B
    <3>2. QED
      BY <1>1, <2>5, <3>1, Workers DEF SaveToDisk, SaveFault, Idle, B, C, Queue
  <2>6. CASE DrainPending(Background)
    <3>1. B.item = {} /\ B.rest = {} /\ B.remaining = {}
      BY <2>6 DEF DrainPending, At, PlaceInv, FramesOK, B
    <3>2. QED
      BY <1>1, <2>6, <3>1, Workers DEF DrainPending, B, C, Frame, Queue
  <2>7. CASE PutBack(Background)
    BY <1>1, <2>7, Workers DEF PutBack, B, C, Frame, Queue
  <2>8. ASSUME NEW m \in Submission, NextPending(Background, m)
        PROVE  /\ C' = C
               /\ \A x \in Queue : x \in Queue' \/ (B.pc = "push" /\ x \in B.item)
               /\ B'.pc = "push" => LaunchAgents(Background) /\ B'.item = B.item
    <3>1. B.item = {}
      BY <2>8 DEF NextPending, At, PlaceInv, FramesOK, B
    <3>2. QED
      BY <1>1, <2>8, <3>1, Workers DEF NextPending, B, C, Frame, Queue
  <2>9. QED
    BY <1>0, <2>1, <2>2, <2>3, <2>4, <2>5, <2>6, <2>7, <2>8, Workers
       DEF WorkerStep, TryAcquirePermit, CheckAgentAvailability, LaunchFault
<1>4. /\ \A s \in 1..MaxSubmits : launches[s] > 0 => launches'[s] > 0
      /\ LaunchAgents(Background) => \A x \in B.item : Launched(x)'
  <2>1. CASE LaunchAgents(Background)
    BY <1>1, <2>1, LaunchCounted, Workers DEF PlaceInv, Launched, B
  <2>2. CASE ~LaunchAgents(Background)
    BY <1>0, <2>2 DEF WorkerStep, TryAcquirePermit, CheckAgentAvailability, LaunchFault,
       PushProcessing, SaveToDisk, SaveFault, DrainPending, PutBack, NextPending
  <2>3. QED
    BY <2>1, <2>2
<1>5. \A x \in B.item : x.seq \in 1..MaxSubmits
  BY <1>1 DEF Submission
<1>6. Onward
  BY <1>3, <1>4, <1>5 DEF Onward, HandInv, Launched
<1>7. Delivered
  BY <1>2 DEF Delivered
<1>8. HandInv'
  BY <1>1, <1>3, <1>4, <1>6, Stays DEF HandInv
<1>9. QED
  BY <1>2, <1>6, <1>7, <1>8

\* The other steps touch neither the workers nor a submission that waits.
LEMMA OthersOnward ==
  ASSUME UNCHANGED <<pending, worker, launches>>, stream \subseteq stream', HandInv
  PROVE  Onward /\ Delivered /\ HandInv'
<1>1. UNCHANGED <<C, B, Queue>>
  BY DEF C, B, Queue
<1>2. QED
  BY <1>1 DEF Onward, Delivered, HandInv, Passed, Launched

LEMMA HandleLosesNothing ==
  ASSUME PlaceInv, HandInv, KeptInv, NEW m \in Submission, HandleNatsTask(m)
  PROVE  HandInv' /\ KeptInv'
<1>1. UNCHANGED <<submits, pending, launches>> /\ C.pc = "idle" /\ C.item = {}
  BY DEF HandleNatsTask, At, C, PlaceInv, FramesOK
<1>2. B' = B /\ (C' = C \/ C'.pc = "acquire")
  BY Workers DEF HandleNatsTask, PlaceInv, TypeInv, B, C, Frame
<1>3. UNCHANGED Queue
  BY <1>1, <1>2 DEF Queue
<1>4. HandInv'
  BY <1>1, <1>2, <1>3 DEF HandInv, Passed, Launched
<1>5. Kept \subseteq Kept'
  BY <1>3 DEF HandleNatsTask, Kept
<1>6. QED
  BY <1>1, <1>4, <1>5 DEF KeptInv

LEMMA KeptSteps ==
  ASSUME PlaceInv, Counted, HandInv, KeptInv, Undisturbed, [Next]_vars
  PROVE  HandInv' /\ KeptInv'
<1>1. ASSUME UNCHANGED <<stream, submits, pending, worker, launches, dropped>>
      PROVE  HandInv' /\ KeptInv'
  BY <1>1, OthersOnward, Safe
<1>2. CASE UNCHANGED vars
  BY <1>1, <1>2 DEF vars
<1>3. ASSUME NEW t \in TaskId, ReleaseProcessing(t) \/ FreeSeen(t)
      PROVE  HandInv' /\ KeptInv'
  BY <1>1, <1>3 DEF ReleaseProcessing, FreeSeen
<1>4. ASSUME NEW t \in TaskId, Submit(t)
      PROVE  HandInv' /\ KeptInv'
  <2>1. HandInv'
    BY <1>4, OthersOnward DEF Submit
  <2> DEFINE n == [task |-> t, seq |-> submits + 1, copy |-> 0]
  <2>2. n \in stream' /\ n.seq = submits + 1
    BY <1>4 DEF Submit
  <2> HIDE DEF n
  <2>3. \A s \in 1..submits' : s \in 1..submits \/ s = submits + 1
    <3> DEFINE p == submits p1 == submits'
    <3>1. p \in Nat /\ p1 = p + 1
      BY <1>4, TaskSchedulerAssumption DEF Submit, PlaceInv, TypeInv
    <3> HIDE DEF p, p1
    <3>2. \A s \in 1..p1 : s \in 1..p \/ s = p + 1
      BY <3>1
    <3>3. QED
      BY <3>2 DEF p, p1
  <2>4. Kept \subseteq Kept' /\ n \in Kept' /\ UNCHANGED launches
    BY <1>4, <2>2 DEF Submit, Kept, Queue, B
  <2>5. KeptInv'
    <3> SUFFICES ASSUME NEW s \in 1..submits'
                 PROVE  launches'[s] > 0 \/ \E k \in Kept' : k.seq = s
      BY DEF KeptInv
    <3>1. CASE s \in 1..submits
      BY <2>4, <3>1 DEF KeptInv
    <3>2. CASE s = submits + 1
      BY <2>2, <2>4, <3>2
    <3>3. QED
      BY <2>3, <3>1, <3>2
  <2>6. QED
    BY <2>1, <2>5
<1>5. ASSUME NEW w \in Worker, WorkerStep(w)
      PROVE  HandInv' /\ KeptInv'
  BY <1>5, ConsumerOnward, BackgroundOnward, Safe, Workers
<1>6. /\ ~Crash
      /\ \A t \in TaskId : ~ReleaseUnlaunched(t) /\ ~CancelTask(t)
  <2>1. ~(crashes < MaxCrashes)
    BY DEF Undisturbed, PlaceInv, TypeInv
  <2>2. QED
    BY <2>1 DEF Undisturbed, ReleaseUnlaunched, CancelTask, Crash
<1>7. QED
  BY <1>2, <1>3, <1>4, <1>5, <1>6, HandleLosesNothing DEF Next

LEMMA KeptInit == Init => HandInv /\ KeptInv
<1>1. Init => C.pc = "idle" /\ B.pc = "idle"
  BY Workers DEF Init, C, B, Idle
<1>2. Init => KeptInv
  BY DEF Init, KeptInv
<1>3. QED
  BY <1>1, <1>2 DEF HandInv

\* A submission that was published is in the stream, in the queue, in hand, was
\* launched, or was dropped as a duplicate, where a task is released only after
\* its launch and the process does not restart.
THEOREM NothingLost ==
  ASSUME Undisturbed
  PROVE  Spec => []NothingIsLost
<1>1. PlaceInv /\ Counted /\ HandInv /\ KeptInv /\ [Next]_vars => (HandInv /\ KeptInv)'
  BY KeptSteps
<1>2. KeptInv => NothingIsLost
  <2>1. Queue \subseteq pending \cup Held
    BY Workers DEF Queue, Held, InHand, B
  <2>2. QED
    BY <2>1 DEF KeptInv, Kept, NothingIsLost
<1>3. QED
  BY <1>1, <1>2, Invariants, KeptInit, PTL DEF Spec

-----------------------------------------------------------------------------
(* What is dropped as a duplicate is one, where a task is released only      *)
(* after its launch and no launch fails.                                     *)
Faultless == ~AnyTimeRelease /\ MaxFaults = 0

\* A task in the dedup set has a submission on its way to an agent or with one,
\* or is being released: what the consumer finds there is served.
ServedInv == \A t \in seen : t \in releasing \/ \E k \in Placed : k.task = t

LEMMA ServedStays ==
  ASSUME ServedInv, Placed \subseteq Placed', UNCHANGED <<seen, releasing>>
  PROVE  ServedInv'
BY DEF ServedInv

LEMMA ConsumerLeavesPlaced ==
  ASSUME PlaceInv, MaxFaults = 0, WorkerStep(Consumer)
  PROVE  Placed \subseteq Placed'
<1>0. /\ \A m \in Submission : ~NextPending(Consumer, m)
      /\ ~DrainPending(Consumer) /\ ~PutBack(Consumer)
      /\ ~LaunchFault(Consumer) /\ ~SaveFault(Consumer)
  <2>1. ~(faults < MaxFaults)
    BY DEF PlaceInv, TypeInv
  <2>2. QED
    BY <2>1, Workers DEF PlaceInv, FramesOK, NextPending, DrainPending, PutBack, LaunchFault,
       SaveFault, At, C
<1>1. worker \in [Worker -> Frame] /\ InHand(Consumer) = C.item
  BY DEF PlaceInv, TypeInv, InHand, C
<1>2. CASE TryAcquirePermit(Consumer) \/ CheckAgentAvailability(Consumer)
           \/ LaunchAgents(Consumer)
  <2>1. C.pc \in {"acquire", "check", "launch"} /\ UNCHANGED <<pending, processing>>
    BY <1>2 DEF TryAcquirePermit, CheckAgentAvailability, LaunchAgents, At, C
  <2>2. /\ B' = B /\ C'.item = C.item
        /\ C'.pc \in {"check", "launch", "push", "queue"}
    BY <1>1, <1>2, Workers DEF TryAcquirePermit, CheckAgentAvailability, LaunchAgents, NotNow,
       Goto, B, C, Frame
  <2>3. QED
    BY <2>1, <2>2 DEF Placed, Own
<1>3. CASE PushProcessing(Consumer)
  <2>1. B' = B /\ pending' = pending /\ processing' = processing \cup C.item
    BY <1>1, <1>3, Workers DEF PushProcessing, B, C, Frame
  <2>2. QED
    BY <2>1 DEF Placed, Own
<1>4. CASE QueueTask(Consumer)
  <2>1. B' = B /\ pending' = pending \cup C.item /\ processing' = processing
    BY <1>1, <1>4, Workers DEF QueueTask, Goto, B, C, Frame
  <2>2. QED
    BY <2>1 DEF Placed, Own
<1>5. CASE SaveToDisk(Consumer) \/ Acknowledge(Consumer) \/ LateAcknowledge(Consumer)
  <2>1. B' = B /\ UNCHANGED <<pending, processing>> /\ C.pc \in {"save", "ack"}
    BY <1>1, <1>5, Workers DEF SaveToDisk, Acknowledge, LateAcknowledge, At, B, C, Frame
  <2>2. QED
    BY <2>1 DEF Placed, Own
<1>6. QED
  BY <1>0, <1>2, <1>3, <1>4, <1>5 DEF WorkerStep

LEMMA BackgroundLeavesPlaced ==
  ASSUME PlaceInv, MaxFaults = 0, WorkerStep(Background)
  PROVE  Placed \subseteq Placed'
<1>0. /\ ~Acknowledge(Background) /\ ~LateAcknowledge(Background) /\ ~QueueTask(Background)
      /\ ~LaunchFault(Background) /\ ~SaveFault(Background)
  <2>1. ~(faults < MaxFaults)
    BY DEF PlaceInv, TypeInv
  <2>2. QED
    BY <2>1, Workers DEF PlaceInv, FramesOK, Acknowledge, LateAcknowledge, QueueTask,
       LaunchFault, SaveFault, At, B
<1>1. worker \in [Worker -> Frame] /\ InHand(Background) = B.item
  BY DEF PlaceInv, TypeInv, InHand, B
<1>2. CASE NotNow(Background) /\ UNCHANGED <<pending, processing>>
  BY <1>1, <1>2, Workers DEF NotNow, B, C, Frame, Placed, Own
<1>3. CASE /\ Goto(Background, "check") \/ Goto(Background, "launch") \/ Goto(Background, "push")
           /\ UNCHANGED <<pending, processing>>
  BY <1>1, <1>3, Workers DEF Goto, B, C, Frame, Placed, Own
<1>4. CASE PushProcessing(Background)
  <2>1. /\ C' = C /\ pending' = pending /\ processing' = processing \cup B.item
        /\ B'.rest = B.rest /\ B'.remaining = B.remaining
    BY <1>1, <1>4, Workers DEF PushProcessing, B, C, Frame
  <2>2. QED
    BY <2>1 DEF Placed, Own
<1>5. CASE SaveToDisk(Background)
  <2>1. B.item = {} /\ B.rest = {} /\ B.remaining = {}
    BY <1>5 DEF SaveToDisk, At, PlaceInv, FramesOK, B
  <2>2. C' = C /\ UNCHANGED <<pending, processing>>
    BY <1>1, <1>5, Workers DEF SaveToDisk, C
  <2>3. QED
    BY <2>1, <2>2 DEF Placed, Own
<1>6. CASE DrainPending(Background)
  <2>1. B.item = {} /\ B.rest = {} /\ B.remaining = {}
    BY <1>6 DEF DrainPending, At, PlaceInv, FramesOK, B
  <2>2. C' = C /\ B'.rest = pending /\ processing' = processing
    BY <1>1, <1>6, Workers DEF DrainPending, B, C, Frame
  <2>3. QED
    BY <2>1, <2>2 DEF Placed, Own
<1>7. CASE PutBack(Background)
  <2>1. B.item = {} /\ B.rest = {}
    BY <1>7 DEF PutBack, At, PlaceInv, FramesOK, B
  <2>2. C' = C /\ pending' = pending \cup B.remaining /\ processing' = processing
    BY <1>1, <1>7, Workers DEF PutBack, B, C, Frame
  <2>3. QED
    BY <2>1, <2>2 DEF Placed, Own
<1>8. ASSUME NEW m \in Submission, NextPending(Background, m)
      PROVE  Placed \subseteq Placed'
  <2>1. B.item = {}
    BY <1>8 DEF NextPending, At, PlaceInv, FramesOK, B
  <2>2. /\ C' = C /\ UNCHANGED <<pending, processing>>
        /\ B'.item = {m} /\ B'.rest = B.rest \ {m} /\ B'.remaining = B.remaining
    BY <1>1, <1>8, Workers DEF NextPending, B, C, Frame
  <2>3. QED
    BY <2>1, <2>2 DEF Placed, Own
<1>9. QED
  BY <1>0, <1>2, <1>3, <1>4, <1>5, <1>6, <1>7, <1>8, Workers
     DEF WorkerStep, TryAcquirePermit, CheckAgentAvailability, LaunchAgents

\* What the consumer accepts it has in hand.
LEMMA HandleServed ==
  ASSUME PlaceInv, ServedInv, NEW m \in Submission, HandleNatsTask(m)
  PROVE  ServedInv'
<1>1. /\ C.pc = "idle" /\ C.item = {} /\ UNCHANGED <<pending, processing, releasing>>
      /\ worker \in [Worker -> Frame]
  BY DEF HandleNatsTask, At, C, PlaceInv, FramesOK, TypeInv
<1>2. seen' \subseteq seen \cup {m.task} /\ Own = {}
  BY <1>1 DEF HandleNatsTask, InsertSeen, Own
<1>3. CASE AlreadySeen(m.task)
  <2>1. worker' = worker /\ m.task \in seen
    BY <1>3 DEF HandleNatsTask, AlreadySeen
  <2>2. UNCHANGED Placed
    BY <1>1, <2>1 DEF Placed, Own, B, C
  <2>3. QED
    BY <1>1, <1>2, <2>1, <2>2 DEF ServedInv
<1>4. CASE ~AlreadySeen(m.task)
  <2>1. B' = B /\ C'.pc = "acquire" /\ C'.item = {m}
    BY <1>1, <1>4, Workers DEF HandleNatsTask, B, C, Frame
  <2>2. Placed' = Placed \cup {m}
    BY <1>1, <1>2, <2>1 DEF Placed, Own
  <2>3. QED
    BY <1>1, <1>2, <2>2 DEF ServedInv
<1>5. QED
  BY <1>3, <1>4

\* What is released leaves nothing behind that it does not free.
LEMMA ReleaseServed ==
  ASSUME ServedInv, NEW t \in TaskId, ReleaseProcessing(t) \/ FreeSeen(t)
  PROVE  ServedInv'
<1>1. CASE ReleaseProcessing(t)
  <2>1. /\ seen' = seen /\ releasing' = releasing \cup {t} /\ UNCHANGED <<pending, C, B, Own>>
        /\ processing' = processing \ EntriesOf(t)
    BY <1>1 DEF ReleaseProcessing, C, B, Own
  <2>2. \A k \in Placed : k.task # t => k \in Placed'
    BY <2>1 DEF Placed, EntriesOf
  <2>3. QED
    BY <2>1, <2>2 DEF ServedInv
<1>2. CASE FreeSeen(t)
  <2>1. seen' = seen \ {t} /\ releasing' = releasing \ {t} /\ UNCHANGED Placed
    BY <1>2 DEF FreeSeen, Placed, Own, C, B
  <2>2. QED
    BY <2>1 DEF ServedInv
<1>3. QED
  BY <1>1, <1>2

LEMMA ServedSteps ==
  ASSUME PlaceInv, ServedInv, Faultless, [Next]_vars
  PROVE  ServedInv'
<1>1. CASE UNCHANGED vars
  BY <1>1 DEF vars, ServedInv, Placed, Own, C, B
<1>2. ASSUME NEW t \in TaskId, Submit(t)
      PROVE  ServedInv'
  BY <1>2 DEF Submit, ServedInv, Placed, Own, C, B
<1>3. ASSUME NEW w \in Worker, WorkerStep(w)
      PROVE  ServedInv'
  <2>1. UNCHANGED <<seen, releasing>>
    BY <1>3 DEF WorkerStep, TryAcquirePermit, CheckAgentAvailability, LaunchAgents, LaunchFault,
       PushProcessing, QueueTask, SaveToDisk, SaveFault, Acknowledge, LateAcknowledge,
       DrainPending, PutBack, NextPending
  <2>2. Placed \subseteq Placed'
    BY <1>3, ConsumerLeavesPlaced, BackgroundLeavesPlaced, Workers DEF Faultless
  <2>3. QED
    BY <2>1, <2>2, ServedStays
<1>4. CASE Crash
  BY <1>4 DEF Crash, ServedInv
<1>5. \A t \in TaskId : ~ReleaseUnlaunched(t) /\ ~CancelTask(t)
  BY DEF Faultless, ReleaseUnlaunched, CancelTask
<1>6. QED
  BY <1>1, <1>2, <1>3, <1>4, <1>5, HandleServed, ReleaseServed DEF Next

\* What has just been dropped was found in the dedup set.
LEMMA DropsServed ==
  ASSUME PlaceInv, ServedInv, [Next]_vars, NEW m \in dropped' \ dropped
  PROVE  \/ m.task \in releasing
         \/ \E k \in Held \cup pending \cup processing : k.task = m.task
<1>1. HandleNatsTask(m)
  <2>1. \A k \in Submission : HandleNatsTask(k) => dropped' = dropped \/ k = m
    BY DEF HandleNatsTask
  <2>2. ~HandleNatsTask(m) => dropped' = dropped
    BY <2>1 DEF Next, vars, Submit, ReleaseProcessing, FreeSeen, ReleaseUnlaunched, CancelTask, Crash,
       WorkerStep, TryAcquirePermit, CheckAgentAvailability, LaunchAgents, LaunchFault,
       PushProcessing, QueueTask, SaveToDisk, SaveFault, Acknowledge, LateAcknowledge,
       DrainPending, PutBack, NextPending
  <2>3. QED
    BY <2>2
<1>2. m.task \in seen
  BY <1>1 DEF HandleNatsTask, AlreadySeen
<1>3. Placed \subseteq Held \cup pending \cup processing
  BY Workers DEF Placed, Own, Held, InHand, B, C
<1>4. QED
  BY <1>2, <1>3 DEF ServedInv

\* A submission is dropped as a duplicate only while another one of its task is
\* on its way, running or being released, where a task is released only after its
\* launch and no launch fails.
THEOREM DroppedIsServed ==
  ASSUME Faultless
  PROVE  Spec => DroppedOnlyIfServed
<1>1. Init => ServedInv
  BY DEF Init, ServedInv
<1>2. PlaceInv /\ ServedInv /\ [Next]_vars => ServedInv'
  BY ServedSteps
<1>3. PlaceInv /\ ServedInv /\ [Next]_vars
      => [\A m \in dropped' \ dropped :
            \/ launches[m.seq] > 0
            \/ m.task \in releasing
            \/ \E k \in Held \cup pending \cup processing : k.task = m.task]_vars
  BY DropsServed
<1>4. QED
  BY <1>1, <1>2, <1>3, Invariants, PTL DEF Spec, DroppedOnlyIfServed

=============================================================================
