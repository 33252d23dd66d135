-------------------------- MODULE Messaging_proofs --------------------------
(***************************************************************************)
(* Proofs about Messaging, for any requests, responses, limits and faults: *)
(* type correctness, that no queued message is lost, how often an agent is *)
(* handed a message, and which requests an answer can be taken for.        *)
(***************************************************************************)
EXTENDS Messaging, SequenceTheorems, WellFoundedInduction, TLAPS

-----------------------------------------------------------------------------
(***************************************************************************)
(* Without: what taking a message out of a sequence leaves.  It is defined *)
(* by recursion over the length of the sequence, so there is something to  *)
(* show before it can be used: that the recursion defines a function.      *)
(***************************************************************************)

\* A set of numbers that is not empty has a least one.
LEMMA NatMin ==
  ASSUME NEW T, T \subseteq Nat, T # {}
  PROVE  \E n \in T : \A k \in T : n <= k
<1>1. PICK n \in T : \A k \in T : ~ (<<k, n>> \in OpToRel(<, Nat))
  BY NatLessThanWellFounded, WFMin, Zenon
<1>2. \A k \in T : ~ (k < n)
  BY <1>1 DEF OpToRel
<1>3. QED
  BY <1>2

\* One step of Kept, for f in its place.
KeptStep(s, m, f, n) ==
  IF n = 0 THEN <<>> ELSE IF s[n] = m THEN f[n - 1] ELSE Append(f[n - 1], s[n])

\* The recursion has a solution, up to any length.
LEMMA KeptExists ==
  ASSUME NEW S, NEW s \in Seq(S), NEW m, NEW l \in Nat
  PROVE  \E f : f = [n \in 0..l |-> KeptStep(s, m, f, n)]
<1> DEFINE Def(n) == \E f : f = [i \in 0..n |-> KeptStep(s, m, f, i)]
<1> DEFINE Bad == {n \in Nat : ~ Def(n)}
<1>1. Def(0)
  <2> DEFINE f == [i \in 0..0 |-> <<>>]
  <2>1. f = [i \in 0..0 |-> KeptStep(s, m, f, i)]
    BY DEF KeptStep
  <2>2. QED
    BY <2>1
<1>2. ASSUME NEW n \in Nat, n # 0, Def(n - 1) PROVE Def(n)
  <2>1. PICK f : f = [i \in 0..(n - 1) |-> KeptStep(s, m, f, i)]
    BY <1>2
  <2> DEFINE g == [i \in 0..n |-> IF i = n THEN KeptStep(s, m, f, n) ELSE f[i]]
  <2> HIDE DEF g
  <2>2. ASSUME NEW i \in 0..n PROVE g[i] = KeptStep(s, m, g, i)
    <3>1. i # 0 => g[i - 1] = f[i - 1]
      BY DEF g
    <3>2. CASE i = n
      BY <3>1, <3>2 DEF g, KeptStep
    <3>3. CASE i # n
      <4>1. i \in 0..(n - 1)
        BY <3>3
      <4>2. g[i] = f[i]
        BY <3>3 DEF g
      <4>3. f[i] = KeptStep(s, m, f, i)
        BY <2>1, <4>1
      <4>4. QED
        BY <4>2, <4>3, <3>1 DEF KeptStep
    <3>4. QED
      BY <3>2, <3>3
  <2>3. g = [i \in 0..n |-> KeptStep(s, m, g, i)]
    BY <2>2 DEF g
  <2>4. QED
    BY <2>3
<1>3. Bad = {}
  <2> SUFFICES ASSUME Bad # {} PROVE FALSE
    OBVIOUS
  <2>1. PICK n \in Bad : \A k \in Bad : n <= k
    BY NatMin
  <2>2. n # 0
    BY <1>1
  <2>3. n - 1 \notin Bad /\ n - 1 \in Nat
    BY <2>1, <2>2
  <2>4. QED
    BY <1>2, <2>2, <2>3
<1>4. QED
  BY <1>3

\* Kept is that solution.
LEMMA KeptDef ==
  ASSUME NEW S, NEW s \in Seq(S), NEW m
  PROVE  Kept(s, m) = [n \in 0..Len(s) |-> KeptStep(s, m, Kept(s, m), n)]
<1>1. PICK f : f = [n \in 0..Len(s) |-> KeptStep(s, m, f, n)]
  BY KeptExists, LenProperties
<1>2. QED
  BY <1>1, Zenon DEF Kept, KeptStep

\* t is what s leaves when m is taken out, h says where in s each element was.
PickedBy(t, s, m, n, h) ==
  /\ h \in [1..Len(t) -> 1..n]
  /\ \A k \in 1..Len(t) : t[k] = s[h[k]] /\ s[h[k]] # m
  /\ \A k, l \in 1..Len(t) : h[k] = h[l] => k = l
  /\ \A i \in 1..n : s[i] # m => \E k \in 1..Len(t) : h[k] = i

Picked(S, t, s, m, n) ==
  /\ t \in Seq(S) /\ Len(t) <= n
  /\ \E h : PickedBy(t, s, m, n, h)

\* By induction over the length, put as the absence of a least exception.
LEMMA KeptPicked ==
  ASSUME NEW S, NEW s \in Seq(S), NEW m
  PROVE  \A n \in 0..Len(s) : Picked(S, Kept(s, m)[n], s, m, n)
<1> DEFINE K == Kept(s, m)
<1> HIDE DEF K
<1>1. K = [n \in 0..Len(s) |-> KeptStep(s, m, K, n)]
  BY KeptDef DEF K
<1>2. Len(s) \in Nat /\ \A i \in 1..Len(s) : s[i] \in S
  BY LenProperties, ElementOfSeq
<1>3. Picked(S, K[0], s, m, 0)
  <2>1. K[0] = <<>>
    BY <1>1, <1>2 DEF KeptStep
  <2>2. PickedBy(<<>>, s, m, 0, [k \in 1..0 |-> 0])
    BY DEF PickedBy
  <2>3. QED
    BY <2>1, <2>2 DEF Picked
<1>4. ASSUME NEW n \in 1..Len(s), Picked(S, K[n - 1], s, m, n - 1)
      PROVE  Picked(S, K[n], s, m, n)
  <2> DEFINE t == K[n - 1]
  <2>1. PICK h : PickedBy(t, s, m, n - 1, h)
    BY <1>4 DEF Picked
  <2>2. t \in Seq(S) /\ Len(t) <= n - 1 /\ Len(t) \in Nat
    BY <1>4 DEF Picked
  <2>3. K[n] = IF s[n] = m THEN t ELSE Append(t, s[n])
    <3>1. K[n] = KeptStep(s, m, K, n)
      BY <1>1, <1>2
    <3>2. QED
      BY <3>1 DEF KeptStep
  <2> HIDE DEF t
  <2>4. CASE s[n] = m
    <3>1. PickedBy(t, s, m, n, h)
      BY <1>2, <2>1, <2>2, <2>4 DEF PickedBy
    <3>2. QED
      BY <2>2, <2>3, <2>4, <3>1 DEF Picked
  <2>5. CASE s[n] # m
    <3> DEFINE u == Append(t, s[n])
               g == [k \in 1..(Len(t) + 1) |-> IF k = Len(t) + 1 THEN n ELSE h[k]]
    <3>1. /\ u \in Seq(S) /\ Len(u) = Len(t) + 1 /\ u[Len(t) + 1] = s[n]
          /\ \A k \in 1..Len(t) : u[k] = t[k]
      BY <1>2, <2>2, AppendProperties
    <3> HIDE DEF u
    <3>2. g \in [1..Len(u) -> 1..n]
      BY <2>1, <2>2, <3>1 DEF PickedBy
    <3>3. \A k \in 1..Len(u) : u[k] = s[g[k]] /\ s[g[k]] # m
      BY <2>1, <2>2, <2>5, <3>1 DEF PickedBy
    <3>4. \A k, l \in 1..Len(u) : g[k] = g[l] => k = l
      <4>1. \A k \in 1..Len(t) : h[k] \in 1..(n - 1) /\ g[k] = h[k]
        BY <2>1, <2>2 DEF PickedBy
      <4>2. g[Len(t) + 1] = n
        BY <2>2
      <4>3. \A k \in 1..Len(u) : k = Len(t) + 1 \/ k \in 1..Len(t)
        BY <2>2, <3>1
      <4> HIDE DEF g
      <4>4. QED
        BY <2>1, <2>2, <4>1, <4>2, <4>3 DEF PickedBy
    <3>5. ASSUME NEW i \in 1..n, s[i] # m PROVE \E k \in 1..Len(u) : g[k] = i
      <4>1. CASE i = n
        BY <2>2, <3>1, <4>1
      <4>2. CASE i # n
        <5>1. PICK k \in 1..Len(t) : h[k] = i
          BY <2>1, <3>5, <4>2 DEF PickedBy
        <5>2. k \in 1..Len(u) /\ g[k] = i
          BY <2>2, <3>1, <5>1
        <5>3. QED
          BY <5>2
      <4>3. QED
        BY <4>1, <4>2
    <3> HIDE DEF g
    <3>6. PickedBy(u, s, m, n, g)
      BY <3>2, <3>3, <3>4, <3>5 DEF PickedBy
    <3>7. QED
      BY <2>2, <2>3, <2>5, <3>1, <3>6 DEF Picked, u
  <2>6. QED
    BY <2>4, <2>5
<1> DEFINE Bad == {n \in 0..Len(s) : ~ Picked(S, K[n], s, m, n)}
<1>5. Bad = {}
  <2> SUFFICES ASSUME Bad # {} PROVE FALSE
    OBVIOUS
  <2>1. PICK n \in Bad : \A k \in Bad : n <= k
    <3>1. Bad \subseteq Nat
      BY <1>2
    <3> HIDE DEF Bad
    <3>2. QED
      BY <3>1, NatMin
  <2>2. n # 0
    BY <1>3
  <2>3. n - 1 \notin Bad /\ n - 1 \in 0..Len(s)
    BY <1>2, <2>1, <2>2
  <2>4. QED
    BY <1>4, <2>2, <2>3
<1>6. QED
  BY <1>5 DEF K

\* Exactly the entries for m are gone, and none of the others comes twice that did
\* not before.
LEMMA WithoutProperties ==
  ASSUME NEW S, NEW s \in Seq(S), NEW m
  PROVE  /\ Without(s, m) \in Seq(S)
         /\ Len(Without(s, m)) <= Len(s)
         /\ \A k \in 1..Len(Without(s, m)) : Without(s, m)[k] # m
         /\ \A x : Contains(Without(s, m), x) <=> x # m /\ Contains(s, x)
         /\ IsInjective(s) => IsInjective(Without(s, m))
<1> DEFINE t == Without(s, m)
<1>1. Picked(S, t, s, m, Len(s))
  BY KeptPicked, LenProperties DEF Without
<1> HIDE DEF t
<1>2. PICK h : PickedBy(t, s, m, Len(s), h)
  BY <1>1 DEF Picked
<1>3. t \in Seq(S) /\ Len(t) <= Len(s)
  BY <1>1 DEF Picked
<1>4. \A k \in 1..Len(t) : t[k] # m
  BY <1>2 DEF PickedBy
<1>5. ASSUME NEW x PROVE Contains(t, x) <=> x # m /\ Contains(s, x)
  <2>1. ASSUME Contains(t, x) PROVE x # m /\ Contains(s, x)
    <3>1. PICK k \in 1..Len(t) : t[k] = x
      BY <2>1 DEF Contains
    <3>2. h[k] \in 1..Len(s) /\ s[h[k]] = x /\ x # m
      BY <1>2, <3>1 DEF PickedBy
    <3>3. QED
      BY <3>2 DEF Contains
  <2>2. ASSUME x # m, Contains(s, x) PROVE Contains(t, x)
    <3>1. PICK i \in 1..Len(s) : s[i] = x
      BY <2>2 DEF Contains
    <3>2. PICK k \in 1..Len(t) : h[k] = i
      BY <1>2, <2>2, <3>1 DEF PickedBy
    <3>3. t[k] = x
      BY <1>2, <3>1, <3>2 DEF PickedBy
    <3>4. QED
      BY <3>3 DEF Contains
  <2>3. QED
    BY <2>1, <2>2
<1>6. ASSUME IsInjective(s), NEW k \in DOMAIN t, NEW l \in DOMAIN t, t[k] = t[l]
      PROVE  k = l
  <2>1. DOMAIN s = 1..Len(s) /\ DOMAIN t = 1..Len(t)
    BY <1>3, LenProperties
  <2>2. h[k] \in DOMAIN s /\ h[l] \in DOMAIN s /\ s[h[k]] = s[h[l]]
    BY <1>2, <1>6, <2>1 DEF PickedBy
  <2>3. h[k] = h[l]
    BY <1>6, <2>2 DEF IsInjective
  <2>4. QED
    BY <1>2, <2>1, <2>3 DEF PickedBy
<1>7. QED
  BY <1>3, <1>4, <1>5, <1>6 DEF t, IsInjective
-----------------------------------------------------------------------------
(***************************************************************************)
(* The other operations on the queues.                                     *)
(***************************************************************************)

LEMMA AppendContains ==
  ASSUME NEW S, NEW s \in Seq(S), NEW e \in S
  PROVE  /\ Append(s, e) \in Seq(S) /\ Len(Append(s, e)) = Len(s) + 1
         /\ \A x : Contains(Append(s, e), x) <=> x = e \/ Contains(s, x)
         /\ IsInjective(s) /\ ~ Contains(s, e) => IsInjective(Append(s, e))
<1> DEFINE t == Append(s, e)
<1>1. /\ t \in Seq(S) /\ Len(t) = Len(s) + 1 /\ Len(s) \in Nat
      /\ t[Len(s) + 1] = e
      /\ \A i \in 1..Len(s) : t[i] = s[i]
      /\ DOMAIN t = 1..Len(t) /\ DOMAIN s = 1..Len(s)
  BY AppendProperties, LenProperties
<1> HIDE DEF t
<1>2. ASSUME NEW x, Contains(t, x) PROVE x = e \/ Contains(s, x)
  <2>1. PICK i \in 1..Len(t) : t[i] = x
    BY <1>2 DEF Contains
  <2>2. i \in 1..Len(s) \/ i = Len(s) + 1
    BY <1>1
  <2>3. QED
    BY <1>1, <2>1, <2>2 DEF Contains
<1>3. Contains(t, e)
  BY <1>1 DEF Contains
<1>4. ASSUME NEW x, Contains(s, x) PROVE Contains(t, x)
  <2>1. PICK i \in 1..Len(s) : s[i] = x
    BY <1>4 DEF Contains
  <2>2. i \in 1..Len(t) /\ t[i] = x
    BY <1>1, <2>1
  <2>3. QED
    BY <2>2 DEF Contains
<1>5. ASSUME IsInjective(s), ~ Contains(s, e), NEW i \in 1..Len(t), NEW j \in 1..Len(t),
             t[i] = t[j]
      PROVE  i = j
  <2>1. \A k \in 1..Len(s) : s[k] # e
    BY <1>5 DEF Contains
  <2>2. /\ i \in 1..Len(s) \/ i = Len(s) + 1
        /\ j \in 1..Len(s) \/ j = Len(s) + 1
    BY <1>1
  <2>3. QED
    BY <1>1, <1>5, <2>1, <2>2 DEF IsInjective
<1>6. QED
  BY <1>1, <1>2, <1>3, <1>4, <1>5 DEF t, IsInjective

LEMMA TailContains ==
  ASSUME NEW S, NEW s \in Seq(S), s # <<>>
  PROVE  /\ Tail(s) \in Seq(S) /\ Len(Tail(s)) = Len(s) - 1
         /\ Head(s) \in S /\ Contains(s, Head(s))
         /\ \A x : Contains(Tail(s), x) => Contains(s, x)
         /\ IsInjective(s) => IsInjective(Tail(s))
<1> DEFINE t == Tail(s)
<1>1. /\ t \in Seq(S) /\ Len(t) = Len(s) - 1 /\ Len(s) \in Nat /\ Len(s) > 0
      /\ Head(s) \in S /\ Head(s) = s[1]
      /\ \A i \in 1..Len(t) : t[i] = s[i + 1]
      /\ DOMAIN t = 1..Len(t) /\ DOMAIN s = 1..Len(s)
  BY HeadTailProperties, LenProperties, EmptySeq
<1> HIDE DEF t
<1>2. Contains(s, Head(s))
  BY <1>1 DEF Contains
<1>3. ASSUME NEW x, Contains(t, x) PROVE Contains(s, x)
  <2>1. PICK i \in 1..Len(t) : t[i] = x
    BY <1>3 DEF Contains
  <2>2. i + 1 \in 1..Len(s) /\ s[i + 1] = x
    BY <1>1, <2>1
  <2>3. QED
    BY <2>2 DEF Contains
<1>4. ASSUME IsInjective(s), NEW i \in 1..Len(t), NEW j \in 1..Len(t), t[i] = t[j]
      PROVE  i = j
  <2>1. i + 1 \in DOMAIN s /\ j + 1 \in DOMAIN s /\ s[i + 1] = s[j + 1]
    BY <1>1, <1>4
  <2>2. i + 1 = j + 1
    BY <1>4, <2>1 DEF IsInjective
  <2>3. QED
    BY <1>1, <2>2
<1>5. QED
  BY <1>1, <1>2, <1>3, <1>4 DEF t, IsInjective

\* The bound is kept, and nothing is recorded but what was and the new request.
LEMMA RecordedProperties ==
  ASSUME NEW s \in Seq(Request), NEW q \in Request, Len(s) <= MaxPending
  PROVE  /\ Recorded(s, q) \in Seq(Request) /\ Len(Recorded(s, q)) <= MaxPending
         /\ \A x : Contains(Recorded(s, q), x) => x = q \/ Contains(s, x)
         /\ IsInjective(s) /\ ~ Contains(s, q) => IsInjective(Recorded(s, q))
<1> DEFINE u == IF Len(s) >= MaxPending THEN Tail(s) ELSE s
<1>1. MaxPending \in Nat \ {0} /\ Len(s) \in Nat
  BY MessagingAssumption, LenProperties
<1>2. /\ u \in Seq(Request) /\ Len(u) < MaxPending
      /\ \A x : Contains(u, x) => Contains(s, x)
      /\ IsInjective(s) => IsInjective(u)
  <2>1. CASE Len(s) >= MaxPending
    <3>1. s # <<>>
      BY <1>1, <2>1, EmptySeq
    <3>2. QED
      BY <1>1, <2>1, <3>1, TailContains
  <2>2. CASE Len(s) < MaxPending
    BY <1>1, <2>2
  <2>3. QED
    BY <1>1, <2>1, <2>2
<1>3. Recorded(s, q) = Append(u, q)
  BY DEF Recorded
<1> HIDE DEF u
<1>4. Len(u) \in Nat
  BY <1>2, LenProperties
<1>5. QED
  BY <1>1, <1>2, <1>3, <1>4, AppendContains

-----------------------------------------------------------------------------
(***************************************************************************)
(* Type correctness.  That no request is retried more often than           *)
(* MAX_RETRY_ATTEMPTS needs to be known of the monitor between the look at *)
(* the count and the publication that may add to it.                       *)
(***************************************************************************)
MonitorInv ==
  monitor.pc = "publish" => /\ monitor.now \in Request
                            /\ retries[monitor.now] < MaxRetry

TypeInv == TypeOK /\ MonitorInv

Monitors == [pc : {"sleep", "look", "publish"}, todo : SUBSET Request,
             done : SUBSET Request, now : Request \cup {NoMessage}]

Events == [receipts : Nat, timeouts : Nat]

LEMMA ConstantsAreNat ==
  /\ MaxDeliver \in Nat \ {0} /\ MaxPending \in Nat \ {0} /\ MaxRetry \in Nat \ {0}
  /\ MaxFaults \in Nat /\ MaxLosses \in Nat
BY MessagingAssumption

LEMMA FaultType ==
  ASSUME TypeOK, Fault \/ NoFault
  PROVE  faults' \in 0..MaxFaults
BY ConstantsAreNat DEF TypeOK, Fault, NoFault

LEMMA TypeInit == Init => TypeInv
<1> SUFFICES ASSUME Init PROVE TypeInv
  OBVIOUS
<1>1. /\ stream \in Seq(Message) /\ buffer \in Seq(Message)
      /\ pending \in Seq(Request) /\ Len(pending) = 0
  BY EmptySeq DEF Init
<1>2. QED
  BY <1>1, ConstantsAreNat DEF Init, TypeInv, TypeOK, MonitorInv

LEMMA MarkDeliveredType ==
  ASSUME TypeInv, NEW m \in Message, MarkDelivered(m)
  PROVE  /\ tracked' \subseteq Request /\ retries' \in [Request -> 0..MaxRetry]
         /\ monitor' = monitor
         /\ MonitorInv'
<1>1. CASE m \in Request \/ about[m] = NoMessage
  BY <1>1 DEF MarkDelivered, monitorVars, TypeInv, TypeOK, MonitorInv
<1>2. CASE ~ (m \in Request \/ about[m] = NoMessage)
  <2>1. about[m] \in Request
    BY <1>2 DEF TypeInv, TypeOK, Message
  <2>2. MarkResponded(about[m])
    BY <1>2 DEF MarkDelivered
  <2>3. QED
    BY <2>1, <2>2, ConstantsAreNat DEF MarkResponded, TypeInv, TypeOK, MonitorInv
<1>3. QED
  BY <1>1, <1>2

LEMMA SenderType ==
  ASSUME TypeInv, NEW m \in Message,
         \/ m \in Request /\ PrepareRequest(m)
         \/ m \in Response /\ PrepareResponse(m)
         \/ Publish(m) \/ Queued(m) \/ Delivered(m) \/ Rejected(m)
  PROVE  TypeInv'
<1>1. CASE m \in Request /\ PrepareRequest(m)
  BY <1>1 DEF TypeInv, TypeOK, MonitorInv, PrepareRequest, At, GoTo, Track, streamVars,
              consumerVars, boundVars
<1>2. CASE m \in Response /\ PrepareResponse(m)
  <2>1. /\ pending' \in Seq(Request) /\ Len(pending') <= MaxPending
        /\ pending # <<>> => Head(pending) \in Request
    <3>1. CASE pending = <<>>
      BY <1>2, <3>1 DEF PrepareResponse, TypeInv, TypeOK
    <3>2. CASE pending # <<>>
      <4>1. pending \in Seq(Request) /\ Len(pending) <= MaxPending /\ Len(pending) \in Nat
        BY LenProperties DEF TypeInv, TypeOK
      <4>2. QED
        BY <1>2, <3>2, <4>1, TailContains, ConstantsAreNat DEF PrepareResponse
    <3>3. QED
      BY <3>1, <3>2
  <2>2. QED
    BY <1>2, <2>1 DEF TypeInv, TypeOK, MonitorInv, PrepareResponse, At, GoTo, streamVars,
                      consumerVars, monitorVars, boundVars
<1>3. CASE Publish(m)
  <2>1. stream' \in Seq(Message)
    BY <1>3, AppendContains DEF Publish, TypeInv, TypeOK
  <2>2. faults' \in 0..MaxFaults
    BY <1>3, FaultType DEF Publish, TypeInv
  <2>3. /\ send' \in [Message -> {"idle", "publish", "stored", "direct", "queued",
                                  "delivered", "rejected", "lost"}]
        /\ handed' \subseteq Message
    BY <1>3 DEF Publish, GoTo, TypeInv, TypeOK
  <2>4. QED
    BY <1>3, <2>1, <2>2, <2>3 DEF TypeInv, TypeOK, MonitorInv, Publish, monitorVars
<1>4. CASE Queued(m) \/ Delivered(m)
  BY <1>4, MarkDeliveredType
     DEF TypeInv, TypeOK, MonitorInv, Queued, Delivered, GoTo, streamVars, consumerVars,
         boundVars
<1>5. CASE Rejected(m)
  BY <1>5, FaultType DEF TypeInv, TypeOK, MonitorInv, Rejected, GoTo, streamVars,
                         consumerVars, monitorVars
<1>6. QED
  BY <1>1, <1>2, <1>3, <1>4, <1>5

LEMMA AcknowledgeType ==
  ASSUME TypeInv, NEW m, Acknowledge(m)
  PROVE  /\ stream' \in Seq(Message) /\ faults' \in 0..MaxFaults
         /\ \A x : x # m => (Contains(stream', x) <=> Contains(stream, x))
         /\ \A x : Contains(stream', x) => Contains(stream, x)
<1>1. stream \in Seq(Message)
  BY DEF TypeInv, TypeOK
<1>2. faults' \in 0..MaxFaults
  BY FaultType DEF Acknowledge, TypeInv
<1>3. QED
  BY <1>1, <1>2, WithoutProperties DEF Acknowledge

LEMMA NoteDeliveryType ==
  ASSUME TypeInv, NEW m \in Message, NoteDelivery(m)
  PROVE  /\ pending' \in Seq(Request) /\ Len(pending') <= MaxPending
         /\ processed' \subseteq Message
BY RecordedProperties DEF NoteDelivery, TypeInv, TypeOK

LEMMA ForgetDeliveryType ==
  ASSUME TypeInv, NEW m \in Message, ForgetDelivery(m)
  PROVE  /\ pending' \in Seq(Request) /\ Len(pending') <= MaxPending
         /\ processed' \subseteq Message
<1>1. pending \in Seq(Request) /\ Len(pending) <= MaxPending /\ Len(pending) \in Nat
  BY LenProperties DEF TypeInv, TypeOK
<1>2. /\ Without(pending, m) \in Seq(Request) /\ Len(Without(pending, m)) \in Nat
      /\ Len(Without(pending, m)) <= Len(pending)
  BY <1>1, WithoutProperties, LenProperties
<1>3. QED
  BY <1>1, <1>2, ConstantsAreNat DEF ForgetDelivery, TypeInv, TypeOK

LEMMA ConsumerType ==
  ASSUME TypeInv, NEW m \in Message,
         \/ Deliver(m) \/ SkipDuplicate(m) \/ Discard(m) \/ Take(m) \/ TurnEnds(m)
         \/ Ack(m) \/ Receipt(m) \/ TurnFails(m)
  PROVE  TypeInv'
<1>1. CASE Deliver(m)
  <2>1. buffer' \in Seq(Message)
    BY <1>1, AppendContains DEF Deliver, TypeInv, TypeOK
  <2>2. attempts' \in [Message -> 0..MaxDeliver]
    <3>1. /\ attempts \in [Message -> 0..MaxDeliver] /\ attempts[m] < MaxDeliver
          /\ attempts' = [attempts EXCEPT ![m] = @ + 1]
      BY <1>1 DEF Deliver, Deliverable, TypeInv, TypeOK
    <3>2. QED
      BY <3>1, ConstantsAreNat
  <2>3. QED
    BY <1>1, <2>1, <2>2 DEF TypeInv, TypeOK, MonitorInv, Deliver, senderVars, monitorVars,
                            boundVars
<1>2. CASE SkipDuplicate(m)
  <2>1. buffer' \in Seq(Message)
    BY <1>2, TailContains DEF SkipDuplicate, TypeInv, TypeOK
  <2>2. stream' \in Seq(Message) /\ faults' \in 0..MaxFaults
    BY <1>2, AcknowledgeType DEF SkipDuplicate
  <2>3. QED
    BY <1>2, <2>1, <2>2 DEF TypeInv, TypeOK, MonitorInv, SkipDuplicate, senderVars,
                            monitorVars
<1>3. CASE Discard(m)
  <2>1. buffer' \in Seq(Message)
    BY <1>3, TailContains DEF Discard, TypeInv, TypeOK
  <2>2. stream' \in Seq(Message) /\ faults' \in 0..MaxFaults
    BY <1>3, AcknowledgeType DEF Discard
  <2>3. QED
    BY <1>3, <2>1, <2>2, NoteDeliveryType
       DEF TypeInv, TypeOK, MonitorInv, Discard, senderVars, monitorVars
<1>4. CASE Take(m)
  <2>1. buffer' \in Seq(Message)
    BY <1>4, TailContains DEF Take, TypeInv, TypeOK
  <2>2. QED
    BY <1>4, <2>1, NoteDeliveryType
       DEF TypeInv, TypeOK, MonitorInv, Take, streamVars, senderVars, monitorVars, boundVars
<1>5. CASE TurnEnds(m)
  <2>1. turns' \in [Message -> Nat]
    BY <1>5 DEF TypeInv, TypeOK, TurnEnds
  <2>2. consumer' \in [pc : {"idle", "turn", "ack", "receipt"}, msg : Message \cup {NoMessage}]
    BY <1>5 DEF TurnEnds
  <2>3. UNCHANGED <<buffer, processed, handed, streamVars, senderVars, pending, monitorVars,
                    boundVars>>
    BY <1>5 DEF TurnEnds
  <2>4. QED
    BY <2>1, <2>2, <2>3
       DEF TypeInv, TypeOK, MonitorInv, streamVars, senderVars, monitorVars, boundVars
<1>6. CASE Ack(m)
  BY <1>6, AcknowledgeType
     DEF TypeInv, TypeOK, MonitorInv, Ack, Idle, senderVars, monitorVars
<1>7. CASE Receipt(m)
  <2>1. events \in [Request -> Events]
    BY DEF TypeInv, TypeOK, Events
  <2>2. events' \in [Request -> [receipts : Nat, timeouts : Nat]]
    BY <1>7, <2>1 DEF Receipt, Events
  <2>3. faults' \in 0..MaxFaults
    BY <1>7, FaultType DEF Receipt, TypeInv
  <2>4. QED
    BY <1>7, <2>2, <2>3 DEF TypeInv, TypeOK, MonitorInv, Receipt, Idle, senderVars,
                            monitorVars
<1>8. CASE TurnFails(m)
  BY <1>8, ForgetDeliveryType, FaultType
     DEF TypeInv, TypeOK, MonitorInv, TurnFails, Idle, streamVars, senderVars, monitorVars
<1>9. QED
  BY <1>1, <1>2, <1>3, <1>4, <1>5, <1>6, <1>7, <1>8

LEMMA ForgetType ==
  ASSUME TypeInv, NEW Old \in SUBSET processed, Forget(Old)
  PROVE  TypeInv'
<1>1. faults' \in 0..MaxFaults /\ losses' \in 0..MaxLosses
  <2>1. faults \in 0..MaxFaults /\ losses \in 0..MaxLosses
    BY DEF TypeInv, TypeOK
  <2>2. CASE \E m \in Old : Contains(stream, m) \/ Contains(buffer, m)
    BY <2>1, <2>2, ConstantsAreNat DEF Forget, Fault
  <2>3. CASE ~ (\E m \in Old : Contains(stream, m) \/ Contains(buffer, m))
    BY <2>1, <2>3 DEF Forget, boundVars
  <2>4. QED
    BY <2>2, <2>3
<1>2. QED
  BY <1>1 DEF TypeInv, TypeOK, MonitorInv, Forget, streamVars, senderVars, monitorVars

LEMMA MonitorType ==
  ASSUME TypeInv,
         \/ \E Due \in SUBSET Watched : CheckTimeouts(Due)
         \/ \E q \in Request : Look(q) \/ PublishTimeout(q)
         \/ RemoveTimeouts
  PROVE  TypeInv'
<1>1. ASSUME NEW Due \in SUBSET Watched, CheckTimeouts(Due) PROVE TypeInv'
  BY <1>1 DEF TypeInv, TypeOK, MonitorInv, CheckTimeouts, Watched, streamVars, consumerVars,
              senderVars, boundVars
<1>2. ASSUME NEW q \in Request, Look(q) PROVE TypeInv'
  <2> DEFINE rest == monitor.todo \ {q}
  <2>1. /\ monitor \in Monitors /\ monitor.pc = "look" /\ rest \subseteq Request
        /\ retries \in [Request -> 0..MaxRetry]
    BY <1>2 DEF TypeInv, TypeOK, Monitors, Look
  <2> HIDE DEF rest
  <2>2. /\ monitor' \in Monitors
        /\ monitor'.pc = "publish" => monitor'.now = q /\ ~ TriedEnough(q)
    <3>1. CASE q \notin tracked
      <4>1. monitor' = [monitor EXCEPT !.todo = rest]
        BY <1>2, <3>1 DEF Look, rest
      <4>2. QED
        BY <2>1, <4>1 DEF Monitors
    <3>2. CASE q \in tracked /\ TriedEnough(q)
      <4>1. monitor' = [monitor EXCEPT !.todo = rest, !.done = @ \cup {q}]
        BY <1>2, <3>2 DEF Look, rest
      <4>2. QED
        BY <2>1, <4>1 DEF Monitors
    <3>3. CASE q \in tracked /\ ~ TriedEnough(q)
      <4>1. monitor' = [monitor EXCEPT !.pc = "publish", !.todo = rest, !.now = q]
        BY <1>2, <3>3 DEF Look, rest
      <4>2. QED
        BY <2>1, <3>3, <4>1 DEF Monitors
    <3>4. QED
      BY <3>1, <3>2, <3>3
  <2>3. retries' = retries
    BY <1>2 DEF Look
  <2>4. MonitorInv'
    BY <2>1, <2>2, <2>3, ConstantsAreNat DEF MonitorInv, TriedEnough
  <2>5. QED
    BY <1>2, <2>2, <2>4 DEF TypeInv, TypeOK, Monitors, Look, streamVars, consumerVars,
                            senderVars, boundVars
<1>3. ASSUME NEW q \in Request, PublishTimeout(q) PROVE TypeInv'
  <2>1. /\ monitor \in Monitors /\ events \in [Request -> Events]
        /\ retries \in [Request -> 0..MaxRetry] /\ retries[q] < MaxRetry
    BY <1>3 DEF TypeInv, TypeOK, MonitorInv, Monitors, Events, PublishTimeout
  <2>2. PICK stored \in BOOLEAN, told \in BOOLEAN :
          /\ events' = IF stored THEN [events EXCEPT ![q].timeouts = @ + 1] ELSE events
          /\ IF told THEN NoFault ELSE Fault
          /\ retries' = IF told THEN retries ELSE [retries EXCEPT ![q] = @ + 1]
          /\ monitor' = [monitor EXCEPT !.pc = "look", !.now = NoMessage,
                                        !.done = IF told THEN @ \cup {q} ELSE @]
    BY <1>3 DEF PublishTimeout
  <2>3. retries' \in [Request -> 0..MaxRetry]
    BY <2>1, <2>2, ConstantsAreNat
  <2>4. events' \in [Request -> Events]
    BY <2>1, <2>2 DEF Events
  <2>5. faults' \in 0..MaxFaults
    BY <2>2, FaultType DEF TypeInv
  <2>6. monitor' \in Monitors /\ monitor'.pc = "look"
    <3>1. CASE told
      BY <2>1, <2>2, <3>1 DEF Monitors
    <3>2. CASE ~ told
      BY <2>1, <2>2, <3>2 DEF Monitors
    <3>3. QED
      BY <3>1, <3>2
  <2>7. QED
    BY <1>3, <2>3, <2>4, <2>5, <2>6
       DEF TypeInv, TypeOK, MonitorInv, Monitors, Events, PublishTimeout, consumerVars,
           senderVars
<1>4. ASSUME RemoveTimeouts PROVE TypeInv'
  <2>1. monitor \in Monitors /\ retries \in [Request -> 0..MaxRetry]
    BY DEF TypeInv, TypeOK, Monitors
  <2>2. monitor' \in Monitors /\ monitor'.pc = "sleep"
    BY <1>4, <2>1 DEF RemoveTimeouts, Monitors
  <2>3. retries' \in [Request -> 0..MaxRetry]
    BY <1>4, <2>1, ConstantsAreNat DEF RemoveTimeouts
  <2>4. QED
    BY <1>4, <2>2, <2>3
       DEF TypeInv, TypeOK, MonitorInv, Monitors, RemoveTimeouts, streamVars, consumerVars,
           senderVars, boundVars
<1>5. QED
  BY <1>1, <1>2, <1>3, <1>4

LEMMA CrashType ==
  ASSUME TypeInv, Crash
  PROVE  TypeInv'
<1>1. /\ pending' \in Seq(Request) /\ Len(pending') <= MaxPending
      /\ buffer' \in Seq(Message)
  BY ConstantsAreNat, EmptySeq DEF Crash
<1>2. faults' \in 0..MaxFaults /\ losses' \in 0..MaxLosses
  BY ConstantsAreNat DEF Crash, Fault, TypeInv, TypeOK
<1>3. monitor' \in Monitors /\ monitor'.pc = "sleep"
  BY DEF Crash, Monitors
<1>4. /\ send' \in [Message -> {"idle", "publish", "stored", "direct", "queued",
                                "delivered", "rejected", "lost"}]
      /\ retries' \in [Request -> 0..MaxRetry]
  BY ConstantsAreNat DEF Crash, TypeInv, TypeOK
<1>5. QED
  BY <1>1, <1>2, <1>3, <1>4 DEF Crash, Idle, Monitors, streamVars, TypeInv, TypeOK, MonitorInv

LEMMA TypeNext == TypeInv /\ [Next]_vars => TypeInv'
<1> SUFFICES ASSUME TypeInv, [Next]_vars PROVE TypeInv'
  OBVIOUS
<1>1. CASE UNCHANGED vars
  BY <1>1 DEF vars, senderVars, streamVars, consumerVars, monitorVars, boundVars, TypeInv,
              TypeOK, MonitorInv
<1>2. CASE Next
  BY <1>2, SenderType, ConsumerType, ForgetType, MonitorType, CrashType DEF Next, Message
<1>3. QED
  BY <1>1, <1>2

LEMMA TypeInvariant == Spec => []TypeInv
BY TypeInit, TypeNext, PTL DEF Spec

\* Every variable keeps its type: in particular no more requests are recorded for
\* an agent than MAX_PENDING_PER_AGENT, and no request is retried more often than
\* MAX_RETRY_ATTEMPTS.
THEOREM TypeCorrect == Spec => []TypeOK
BY TypeInvariant, PTL DEF TypeInv

-----------------------------------------------------------------------------
(***************************************************************************)
(* The steps that move no message: of the sender, but for the publication, *)
(* and of the monitor.  Only an answer takes a record with it.             *)
(***************************************************************************)
Unsent(m) == send[m] \in {"idle", "publish"}

Unmoved ==
  /\ UNCHANGED <<stream, buffer, consumer, processed, turns, losses>>
  /\ pending' = pending \/ (pending # <<>> /\ pending' = Tail(pending))
  /\ \A m \in Message :
       /\ Unsent(m)' => Unsent(m)
       /\ send'[m] \in {"stored", "queued"} => send[m] \in {"stored", "queued"}

Moved(m) ==
  \/ Publish(m) \/ Deliver(m) \/ SkipDuplicate(m) \/ Discard(m) \/ Take(m) \/ TurnEnds(m)
  \/ Ack(m) \/ Receipt(m) \/ TurnFails(m)

LEMMA GoToStep ==
  ASSUME TypeInv, NEW m \in Message, NEW pc, GoTo(m, pc)
  PROVE  \A x \in Message : send'[x] = IF x = m THEN pc ELSE send[x]
BY DEF TypeInv, TypeOK, GoTo

LEMMA NextStep ==
  ASSUME TypeInv, [Next]_vars
  PROVE  \/ Unmoved
         \/ \E m \in Message : Moved(m)
         \/ \E Old \in SUBSET processed : Forget(Old)
         \/ Crash
<1>1. ASSUME NEW q \in Request, PrepareRequest(q) PROVE Unmoved
  <2>1. q \in Message
    BY DEF Message
  <2>2. \A x \in Message : send'[x] = IF x = q THEN "publish" ELSE send[x]
    BY <1>1, <2>1, GoToStep DEF PrepareRequest
  <2>3. QED
    BY <1>1, <2>2 DEF PrepareRequest, At, Unmoved, Unsent, streamVars, consumerVars, boundVars
<1>2. ASSUME NEW r \in Response, PrepareResponse(r) PROVE Unmoved
  <2>1. r \in Message
    BY DEF Message
  <2>2. \A x \in Message : send'[x] = IF x = r THEN "publish" ELSE send[x]
    BY <1>2, <2>1, GoToStep DEF PrepareResponse
  <2>3. pending' = pending \/ (pending # <<>> /\ pending' = Tail(pending))
    BY <1>2 DEF PrepareResponse
  <2>4. QED
    BY <1>2, <2>2, <2>3 DEF PrepareResponse, At, Unmoved, Unsent, streamVars, consumerVars,
                            boundVars
<1>3. ASSUME NEW m \in Message, Queued(m) \/ Delivered(m) \/ Rejected(m) PROVE Unmoved
  <2>1. /\ send[m] = "stored" \/ send[m] = "direct"
        /\ \A x \in Message : x # m => send'[x] = send[x]
        /\ (send'[m] = "queued" /\ send[m] = "stored") \/ send'[m] \in {"delivered", "rejected"}
    BY <1>3, GoToStep DEF Queued, Delivered, Rejected, At
  <2>2. QED
    BY <1>3, <2>1 DEF Queued, Delivered, Rejected, Unmoved, Unsent, streamVars,
                      consumerVars, boundVars
<1>4. ASSUME \/ \E Due \in SUBSET Watched : CheckTimeouts(Due)
             \/ \E q \in Request : Look(q) \/ PublishTimeout(q)
             \/ RemoveTimeouts
      PROVE  Unmoved
  BY <1>4 DEF CheckTimeouts, Look, PublishTimeout, RemoveTimeouts, Unmoved, Unsent,
              streamVars, consumerVars, senderVars, boundVars
<1>5. CASE UNCHANGED vars
  BY <1>5 DEF vars, Unmoved, Unsent, streamVars, consumerVars, senderVars, boundVars
<1>6. QED
  BY <1>1, <1>2, <1>3, <1>4, <1>5 DEF Next, Moved

-----------------------------------------------------------------------------
(***************************************************************************)
(* Where a message can be: a message that is in the stream, in the buffer  *)
(* or marked was published.  So each message comes into the stream from    *)
(* one publication, however often it is delivered from there.              *)
(***************************************************************************)
Coming(m) == Contains(stream, m) \/ Contains(buffer, m)

SentOf(m) == Coming(m) \/ m \in processed => ~ Unsent(m)

SentInv == \A m \in Message : SentOf(m)

LEMMA NothingInNothing == \A x : ~ Contains(<<>>, x)
BY DEF Contains

\* What a step does to where a message can be.
FlowOf(x) ==
  /\ Unsent(x)' => Unsent(x)
  /\ Contains(stream', x) => Contains(stream, x) \/ (Unsent(x) /\ ~ Unsent(x)')
  /\ Contains(buffer', x) => Contains(buffer, x) \/ Contains(stream, x)
  /\ x \in processed' => x \in processed \/ Contains(buffer, x)

LEMMA FlowNext ==
  ASSUME TypeInv, [Next]_vars
  PROVE  \A x \in Message : FlowOf(x)
<1>1. CASE Unmoved
  BY <1>1 DEF Unmoved, FlowOf
<1>2. ASSUME NEW m \in Message, Publish(m) PROVE \A x \in Message : FlowOf(x)
  <2>1. PICK stored \in BOOLEAN, told \in BOOLEAN :
          /\ stream' = IF stored THEN Append(stream, m) ELSE stream
          /\ GoTo(m, IF told THEN "stored" ELSE "direct")
    BY <1>2 DEF Publish
  <2>2. \A x \in Message : send'[x] = IF x = m THEN IF told THEN "stored" ELSE "direct"
                                      ELSE send[x]
    BY <2>1, GoToStep
  <2>3. \A x : Contains(stream', x) => x = m \/ Contains(stream, x)
    BY <2>1, AppendContains DEF TypeInv, TypeOK
  <2>4. QED
    BY <1>2, <2>2, <2>3 DEF Publish, At, FlowOf, Unsent
<1>3. ASSUME NEW m \in Message, Deliver(m) PROVE \A x \in Message : FlowOf(x)
  <2>1. \A x : Contains(buffer', x) => x = m \/ Contains(buffer, x)
    BY <1>3, AppendContains DEF Deliver, TypeInv, TypeOK
  <2>2. QED
    BY <1>3, <2>1 DEF Deliver, FlowOf, Unsent, senderVars
<1>4. ASSUME NEW m \in Message, SkipDuplicate(m) \/ Discard(m) \/ Take(m)
      PROVE  \A x \in Message : FlowOf(x)
  <2>1. Contains(buffer, m) /\ \A x : Contains(buffer', x) => Contains(buffer, x)
    BY <1>4, TailContains DEF SkipDuplicate, Discard, Take, TypeInv, TypeOK
  <2>2. \A x : Contains(stream', x) => Contains(stream, x)
    BY <1>4, AcknowledgeType DEF SkipDuplicate, Discard, Take, streamVars
  <2>3. QED
    BY <1>4, <2>1, <2>2 DEF SkipDuplicate, Discard, Take, NoteDelivery, FlowOf, Unsent,
                            senderVars
<1>5. ASSUME NEW m \in Message, TurnEnds(m) \/ Receipt(m) \/ TurnFails(m)
      PROVE  \A x \in Message : FlowOf(x)
  BY <1>5 DEF TurnEnds, Receipt, TurnFails, ForgetDelivery, FlowOf, Unsent, senderVars,
              streamVars
<1>6. ASSUME NEW m \in Message, Ack(m) PROVE \A x \in Message : FlowOf(x)
  BY <1>6, AcknowledgeType DEF Ack, FlowOf, Unsent, senderVars
<1>7. ASSUME NEW Old \in SUBSET processed, Forget(Old) PROVE \A x \in Message : FlowOf(x)
  BY <1>7 DEF Forget, FlowOf, Unsent, senderVars, streamVars
<1>8. ASSUME Crash PROVE \A x \in Message : FlowOf(x)
  <2>1. \A x \in Message : send'[x] \in {"lost", send[x]}
    BY <1>8 DEF Crash, TypeInv, TypeOK
  <2>2. QED
    BY <1>8, <2>1, NothingInNothing DEF Crash, FlowOf, Unsent, streamVars
<1>9. QED
  BY <1>1, <1>2, <1>3, <1>4, <1>5, <1>6, <1>7, <1>8, NextStep DEF Moved

LEMMA SentInit == Init => SentInv
BY NothingInNothing DEF Init, SentInv, SentOf, Coming

LEMMA SentNext == TypeInv /\ SentInv /\ [Next]_vars => SentInv'
BY FlowNext DEF FlowOf, SentInv, SentOf, Coming

-----------------------------------------------------------------------------
(***************************************************************************)
(* Nothing that is queued is lost.  An acknowledgement takes a message out *)
(* of the stream when its turn has ended, when it has no conversation id,  *)
(* or when it is marked; so what is marked is in its turn or has had it.   *)
(***************************************************************************)
AckedInv ==
  \A m \in Message : During("ack", m) \/ During("receipt", m) => turns[m] > 0

MarkedInv ==
  \A m \in Addressed : m \in processed => turns[m] > 0 \/ During("turn", m)

StoredInv ==
  \A m \in Addressed : send[m] \in {"stored", "queued"} => turns[m] > 0 \/ Contains(stream, m)

TurnInv == AckedInv /\ MarkedInv /\ StoredInv

LEMMA AddressedAreMessages == Addressed \subseteq Message
BY MessagingAssumption

LEMMA TurnInit == Init => TurnInv
<1> SUFFICES ASSUME Init PROVE TurnInv
  OBVIOUS
<1>1. \A m \in Message : send[m] \in {"rejected", "idle"}
  BY DEF Init
<1>2. QED
  BY <1>1, AddressedAreMessages DEF Init, TurnInv, AckedInv, MarkedInv, StoredInv, During

LEMMA TurnNext == TypeInv /\ TurnInv /\ [Next]_vars => TurnInv'
<1> SUFFICES ASSUME TypeInv, TurnInv, [Next]_vars PROVE TurnInv'
  OBVIOUS
<1> USE AddressedAreMessages
<1>1. CASE Unmoved
  BY <1>1 DEF Unmoved, TurnInv, AckedInv, MarkedInv, StoredInv, During
<1>2. ASSUME NEW m \in Message, Publish(m) PROVE TurnInv'
  <2>1. PICK stored \in BOOLEAN, told \in BOOLEAN :
          /\ told => stored
          /\ stream' = IF stored THEN Append(stream, m) ELSE stream
          /\ GoTo(m, IF told THEN "stored" ELSE "direct")
    BY <1>2 DEF Publish
  <2>2. \A x \in Message : send'[x] = IF x = m THEN IF told THEN "stored" ELSE "direct"
                                      ELSE send[x]
    BY <2>1, GoToStep
  <2>3. /\ \A x : Contains(stream, x) => Contains(stream', x)
        /\ stored => Contains(stream', m)
    BY <2>1, AppendContains DEF TypeInv, TypeOK
  <2>4. consumer' = consumer /\ processed' = processed /\ turns' = turns
    BY <1>2 DEF Publish
  <2>5. QED
    BY <2>1, <2>2, <2>3, <2>4 DEF TurnInv, AckedInv, MarkedInv, StoredInv, During
<1>3. ASSUME NEW m \in Message, Deliver(m) PROVE TurnInv'
  BY <1>3 DEF Deliver, TurnInv, AckedInv, MarkedInv, StoredInv, During, senderVars
<1>4. ASSUME NEW m \in Message, SkipDuplicate(m) PROVE TurnInv'
  <2>1. \A x : x # m => (Contains(stream', x) <=> Contains(stream, x))
    BY <1>4, AcknowledgeType DEF SkipDuplicate
  <2>2. m \in Addressed => turns[m] > 0
    BY <1>4 DEF SkipDuplicate, Idle, During, TurnInv, MarkedInv
  <2>3. QED
    BY <1>4, <2>1, <2>2
       DEF SkipDuplicate, TurnInv, AckedInv, MarkedInv, StoredInv, During, senderVars
<1>5. ASSUME NEW m \in Message, Discard(m) PROVE TurnInv'
  <2>1. \A x : x # m => (Contains(stream', x) <=> Contains(stream, x))
    BY <1>5, AcknowledgeType DEF Discard
  <2>2. QED
    BY <1>5, <2>1 DEF Discard, NoteDelivery, TurnInv, AckedInv, MarkedInv, StoredInv, During,
                      senderVars
<1>6. ASSUME NEW m \in Message, Take(m) PROVE TurnInv'
  BY <1>6 DEF Take, NoteDelivery, Idle, TurnInv, AckedInv, MarkedInv, StoredInv, During,
              senderVars, streamVars
<1>7. ASSUME NEW m \in Message, TurnEnds(m) PROVE TurnInv'
  <2>1. \A x \in Message : turns[x] \in Nat /\ turns'[x] = IF x = m THEN turns[x] + 1 ELSE turns[x]
    BY <1>7 DEF TurnEnds, TypeInv, TypeOK
  <2>2. QED
    BY <1>7, <2>1 DEF TurnEnds, TurnInv, AckedInv, MarkedInv, StoredInv, During, senderVars,
                      streamVars
<1>8. ASSUME NEW m \in Message, Ack(m) PROVE TurnInv'
  <2>1. \A x : x # m => (Contains(stream', x) <=> Contains(stream, x))
    BY <1>8, AcknowledgeType DEF Ack
  <2>2. turns[m] > 0
    BY <1>8 DEF Ack, TurnInv, AckedInv
  <2>3. QED
    BY <1>8, <2>1, <2>2 DEF Ack, Idle, TurnInv, AckedInv, MarkedInv, StoredInv, During,
                            senderVars
<1>9. ASSUME NEW m \in Message, Receipt(m) \/ TurnFails(m) PROVE TurnInv'
  BY <1>9 DEF Receipt, TurnFails, ForgetDelivery, Idle, TurnInv, AckedInv, MarkedInv,
              StoredInv, During, senderVars, streamVars
<1>10. ASSUME NEW Old \in SUBSET processed, Forget(Old) PROVE TurnInv'
  BY <1>10 DEF Forget, TurnInv, AckedInv, MarkedInv, StoredInv, During, senderVars,
               streamVars
<1>11. ASSUME Crash PROVE TurnInv'
  <2>1. \A x \in Message : send'[x] \in {"lost", send[x]}
    BY <1>11 DEF Crash, TypeInv, TypeOK
  <2>2. QED
    BY <1>11, <2>1 DEF Crash, Idle, TurnInv, AckedInv, MarkedInv, StoredInv, During,
                       streamVars
<1>12. QED
  BY <1>1, <1>2, <1>3, <1>4, <1>5, <1>6, <1>7, <1>8, <1>9, <1>10, <1>11, NextStep DEF Moved

\* A message whose sender was told that it is queued has had its turn or is still in
\* the stream.
THEOREM QueuedIsKept == Spec => []NothingQueuedIsLost
<1>1. TurnInv => NothingQueuedIsLost
  BY DEF TurnInv, StoredInv, NothingQueuedIsLost, At
<1>2. QED
  BY <1>1, TurnInit, TurnNext, TypeInvariant, PTL DEF Spec

-----------------------------------------------------------------------------
(***************************************************************************)
(* How often an agent is handed a message.  A turn under way counts; and a *)
(* message that is not marked but may still come to the consumer has had   *)
(* fewer turns than it may have.                                           *)
(***************************************************************************)
Open(m) == m \notin processed /\ (Coming(m) \/ Unsent(m))

Used(m) == turns[m] + IF During("turn", m) THEN 1 ELSE 0

OnceOf(m) == Used(m) <= 1 + losses /\ (Open(m) => Used(m) <= losses)

OnceInv == \A m \in Message : OnceOf(m)

LEMMA UsedType == TypeInv => losses \in Nat /\ \A m \in Message : Used(m) \in Nat /\ turns[m] \in Nat
BY ConstantsAreNat DEF TypeInv, TypeOK, Used

\* A message can be open after a step only if it was before or lost its mark.
LEMMA OpenStep ==
  ASSUME TypeInv, [Next]_vars
  PROVE  \A x \in Message : Open(x)' => Open(x) \/ (x \in processed /\ x \notin processed')
BY FlowNext DEF FlowOf, Open, Coming

LEMMA OnceInit == Init => OnceInv
<1> SUFFICES ASSUME Init, NEW m \in Message PROVE OnceOf(m)
  BY DEF OnceInv
<1>1. turns[m] = 0 /\ losses = 0 /\ ~ During("turn", m)
  BY DEF Init, During
<1>2. QED
  BY <1>1 DEF OnceOf, Used

LEMMA OnceNext == TypeInv /\ SentInv /\ OnceInv /\ [Next]_vars => OnceInv'
<1> SUFFICES ASSUME TypeInv, SentInv, OnceInv, [Next]_vars, NEW x \in Message
             PROVE  OnceOf(x)'
  BY DEF OnceInv
<1>1. /\ OnceOf(x) /\ losses \in Nat /\ Used(x) \in Nat /\ turns[x] \in Nat
      /\ Open(x)' => Open(x) \/ (x \in processed /\ x \notin processed')
  BY UsedType, OpenStep DEF OnceInv
<1>2. CASE /\ Used(x)' = Used(x) /\ losses' = losses
           /\ x \in processed => x \in processed'
  BY <1>1, <1>2 DEF OnceOf
<1>3. CASE Unmoved
  <2>1. Used(x)' = Used(x)
    BY <1>3 DEF Unmoved, Used, During
  <2>2. QED
    BY <1>2, <1>3, <2>1 DEF Unmoved
<1>4. ASSUME NEW m \in Message,
             Publish(m) \/ Deliver(m) \/ SkipDuplicate(m) \/ Discard(m)
      PROVE  OnceOf(x)'
  <2>1. /\ UNCHANGED <<consumer, turns, losses>>
        /\ x \in processed => x \in processed'
    BY <1>4 DEF Publish, Deliver, SkipDuplicate, Discard, NoteDelivery, boundVars
  <2>2. Used(x)' = Used(x)
    BY <2>1 DEF Used, During
  <2>3. QED
    BY <1>2, <2>1, <2>2
<1>5. ASSUME NEW m \in Message, Take(m) PROVE OnceOf(x)'
  <2>1. /\ consumer = Idle /\ consumer' = [pc |-> "turn", msg |-> m]
        /\ turns' = turns /\ losses' = losses
        /\ m \notin processed /\ processed' = processed \cup {m}
    BY <1>5 DEF Take, NoteDelivery, boundVars
  <2>2. Used(x) = turns[x] /\ Used(x)' = turns[x] + IF x = m THEN 1 ELSE 0
    BY <1>1, <2>1 DEF Used, During, Idle
  <2>3. CASE x = m
    <3>1. Contains(buffer, m)
      BY <1>5, TailContains DEF Take, TypeInv, TypeOK
    <3>2. Used(x) <= losses
      BY <1>1, <2>1, <2>3, <3>1 DEF OnceOf, Open, Coming
    <3>3. ~ Open(x)'
      BY <2>1, <2>3 DEF Open
    <3>4. QED
      BY <1>1, <2>1, <2>2, <2>3, <3>2, <3>3 DEF OnceOf
  <2>4. CASE x # m
    BY <1>1, <1>2, <2>1, <2>2, <2>4
  <2>5. QED
    BY <2>3, <2>4
<1>6. ASSUME NEW m \in Message, TurnEnds(m) \/ Ack(m) \/ Receipt(m) PROVE OnceOf(x)'
  <2>1. processed' = processed /\ losses' = losses
    BY <1>6 DEF TurnEnds, Ack, Receipt, boundVars
  <2>2. CASE TurnEnds(m)
    <3>1. /\ consumer = [pc |-> "turn", msg |-> m] /\ consumer' = [pc |-> "ack", msg |-> m]
          /\ turns'[x] = IF x = m THEN turns[x] + 1 ELSE turns[x]
      BY <2>2 DEF TurnEnds, During, TypeInv, TypeOK
    <3>2. Used(x)' = Used(x)
      BY <1>1, <3>1 DEF Used, During
    <3>3. QED
      BY <1>2, <2>1, <3>2
  <2>3. CASE Ack(m) \/ Receipt(m)
    <3>1. consumer.pc # "turn" /\ consumer'.pc # "turn" /\ turns' = turns
      BY <2>3 DEF Ack, Receipt, During, Idle
    <3>2. Used(x)' = Used(x)
      BY <3>1 DEF Used, During
    <3>3. QED
      BY <1>2, <2>1, <3>2
  <2>4. QED
    BY <1>6, <2>2, <2>3
<1>7. ASSUME NEW m \in Message, TurnFails(m) PROVE OnceOf(x)'
  <2>1. /\ consumer = [pc |-> "turn", msg |-> m] /\ consumer' = Idle
        /\ turns' = turns /\ losses' = losses /\ processed' = processed \ {m}
    BY <1>7 DEF TurnFails, ForgetDelivery, During
  <2>2. Used(x)' = turns[x] /\ Used(x) = turns[x] + IF x = m THEN 1 ELSE 0
    BY <1>1, <2>1 DEF Used, During, Idle
  <2>3. CASE x = m
    BY <1>1, <2>1, <2>2, <2>3 DEF OnceOf
  <2>4. CASE x # m
    BY <1>1, <1>2, <2>1, <2>2, <2>4
  <2>5. QED
    BY <2>3, <2>4
<1>8. ASSUME NEW Old \in SUBSET processed, Forget(Old) PROVE OnceOf(x)'
  <2>1. Used(x)' = Used(x)
    BY <1>8 DEF Forget, Used, During
  <2>2. CASE losses' = losses + 1
    BY <1>1, <2>1, <2>2 DEF OnceOf
  <2>3. CASE losses' # losses + 1
    <3>1. /\ losses' = losses /\ processed' = processed \ Old
          /\ \A m \in Old : ~ Coming(m)
          /\ UNCHANGED <<stream, buffer, send>>
      BY <1>8, <2>3 DEF Forget, boundVars, Coming, streamVars, senderVars
    <3>2. CASE x \in Old
      <4>1. ~ Open(x)'
        BY <3>1, <3>2 DEF Open, Coming, Unsent, SentInv, SentOf
      <4>2. QED
        BY <1>1, <2>1, <3>1, <4>1 DEF OnceOf
    <3>3. CASE x \notin Old
      BY <1>1, <1>2, <2>1, <3>1, <3>3
    <3>4. QED
      BY <3>2, <3>3
  <2>4. QED
    BY <2>2, <2>3
<1>9. ASSUME Crash PROVE OnceOf(x)'
  <2>1. losses' = losses + 1 /\ turns' = turns /\ consumer' = Idle
    BY <1>9 DEF Crash
  <2>2. Used(x)' = turns[x] /\ turns[x] <= Used(x)
    BY <1>1, <2>1 DEF Used, During, Idle
  <2>3. QED
    BY <1>1, <2>1, <2>2 DEF OnceOf
<1>10. QED
  BY <1>3, <1>4, <1>5, <1>6, <1>7, <1>8, <1>9, NextStep DEF Moved

\* An agent has one turn with a message and one more for each time that the marks
\* were lost, however often the stream delivers the message.
THEOREM HandedOverOncePerLoss == Spec => []HandedOverOnce
<1>1. TypeInv /\ OnceInv => HandedOverOnce
  <2> SUFFICES ASSUME TypeInv, OnceInv, NEW m \in Message PROVE turns[m] <= 1 + losses
    BY DEF HandedOverOnce
  <2>1. Used(m) <= 1 + losses /\ turns[m] \in Nat /\ losses \in Nat
    BY UsedType DEF OnceInv, OnceOf
  <2>2. QED
    BY <2>1 DEF Used
<1>2. QED
  BY <1>1, SentInit, SentNext, OnceInit, OnceNext, TypeInvariant, PTL DEF Spec

-----------------------------------------------------------------------------
(***************************************************************************)
(* The requests recorded for the agent that is to answer.  Where no mark   *)
(* was lost, a request that may still come to be recorded is not recorded  *)
(* yet: this is why none is recorded twice.                                *)
(***************************************************************************)
RealOf(q) == turns[q] > 0 \/ consumer.msg = q \/ q \notin Addressed

RecordInv ==
  /\ \A q \in Request : Contains(pending, q) => RealOf(q)
  /\ losses = 0 =>
       IsInjective(pending) /\ \A q \in Request : Contains(pending, q) => ~ Open(q)

LEMMA RequestsAreMessages == Request \subseteq Message
BY DEF Message

LEMMA RecordInit == Init => RecordInv
<1> SUFFICES ASSUME Init PROVE RecordInv
  OBVIOUS
<1>1. pending = <<>> /\ IsInjective(<<>>)
  BY DEF Init, IsInjective
<1>2. QED
  BY <1>1, NothingInNothing DEF RecordInv

\* A step that records nothing new: what is left of the records is as good as before
\* if the messages recorded are no nearer to coming.
LEMMA RecordsLeft ==
  ASSUME TypeInv, RecordInv, [Next]_vars,
         losses' = 0 => losses = 0,
         \A q \in Request : Contains(pending', q) => Contains(pending, q),
         IsInjective(pending) => IsInjective(pending'),
         \A q \in Request : Contains(pending', q) /\ RealOf(q) => RealOf(q)',
         \A q \in Request : losses' = 0 /\ Contains(pending', q) /\ q \in processed =>
                              q \in processed' \/ ~ Open(q)'
  PROVE  RecordInv'
BY OpenStep, RequestsAreMessages DEF RecordInv

\* A step that notes the delivery of a message from the buffer.
LEMMA RecordsMore ==
  ASSUME TypeInv, RecordInv, [Next]_vars, losses' = losses,
         NEW m \in Message, m \notin processed, Contains(buffer, m), NoteDelivery(m),
         \A q \in Request : RealOf(q) => RealOf(q)',
         m \in Request => RealOf(m)'
  PROVE  RecordInv'
<1>1. processed' = processed \cup {m} /\ Open(m)
  BY DEF NoteDelivery, Open, Coming
<1>2. \A q \in Request : Open(q)' => Open(q) /\ q # m
  <2>1. \A q \in Request : Open(q)' => Open(q)
    BY <1>1, OpenStep, RequestsAreMessages
  <2>2. ~ Open(m)'
    BY <1>1 DEF Open
  <2>3. QED
    BY <2>1, <2>2
<1>3. CASE m \in Request
  <2>1. losses = 0 => ~ Contains(pending, m)
    BY <1>1, <1>3 DEF RecordInv
  <2>2. /\ \A q : Contains(pending', q) => q = m \/ Contains(pending, q)
        /\ IsInjective(pending) /\ ~ Contains(pending, m) => IsInjective(pending')
    BY <1>3, RecordedProperties DEF NoteDelivery, TypeInv, TypeOK
  <2>3. QED
    BY <1>2, <1>3, <2>1, <2>2 DEF RecordInv
<1>4. CASE m \notin Request
  BY <1>2, <1>4 DEF NoteDelivery, RecordInv
<1>5. QED
  BY <1>3, <1>4

LEMMA RecordNext == TypeInv /\ SentInv /\ TurnInv /\ RecordInv /\ [Next]_vars => RecordInv'
<1> SUFFICES ASSUME TypeInv, SentInv, TurnInv, RecordInv, [Next]_vars PROVE RecordInv'
  OBVIOUS
<1> USE RequestsAreMessages
<1>1. losses \in Nat /\ \A q \in Request : turns[q] \in Nat
  BY UsedType
<1>2. CASE Unmoved
  <2>1. /\ \A q : Contains(pending', q) => Contains(pending, q)
        /\ IsInjective(pending) => IsInjective(pending')
    <3>1. pending \in Seq(Request)
      BY DEF TypeInv, TypeOK
    <3>2. CASE pending' = pending
      BY <3>2
    <3>3. CASE pending # <<>> /\ pending' = Tail(pending)
      BY <3>1, <3>3, TailContains
    <3>4. QED
      BY <1>2, <3>2, <3>3 DEF Unmoved
  <2>2. \A q \in Request : RealOf(q) => RealOf(q)'
    BY <1>2 DEF Unmoved, RealOf
  <2>3. QED
    BY <1>2, <2>1, <2>2, RecordsLeft DEF Unmoved
<1>3. ASSUME NEW m \in Message, Publish(m) \/ Deliver(m) \/ SkipDuplicate(m)
      PROVE  RecordInv'
  <2>1. UNCHANGED <<consumer, processed, turns, pending, losses>>
    BY <1>3 DEF Publish, Deliver, SkipDuplicate, boundVars
  <2>2. \A q \in Request : RealOf(q) => RealOf(q)'
    BY <2>1 DEF RealOf
  <2>3. QED
    BY <2>1, <2>2, RecordsLeft
<1>4. ASSUME NEW m \in Message, Discard(m) \/ Take(m) PROVE RecordInv'
  <2>1. /\ Contains(buffer, m) /\ m \notin processed /\ NoteDelivery(m)
        /\ turns' = turns /\ losses' = losses
    BY <1>4, TailContains DEF Discard, Take, boundVars, TypeInv, TypeOK
  <2>2. \A q \in Request : consumer.msg # q \/ consumer' = consumer
    BY <1>4, NoMessageAssumption DEF Discard, Take, Idle
  <2>3. \A q \in Request : RealOf(q) => RealOf(q)'
    BY <2>1, <2>2 DEF RealOf
  <2>4. RealOf(m)'
    BY <1>4 DEF Discard, Take, RealOf
  <2>5. QED
    BY <2>1, <2>3, <2>4, RecordsMore
<1>5. ASSUME NEW m \in Message, TurnEnds(m) \/ Ack(m) \/ Receipt(m) PROVE RecordInv'
  <2>1. UNCHANGED <<processed, pending, losses>>
    BY <1>5 DEF TurnEnds, Ack, Receipt, boundVars
  <2>2. turns'[m] > 0 /\ consumer.msg = m /\ \A q \in Request : q # m => turns'[q] = turns[q]
    BY <1>1, <1>5 DEF TurnEnds, Ack, Receipt, During, TurnInv, AckedInv, TypeInv, TypeOK
  <2>3. \A q \in Request : RealOf(q) => RealOf(q)'
    BY <1>1, <2>2 DEF RealOf
  <2>4. QED
    BY <2>1, <2>3, RecordsLeft
<1>6. ASSUME NEW m \in Message, TurnFails(m) PROVE RecordInv'
  <2>1. /\ losses' = losses /\ turns' = turns /\ processed' = processed \ {m}
        /\ consumer.msg = m
    BY <1>6 DEF TurnFails, ForgetDelivery, During
  <2>2. /\ \A q \in Request : Contains(pending', q) => q # m /\ Contains(pending, q)
        /\ IsInjective(pending) => IsInjective(pending')
    <3>1. pending \in Seq(Request)
      BY DEF TypeInv, TypeOK
    <3>2. CASE m \in Request
      BY <1>6, <3>1, <3>2, WithoutProperties DEF TurnFails, ForgetDelivery
    <3>3. CASE m \notin Request
      BY <1>6, <3>3 DEF TurnFails, ForgetDelivery
    <3>4. QED
      BY <3>2, <3>3
  <2>3. \A q \in Request : q # m /\ RealOf(q) => RealOf(q)'
    BY <2>1 DEF RealOf
  <2>4. QED
    BY <2>1, <2>2, <2>3, RecordsLeft
<1>7. ASSUME NEW Old \in SUBSET processed, Forget(Old) PROVE RecordInv'
  <2>1. UNCHANGED <<pending, turns, consumer>> /\ processed' = processed \ Old
    BY <1>7 DEF Forget
  <2>2. \A q \in Request : RealOf(q) => RealOf(q)'
    BY <2>1 DEF RealOf
  <2>3. CASE losses' = losses + 1
    BY <1>1, <2>1, <2>2, <2>3 DEF RecordInv
  <2>4. CASE losses' # losses + 1
    <3>1. /\ losses' = losses /\ \A m \in Old : ~ Coming(m)
          /\ UNCHANGED <<stream, buffer, send>>
      BY <1>7, <2>4 DEF Forget, boundVars, Coming, streamVars, senderVars
    <3>2. \A q \in Request : q \in processed => q \in processed' \/ ~ Open(q)'
      BY <2>1, <3>1 DEF Open, Coming, Unsent, SentInv, SentOf
    <3>3. QED
      BY <2>1, <2>2, <3>1, <3>2, RecordsLeft
  <2>5. QED
    BY <2>3, <2>4
<1>8. ASSUME Crash PROVE RecordInv'
  <2>1. pending' = <<>> /\ losses' = losses + 1
    BY <1>8 DEF Crash
  <2>2. QED
    BY <1>1, <2>1, NothingInNothing DEF RecordInv
<1>9. QED
  BY <1>2, <1>3, <1>4, <1>5, <1>6, <1>7, <1>8, NextStep DEF Moved

\* What an answer can be taken for: a request that the agent has had its turn with or
\* has it now, or one without a conversation id; recorded once where no mark was lost.
THEOREM RecordedIsReal == Spec => []RecordsAreReal
<1>1. TypeInv /\ RecordInv => RecordsAreReal
  <2> SUFFICES ASSUME TypeInv, RecordInv, NEW i \in 1..Len(pending)
               PROVE  /\ RealOf(pending[i])
                      /\ losses = 0 => \A j \in 1..Len(pending) : pending[i] = pending[j] => i = j
    BY DEF RecordsAreReal, RealOf
  <2>1. pending \in Seq(Request) /\ pending[i] \in Request /\ DOMAIN pending = 1..Len(pending)
    BY ElementOfSeq, LenProperties DEF TypeInv, TypeOK
  <2>2. Contains(pending, pending[i])
    BY DEF Contains
  <2>3. QED
    BY <2>1, <2>2 DEF RecordInv, IsInjective
<1>2. QED
  BY <1>1, SentInit, SentNext, TurnInit, TurnNext, RecordInit, RecordNext, TypeInvariant, PTL
     DEF Spec
=============================================================================
