----------------------------- MODULE Messaging -----------------------------
(***************************************************************************)
(* Requests from one agent to another and the answers to them: the sender  *)
(* (ergatai-api/src/messaging/mod.rs), the consumer that hands messages to *)
(* agents (mcp/message_delivery.rs), the monitor that reports unanswered   *)
(* requests (mcp/request_monitor.rs), and the AGENT_MESSAGES stream they   *)
(* share (ergatai-nats).                                                   *)
(*                                                                         *)
(* A message is published to the stream, from which the one consumer takes *)
(* messages in turn; handing one over lasts as long as the agent's turn.   *)
(* The stream delivers again what is not acknowledged within ack_wait, and *)
(* a turn may well be longer: the consumer tells the copies by the set     *)
(* `processed'.  When publishing fails the sender hands the message over   *)
(* itself.  Agents do not see correlation ids: an answer is taken to be    *)
(* the answer to the oldest request recorded for the agent that gives it.  *)
(***************************************************************************)
EXTENDS Naturals, SequencesExt

CONSTANTS
  Request,      \* requests of one agent to another
  Response,     \* what the other agent sends back; an attempt to send that failed
                \* is followed by another message
  Addressed,    \* messages with a conversation id: send_message passes on only
                \* those that are plain numbers
  Denials,      \* the sets of messages that admission control may deny; they are not sent
  MaxDeliver,   \* max_deliver of the consumer
  MaxPending,   \* MAX_PENDING_PER_AGENT
  MaxTracked,   \* MAX_PENDING_REQUESTS
  MaxRetry,     \* MAX_RETRY_ATTEMPTS
  Capacity,     \* BACKPRESSURE_THRESHOLD
  MaxFaults,    \* failed publications and turns, lost acknowledgements, losses
  MaxLosses     \* how often the marks in `processed' are lost too early

Message == Request \cup Response

ASSUME MessagingAssumption ==
  /\ Request \cap Response = {}
  /\ Addressed \subseteq Message /\ Denials \subseteq SUBSET Message
  /\ {MaxDeliver, MaxPending, MaxTracked, MaxRetry, Capacity} \subseteq Nat \ {0}
  /\ {MaxFaults, MaxLosses} \subseteq Nat

NoMessage == "no message"
ASSUME NoMessageAssumption == NoMessage \notin Message

VARIABLES
  send,       \* where the send() of each message is
  about,      \* the correlation_id of a response: the request it is taken to answer
  stream,     \* the agent messages in AGENT_MESSAGES, oldest first
  attempts,   \* how often the stream has delivered each message
  events,     \* read receipts and timeout events in AGENT_MESSAGES, per request
  buffer,     \* deliveries the consumer has not looked at yet
  consumer,   \* handle_message
  processed,  \* PROCESSED_MESSAGES
  pending,    \* pending_responses of the answering agent
  tracked,    \* RequestMonitor.pending
  retries,    \* RequestMonitor.retry_counts
  monitor,    \* the monitor's pass over the requests that timed out
  handed,     \* the messages an agent has begun a turn with
  turns,      \* the turns that ended well, per message from the stream
  faults,
  losses      \* marks lost to a restart, or to DEDUP_TTL with a copy still to come

senderVars == <<send, about>>
streamVars == <<stream, attempts, events>>
consumerVars == <<buffer, consumer, processed, handed, turns>>
monitorVars == <<tracked, retries, monitor>>
boundVars == <<faults, losses>>
vars == <<senderVars, streamVars, consumerVars, pending, monitorVars, boundVars>>

Init ==
  /\ \E denied \in Denials :
        send = [m \in Message |-> IF m \in denied THEN "rejected" ELSE "idle"]
  /\ about = [m \in Response |-> NoMessage]
  /\ stream = <<>> /\ buffer = <<>> /\ pending = <<>>
  /\ attempts = [m \in Message |-> 0]
  /\ events = [q \in Request |-> [receipts |-> 0, timeouts |-> 0]]
  /\ consumer = [pc |-> "idle", msg |-> NoMessage]
  /\ processed = {} /\ handed = {} /\ tracked = {}
  /\ retries = [q \in Request |-> 0]
  /\ monitor = [pc |-> "sleep", todo |-> {}, done |-> {}, now |-> NoMessage]
  /\ turns = [m \in Message |-> 0]
  /\ faults = 0 /\ losses = 0

Fault == faults < MaxFaults /\ faults' = faults + 1
NoFault == UNCHANGED faults

At(m, pc) == send[m] = pc
GoTo(m, pc) == send' = [send EXCEPT ![m] = pc]

\* What is left of each beginning of s when m is taken out.
Kept(s, m) ==
  LET kept[n \in 0..Len(s)] ==
        IF n = 0 THEN <<>>
        ELSE IF s[n] = m THEN kept[n - 1] ELSE Append(kept[n - 1], s[n])
  IN kept

\* retain: every entry for m is taken out, the others keep their order.
Without(s, m) == Kept(s, m)[Len(s)]

-----------------------------------------------------------------------------
\* Sending.

\* track_request: at capacity a request is sent without being watched.
Track(q) ==
  /\ tracked' = IF Cardinality(tracked) < MaxTracked THEN tracked \cup {q} ELSE tracked
  /\ UNCHANGED <<retries, monitor>>

\* mark_responded
MarkResponded(q) ==
  /\ tracked' = tracked \ {q}
  /\ retries' = IF q \in tracked THEN [retries EXCEPT ![q] = 0] ELSE retries
  /\ UNCHANGED monitor

\* mark_response_delivered
MarkDelivered(m) ==
  IF m \in Request \/ about[m] = NoMessage
  THEN UNCHANGED monitorVars
  ELSE MarkResponded(about[m])

\* send, up to the publication, of a request.
PrepareRequest(q) ==
  /\ At(q, "idle")
  /\ GoTo(q, "publish")
  /\ Track(q)
  /\ UNCHANGED <<about, streamVars, consumerVars, pending, boundVars>>

\* The same of a response, which takes the oldest recorded request with it.
PrepareResponse(r) ==
  /\ handed \cap Request # {}
  /\ At(r, "idle")
  /\ GoTo(r, "publish")
  /\ about' = [about EXCEPT ![r] = IF pending = <<>> THEN NoMessage ELSE Head(pending)]
  /\ pending' = IF pending = <<>> THEN <<>> ELSE Tail(pending)
  /\ UNCHANGED <<streamVars, consumerVars, monitorVars, boundVars>>

\* The stream's depth, in which nobody acknowledges receipts and timeout events.
Depth == Len(stream)
         + FoldFunction(+, 0, [q \in Request |-> events[q].receipts + events[q].timeouts])

\* publish_agent_message_reliable: Stored says whether the stream has the
\* message, Told whether its acknowledgement arrives in time.
Publish(m) ==
  /\ At(m, "publish")
  /\ \E stored, told \in BOOLEAN :
        /\ told => stored
        /\ stored => Depth < Capacity
        /\ IF told \/ Depth >= Capacity THEN NoFault ELSE Fault
        /\ stream' = IF stored THEN Append(stream, m) ELSE stream
        /\ GoTo(m, IF told THEN "stored" ELSE "direct")
        /\ handed' = IF told THEN handed ELSE handed \cup {m}
  /\ UNCHANGED <<about, attempts, events, buffer, consumer, processed, turns,
                 pending, monitorVars, losses>>

\* The sender learns that its message is queued.
Queued(m) ==
  /\ At(m, "stored")
  /\ GoTo(m, "queued")
  /\ MarkDelivered(m)
  /\ UNCHANGED <<about, streamVars, consumerVars, pending, boundVars>>

\* inject_message of the sender returns, at the end of the agent's turn.
Delivered(m) ==
  /\ At(m, "direct")
  /\ GoTo(m, "delivered")
  /\ MarkDelivered(m)
  /\ UNCHANGED <<about, streamVars, consumerVars, pending, boundVars>>

Rejected(m) ==
  /\ At(m, "direct") /\ Fault
  /\ GoTo(m, "rejected")
  /\ UNCHANGED <<about, streamVars, consumerVars, pending, monitorVars, losses>>

-----------------------------------------------------------------------------
\* The stream.

\* Mutated form of Deliverable: what is refused is not delivered again.
DeliverableOnce(m) ==
  /\ attempts[m] = 0
  /\ \A i \in 1..(SelectInSeq(stream, LAMBDA x : x = m) - 1) : attempts[stream[i]] > 0

\* Messages are delivered in their order; a message not acknowledged within
\* ack_wait, or refused by the consumer, is delivered again.
Deliverable(m) ==
  /\ attempts[m] < MaxDeliver
  /\ attempts[m] = 0 =>
        \A i \in 1..(SelectInSeq(stream, LAMBDA x : x = m) - 1) : attempts[stream[i]] > 0

Deliver(m) ==
  /\ Contains(stream, m) /\ Deliverable(m)
  /\ attempts' = [attempts EXCEPT ![m] = @ + 1]
  /\ buffer' = Append(buffer, m)
  /\ UNCHANGED <<stream, events, consumer, processed, handed, turns, senderVars, pending,
                 monitorVars, boundVars>>

-----------------------------------------------------------------------------
\* The consumer: handle_message.

Idle == [pc |-> "idle", msg |-> NoMessage]
During(pc, m) == consumer = [pc |-> pc, msg |-> m]

\* Mutated form of Recorded: without the bound.
RecordedAll(s, q) == Append(s, q)

\* store_pending_response: the oldest entry makes room.
Recorded(s, q) == Append(IF Len(s) >= MaxPending THEN Tail(s) ELSE s, q)

\* An acknowledgement takes the message out of the stream, unless it is lost.
Acknowledge(m) ==
  \/ stream' = Without(stream, m) /\ NoFault
  \/ stream' = stream /\ Fault

\* A copy of a message that is being or was handed over.
SkipDuplicate(m) ==
  /\ consumer = Idle /\ buffer # <<>> /\ m = Head(buffer) /\ m \in processed
  /\ buffer' = Tail(buffer)
  /\ Acknowledge(m)
  /\ UNCHANGED <<attempts, events, consumer, processed, handed, turns, senderVars, pending,
                 monitorVars, losses>>

\* Mutated form of NoteDelivery: the mark is left to the end of the turn.
NoteDeliveryLater(m) ==
  /\ pending' = IF m \in Request THEN Recorded(pending, m) ELSE pending
  /\ processed' = processed

\* record_pending_response and mark_message_processed, before the turn.
NoteDelivery(m) ==
  /\ pending' = IF m \in Request THEN Recorded(pending, m) ELSE pending
  /\ processed' = processed \cup {m}

\* A message without a conversation id is found out after it was noted.
Discard(m) ==
  /\ consumer = Idle /\ buffer # <<>> /\ m = Head(buffer) /\ m \notin processed
  /\ m \notin Addressed
  /\ buffer' = Tail(buffer)
  /\ NoteDelivery(m)
  /\ Acknowledge(m)
  /\ UNCHANGED <<attempts, events, consumer, handed, turns, senderVars, monitorVars, losses>>

Take(m) ==
  /\ consumer = Idle /\ buffer # <<>> /\ m = Head(buffer) /\ m \notin processed
  /\ m \in Addressed
  /\ buffer' = Tail(buffer)
  /\ NoteDelivery(m)
  /\ handed' = handed \cup {m}
  /\ consumer' = [pc |-> "turn", msg |-> m]
  /\ UNCHANGED <<turns, streamVars, senderVars, monitorVars, boundVars>>

TurnEnds(m) ==
  /\ During("turn", m)
  /\ consumer' = [pc |-> "ack", msg |-> m]
  /\ turns' = [turns EXCEPT ![m] = @ + 1]
  /\ UNCHANGED <<buffer, processed, handed, streamVars, senderVars, pending, monitorVars,
                 boundVars>>

Ack(m) ==
  /\ During("ack", m)
  /\ Acknowledge(m)
  /\ consumer' = IF m \in Request THEN [pc |-> "receipt", msg |-> m] ELSE Idle
  /\ UNCHANGED <<attempts, events, buffer, processed, handed, turns, senderVars, pending,
                 monitorVars, losses>>

\* publish_read_receipt; a failure is only logged.
Receipt(m) ==
  /\ During("receipt", m)
  /\ \/ events' = [events EXCEPT ![m].receipts = @ + 1] /\ NoFault
     \/ events' = events /\ Fault
  /\ consumer' = Idle
  /\ UNCHANGED <<stream, attempts, buffer, processed, handed, turns, senderVars, pending,
                 monitorVars, losses>>

\* Mutated form of ForgetDelivery: the mark stays.
ForgetDeliveryKeepingMark(m) ==
  /\ pending' = IF m \in Request THEN Without(pending, m) ELSE pending
  /\ processed' = processed

\* Mutated form of ForgetDelivery: the record stays.
ForgetDeliveryKeepingRecord(m) ==
  /\ pending' = pending
  /\ processed' = processed \ {m}

\* remove_pending_response and unmark_message_processed
ForgetDelivery(m) ==
  /\ pending' = IF m \in Request THEN Without(pending, m) ELSE pending
  /\ processed' = processed \ {m}

\* The turn fails.  No error of inject_message is AgentNotFound, so every one
\* of them is answered with a nak.
TurnFails(m) ==
  /\ During("turn", m) /\ Fault
  /\ ForgetDelivery(m)
  /\ consumer' = Idle
  /\ UNCHANGED <<buffer, handed, turns, streamVars, senderVars, monitorVars, losses>>

\* cleanup_stale_entries, of the entries older than DEDUP_TTL.  They date from the
\* beginning of the turn, which may last longer and keep a copy waiting.
Forget(Old) ==
  /\ Old # {}
  /\ processed' = processed \ Old
  /\ IF \E m \in Old : Contains(stream, m) \/ Contains(buffer, m)
     THEN losses < MaxLosses /\ losses' = losses + 1 /\ Fault
     ELSE UNCHANGED boundVars
  /\ UNCHANGED <<buffer, consumer, handed, turns, streamVars, senderVars, pending,
                 monitorVars>>

-----------------------------------------------------------------------------
\* The monitor: spawn_request_monitor_with_cancel.

\* Mutated form of Watched: after a failure there is no other attempt.
WatchedOnce == {q \in tracked : retries[q] = 0}

Watched == tracked

\* check_timeouts: Due are those of the watched whose timeout_ms has passed.
CheckTimeouts(Due) ==
  /\ monitor.pc = "sleep" /\ Due # {}
  /\ monitor' = [pc |-> "look", todo |-> Due, done |-> {}, now |-> NoMessage]
  /\ UNCHANGED <<tracked, retries, streamVars, consumerVars, pending, senderVars, boundVars>>

TriedEnough(q) == retries[q] >= MaxRetry

\* is_pending and get_retry_count
Look(q) ==
  /\ monitor.pc = "look" /\ q \in monitor.todo
  /\ monitor' =
       LET rest == monitor.todo \ {q} IN
       IF q \notin tracked THEN [monitor EXCEPT !.todo = rest]
       ELSE IF TriedEnough(q)
       THEN [monitor EXCEPT !.todo = rest, !.done = @ \cup {q}]
       ELSE [monitor EXCEPT !.pc = "publish", !.todo = rest, !.now = q]
  /\ UNCHANGED <<tracked, retries, streamVars, consumerVars, pending, senderVars,
                 boundVars>>

\* publish_request_timeout, which may fail although the stream has the event.
PublishTimeout(q) ==
  /\ monitor.pc = "publish" /\ q = monitor.now
  /\ \E stored, told \in BOOLEAN :
        /\ told => stored
        /\ events' = IF stored THEN [events EXCEPT ![q].timeouts = @ + 1] ELSE events
        /\ IF told THEN NoFault ELSE Fault
        /\ retries' = IF told THEN retries ELSE [retries EXCEPT ![q] = @ + 1]
        /\ monitor' = [monitor EXCEPT !.pc = "look", !.now = NoMessage,
                                      !.done = IF told THEN @ \cup {q} ELSE @]
  /\ UNCHANGED <<tracked, stream, attempts, consumerVars, pending, senderVars, losses>>

\* remove_timeouts
RemoveTimeouts ==
  /\ monitor.pc = "look" /\ monitor.todo = {}
  /\ tracked' = tracked \ monitor.done
  /\ retries' = [q \in Request |-> IF q \in monitor.done THEN 0 ELSE retries[q]]
  /\ monitor' = [monitor EXCEPT !.pc = "sleep", !.done = {}]
  /\ UNCHANGED <<streamVars, consumerVars, pending, senderVars, boundVars>>

-----------------------------------------------------------------------------
\* The process is restarted: of all this only the stream is kept.  A send that
\* was under way is not reported to anybody.
Crash ==
  /\ losses < MaxLosses /\ Fault
  /\ losses' = losses + 1
  /\ send' = [m \in Message |-> IF send[m] \in {"publish", "stored", "direct"}
                                THEN "lost" ELSE send[m]]
  /\ buffer' = <<>> /\ consumer' = Idle /\ processed' = {} /\ pending' = <<>>
  /\ tracked' = {}
  /\ retries' = [q \in Request |-> 0]
  /\ monitor' = [pc |-> "sleep", todo |-> {}, done |-> {}, now |-> NoMessage]
  /\ UNCHANGED <<about, streamVars, handed, turns>>

Next ==
  \/ \E q \in Request : PrepareRequest(q) \/ Look(q) \/ PublishTimeout(q)
  \/ \E r \in Response : PrepareResponse(r)
  \/ \E m \in Message : Publish(m) \/ Queued(m) \/ Delivered(m) \/ Rejected(m) \/ Deliver(m)
                        \/ SkipDuplicate(m) \/ Discard(m) \/ Take(m) \/ TurnEnds(m)
                        \/ Ack(m) \/ Receipt(m) \/ TurnFails(m)
  \/ \E Old \in SUBSET processed : Forget(Old)
  \/ \E Due \in SUBSET Watched : CheckTimeouts(Due)
  \/ RemoveTimeouts \/ Crash

Spec == Init /\ [][Next]_vars

\* The tasks run on: sends, the stream, the consumer and the monitor.  Turns end
\* too, which nothing in the code sees to.  Agents need not answer.
Fairness ==
  /\ \A m \in Message :
       /\ WF_vars(Publish(m)) /\ WF_vars(Queued(m)) /\ WF_vars(Delivered(m))
       /\ WF_vars(Deliver(m)) /\ WF_vars(SkipDuplicate(m)) /\ WF_vars(Discard(m))
       /\ WF_vars(Take(m)) /\ WF_vars(TurnEnds(m)) /\ WF_vars(Ack(m))
       /\ WF_vars(Receipt(m))
  /\ \A q \in Request :
       /\ WF_vars(Look(q)) /\ WF_vars(PublishTimeout(q))
       /\ WF_vars(\E Due \in SUBSET Watched : q \in Due /\ CheckTimeouts(Due))
  /\ WF_vars(RemoveTimeouts)

FairSpec == Spec /\ Fairness

-----------------------------------------------------------------------------
\* Every variable has values of its type.  In particular the answering agent
\* has no more than MAX_PENDING_PER_AGENT records and no request is retried
\* more often than MAX_RETRY_ATTEMPTS.
TypeOK ==
  /\ send \in [Message -> {"idle", "publish", "stored", "direct", "queued", "delivered",
                           "rejected", "lost"}]
  /\ about \in [Response -> Request \cup {NoMessage}]
  /\ stream \in Seq(Message) /\ buffer \in Seq(Message)
  /\ pending \in Seq(Request) /\ Len(pending) <= MaxPending
  /\ attempts \in [Message -> 0..MaxDeliver]
  /\ events \in [Request -> [receipts : Nat, timeouts : Nat]]
  /\ consumer \in [pc : {"idle", "turn", "ack", "receipt"}, msg : Message \cup {NoMessage}]
  /\ processed \subseteq Message /\ handed \subseteq Message
  /\ tracked \subseteq Request
  /\ retries \in [Request -> 0..MaxRetry]
  /\ monitor \in [pc : {"sleep", "look", "publish"}, todo : SUBSET Request,
                  done : SUBSET Request, now : Request \cup {NoMessage}]
  /\ turns \in [Message -> Nat]
  /\ faults \in 0..MaxFaults /\ losses \in 0..MaxLosses

\* A message whose sender was told that it is queued is not lost, whatever is
\* refused, acknowledged in vain or delivered again: an agent has had its turn with
\* it, or the stream still holds it, or it had no conversation id.
NothingQueuedIsLost ==
  \A m \in Addressed : At(m, "queued") => turns[m] > 0 \/ Contains(stream, m)

\* An agent has one turn with a message from the stream, however often the
\* message is delivered, and one more each time the marks are lost.
HandedOverOnce == \A m \in Message : turns[m] <= 1 + losses

\* What is recorded for the answering agent, and so taken by its next answer, is
\* there once, and is a request it has had its turn with or has it now; or one
\* that was discarded, which leaves its record behind.
RecordsAreReal ==
  \A i \in 1..Len(pending) :
    /\ LET q == pending[i] IN turns[q] > 0 \/ consumer.msg = q \/ q \notin Addressed
    /\ losses = 0 => \A j \in 1..Len(pending) : pending[i] = pending[j] => i = j

\* No request is watched for ever: each is answered, reported or given up.
WatchEnds == []<>(tracked = {})

\* Every queued message reaches its agent in the end, unless the stream has given
\* it up.
QueuedIsDelivered ==
  <>[](\A m \in Addressed : At(m, "queued") => turns[m] > 0 \/ attempts[m] = MaxDeliver)
=============================================================================
