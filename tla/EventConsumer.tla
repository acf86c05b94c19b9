--------------------------- MODULE EventConsumer ---------------------------
(***************************************************************************)
(* A durable consumer of the stream PLATFORM_DOMAIN_EVENTS: the broker's   *)
(* delivery state for it (explicit acks, MaxDeliver, MaxAckPending), the   *)
(* Run/handle loops that share the durable name, one per service replica,  *)
(* and the idempotency table platform_domain_consumer_events.              *)
(*                                                                         *)
(* A message is named by its position in the stream.  The stream itself    *)
(* belongs to the producers; on its own this module lets it grow freely    *)
(* (Arrive).                                                               *)
(***************************************************************************)
EXTENDS Naturals, Sequences, FiniteSets

CONSTANTS
  Events,         \* domain events, by event id
  Consumers,      \* processes running the consumer loop
  Subscribed,     \* events whose subject the filter selects
  Undecodable,    \* events whose payload proto.Unmarshal rejects
  MaxDeliver,     \* delivery attempts per message (8 in the code)
  MaxAckPending,  \* unacknowledged messages at a time (64)
  MaxPull,        \* messages buffered by one process (16)
  MaxMessages     \* bound: messages in the stream

ASSUME ConsumerAssumption ==
  /\ Subscribed \subseteq Events
  /\ Undecodable \subseteq Events
  /\ MaxDeliver \in Nat \ {0}
  /\ MaxAckPending \in Nat \ {0}
  /\ MaxPull \in Nat \ {0}
  /\ MaxMessages \in Nat

VARIABLES
  stream,       \* every message ever stored, oldest first
  floor,        \* messages up to here have exceeded the stream's MaxAge
  delivered,    \* delivered[i]: attempts made at message i
  outstanding,  \* messages delivered and neither acked, naked nor timed out
  settled,      \* messages acked or terminated: never delivered again
  inbox,        \* inbox[c]: deliveries <<message, attempt>> c has buffered
  step,         \* step[c]: where handle() of c stands
  job,          \* job[c]: the message c is handling, 0 for none
  running,      \* running[c]: Run of c has not returned
  processed,    \* events recorded in platform_domain_consumer_events
  handled,      \* handled[e]: times the handler took effect for e (history)
  interrupted,  \* events whose effect was not recorded at once (history)
  failed        \* failed[i]: attempts at message i that failed or got lost (history)

brokerVars == <<floor, delivered, outstanding, settled>>
loopVars == <<inbox, step, job, running>>
recordVars == <<processed, handled, interrupted, failed>>
consumerVars == <<brokerVars, loopVars, recordVars>>
vars == <<stream, consumerVars>>

Messages == 1 .. MaxMessages
Deliveries == Messages \X (1 .. MaxDeliver)

TypeOK ==
  /\ stream \in Seq(Events)
  /\ floor \in Nat /\ floor <= Len(stream)
  /\ delivered \in [Messages -> 0 .. MaxDeliver]
  /\ outstanding \in SUBSET Messages
  /\ settled \in SUBSET Messages
  /\ inbox \in [Consumers -> SUBSET Deliveries]
  /\ step \in [Consumers -> {"idle", "handling", "marking"}]
  /\ job \in [Consumers -> Messages \cup {0}]
  /\ running \in [Consumers -> BOOLEAN]
  /\ processed \in SUBSET Events
  /\ handled \in [Events -> Nat]
  /\ interrupted \in SUBSET Events
  /\ failed \in [Messages -> Nat]
  /\ \A c \in Consumers : step[c] = "idle" <=> job[c] = 0

ConsumerInit ==
  /\ floor = 0
  /\ delivered = [i \in Messages |-> 0]
  /\ outstanding = {}
  /\ settled = {}
  /\ inbox = [c \in Consumers |-> {}]
  /\ step = [c \in Consumers |-> "idle"]
  /\ job = [c \in Consumers |-> 0]
  /\ running \in [Consumers -> BOOLEAN]
  /\ processed = {}
  /\ handled = [e \in Events |-> 0]
  /\ interrupted = {}
  /\ failed = [i \in Messages |-> 0]

Init == stream = <<>> /\ ConsumerInit

-----------------------------------------------------------------------------
(* The broker.                                                             *)

\* Mutation: no redelivery.
DueOnce(i) ==
  /\ i \in floor + 1 .. Len(stream)
  /\ stream[i] \in Subscribed
  /\ i \notin settled \cup outstanding
  /\ delivered[i] = 0

\* Message i is still owed to the durable consumer.
Due(i) ==
  /\ i \in floor + 1 .. Len(stream)
  /\ stream[i] \in Subscribed
  /\ i \notin settled \cup outstanding
  /\ delivered[i] < MaxDeliver

\* One delivery attempt of i, which reaches c.
Deliver(c, i) ==
  /\ running[c]
  /\ Due(i)
  /\ Cardinality(outstanding) < MaxAckPending
  /\ Cardinality(inbox[c]) < MaxPull
  /\ delivered' = [delivered EXCEPT ![i] = @ + 1]
  /\ outstanding' = outstanding \cup {i}
  /\ inbox' = [inbox EXCEPT ![c] = @ \cup {<<i, delivered[i] + 1>>}]
  /\ UNCHANGED <<stream, floor, settled, step, job, running, recordVars>>

\* One delivery attempt of i that no loop gets to see: the connection breaks
\* and is made again while it is on the wire, which Next does not report, or
\* it answers the pull request of a process that is gone.
LoseDelivery(i) ==
  /\ Due(i)
  /\ Cardinality(outstanding) < MaxAckPending
  /\ delivered' = [delivered EXCEPT ![i] = @ + 1]
  /\ outstanding' = outstanding \cup {i}
  /\ failed' = [failed EXCEPT ![i] = @ + 1]
  /\ UNCHANGED <<stream, floor, settled, loopVars, processed, handled, interrupted>>

\* The ack wait of i (1s to 1min by BackOff) passes, while i is buffered,
\* being handled, forgotten by a crashed process, or lost on its way.
AckTimeout(i) ==
  /\ i \in outstanding
  /\ outstanding' = outstanding \ {i}
  /\ UNCHANGED <<stream, floor, delivered, settled, loopVars, recordVars>>

\* MaxAge removes the oldest message.
Expire ==
  /\ floor < Len(stream)
  /\ floor' = floor + 1
  /\ UNCHANGED <<stream, delivered, outstanding, settled, loopVars, recordVars>>

\* Replies to the broker; their errors are ignored, so they may be lost.
Settle(i) ==
  /\ \/ settled' = settled \cup {i} /\ outstanding' = outstanding \ {i}
     \/ UNCHANGED <<settled, outstanding>>
  /\ UNCHANGED <<floor, delivered>>

Nak(i) ==
  /\ outstanding' \in {outstanding, outstanding \ {i}}
  /\ failed' = [failed EXCEPT ![i] = @ + 1]
  /\ UNCHANGED <<floor, delivered, settled>>

-----------------------------------------------------------------------------
(* handle(): one delivery at a time per process.                           *)

\* c takes a delivery d out of its buffer.
Take(c, d) ==
  /\ running[c]
  /\ step[c] = "idle"
  /\ d \in inbox[c]
  /\ inbox' = [inbox EXCEPT ![c] = @ \ {d}]
  /\ UNCHANGED <<stream, running>>

\* Mutation: Term before looking at the decoding error.
TerminateAny(c, d) ==
  /\ Take(c, d)
  /\ Settle(d[1])
  /\ UNCHANGED <<step, job, recordVars>>

\* The payload cannot be decoded: Term.
Terminate(c, d) ==
  /\ Take(c, d)
  /\ stream[d[1]] \in Undecodable
  /\ Settle(d[1])
  /\ UNCHANGED <<step, job, recordVars>>

\* The idempotency table cannot be read: Nak.
CheckError(c, d) ==
  /\ Take(c, d)
  /\ stream[d[1]] \notin Undecodable
  /\ Nak(d[1])
  /\ UNCHANGED <<step, job, processed, handled, interrupted>>

\* The event is on record: Ack without calling the handler.
AlreadyProcessed(c, d) ==
  /\ Take(c, d)
  /\ stream[d[1]] \in processed \ Undecodable
  /\ Settle(d[1])
  /\ UNCHANGED <<step, job, recordVars>>

\* Mutation: the event is recorded before it is handled.
StartHandlerRecorded(c, d) ==
  /\ Take(c, d)
  /\ stream[d[1]] \notin processed \cup Undecodable
  /\ processed' = processed \cup {stream[d[1]]}
  /\ step' = [step EXCEPT ![c] = "handling"]
  /\ job' = [job EXCEPT ![c] = d[1]]
  /\ UNCHANGED <<brokerVars, handled, interrupted, failed>>

\* The event is not on record: the handler is called.
StartHandler(c, d) ==
  /\ Take(c, d)
  /\ stream[d[1]] \notin processed \cup Undecodable
  /\ step' = [step EXCEPT ![c] = "handling"]
  /\ job' = [job EXCEPT ![c] = d[1]]
  /\ UNCHANGED <<brokerVars, recordVars>>

\* The event in c's hands.
JobEvent(c) == stream[job[c]]

\* Mutation: the loop goes idle but keeps the message.
ReleaseHolding(c) ==
  /\ step' = [step EXCEPT ![c] = "idle"]
  /\ UNCHANGED job

Release(c) ==
  /\ step' = [step EXCEPT ![c] = "idle"]
  /\ job' = [job EXCEPT ![c] = 0]

HandlerReturns(c) ==
  /\ step[c] = "handling"
  /\ handled' = [handled EXCEPT ![JobEvent(c)] = @ + 1]
  /\ step' = [step EXCEPT ![c] = "marking"]
  /\ UNCHANGED <<stream, brokerVars, inbox, job, running, processed, interrupted, failed>>

\* Mutation: a failed delivery is acknowledged.
HandlerErrorAcks(c) ==
  /\ step[c] = "handling"
  /\ Settle(job[c])
  /\ Release(c)
  /\ UNCHANGED <<stream, inbox, running, recordVars>>

\* The handler reports an error, which does not say that nothing happened.
HandlerError(c) ==
  /\ step[c] = "handling"
  /\ \/ UNCHANGED <<handled, interrupted>>
     \/ /\ handled' = [handled EXCEPT ![JobEvent(c)] = @ + 1]
        /\ interrupted' = interrupted \cup {JobEvent(c)}
  /\ Nak(job[c])
  /\ Release(c)
  /\ UNCHANGED <<stream, inbox, running, processed>>

\* Mutation: the message is acknowledged and not recorded.
MarkProcessedForgets(c) ==
  /\ step[c] = "marking"
  /\ Settle(job[c])
  /\ Release(c)
  /\ UNCHANGED <<stream, inbox, running, recordVars>>

MarkProcessed(c) ==
  /\ step[c] = "marking"
  /\ processed' = processed \cup {JobEvent(c)}
  /\ Settle(job[c])
  /\ Release(c)
  /\ UNCHANGED <<stream, inbox, running, handled, interrupted, failed>>

\* Mutation: the message is acknowledged although its record failed.
MarkErrorAcks(c) ==
  /\ step[c] = "marking"
  /\ interrupted' = interrupted \cup {JobEvent(c)}
  /\ Settle(job[c])
  /\ Release(c)
  /\ UNCHANGED <<stream, inbox, running, processed, handled, failed>>

\* The insert reports an error (it may have committed): Nak.
MarkError(c) ==
  /\ step[c] = "marking"
  /\ processed' \in {processed, processed \cup {JobEvent(c)}}
  /\ interrupted' = interrupted \cup {JobEvent(c)}
  /\ Nak(job[c])
  /\ Release(c)
  /\ UNCHANGED <<stream, inbox, running, handled>>

\* Attempts at message i that c would take down with it.
InHand(c, i) ==
  Cardinality({d \in inbox[c] : d[1] = i}) + (IF job[c] = i THEN 1 ELSE 0)

\* c loses whatever it has buffered or is handling.
Drop(c) ==
  /\ inbox' = [inbox EXCEPT ![c] = {}]
  /\ failed' = [i \in Messages |-> failed[i] + InHand(c, i)]
  /\ Release(c)

\* messages.Next fails (connection closed, heartbeat missed): Run returns,
\* its caller drops the error, and nothing starts it again.
RunReturns(c) ==
  /\ running[c]
  /\ step[c] = "idle"
  /\ running' = [running EXCEPT ![c] = FALSE]
  /\ Drop(c)
  /\ UNCHANGED <<stream, brokerVars, processed, handled, interrupted>>

\* The process dies anywhere in handle() and is started anew; if Run cannot
\* connect or find the stream at that moment it returns at once.
RestartConsumer(c) ==
  /\ \E started \in BOOLEAN : running' = [running EXCEPT ![c] = started]
  /\ interrupted' = IF step[c] = "marking" THEN interrupted \cup {JobEvent(c)}
                                           ELSE interrupted
  /\ Drop(c)
  /\ UNCHANGED <<stream, brokerVars, processed, handled>>

-----------------------------------------------------------------------------
HandleStep(c) ==
  \/ \E d \in inbox[c] : \/ Terminate(c, d) \/ CheckError(c, d)
                         \/ AlreadyProcessed(c, d) \/ StartHandler(c, d)
  \/ HandlerReturns(c) \/ HandlerError(c)
  \/ MarkProcessed(c) \/ MarkError(c)

BrokerStep ==
  \/ \E i \in Messages : \/ AckTimeout(i) \/ LoseDelivery(i)
                         \/ \E c \in Consumers : Deliver(c, i)
  \/ Expire

ConsumerNext ==
  \/ BrokerStep
  \/ \E c \in Consumers : HandleStep(c) \/ RunReturns(c) \/ RestartConsumer(c)

\* A producer stores a message.
Arrive ==
  /\ Len(stream) < MaxMessages
  /\ \E e \in Events : stream' = Append(stream, e)
  /\ UNCHANGED consumerVars

Next == Arrive \/ ConsumerNext

Spec == Init /\ [][Next]_vars

\* Timers fire, every call inside handle() returns, and of deliveries tried
\* again and again to a loop that keeps asking one gets through; there are
\* MaxDeliver attempts only, so all may be lost.  No call has to succeed.
ConsumerFairness ==
  /\ \A i \in Messages : WF_vars(AckTimeout(i))
  /\ \A i \in Messages, c \in Consumers : SF_vars(Deliver(c, i))
  /\ \A c \in Consumers : WF_vars(HandleStep(c))

-----------------------------------------------------------------------------
\* A message is acknowledged only when its event is on record: no crash,
\* error or redelivery makes the broker forget an event nobody handled.
SettledIsProcessed ==
  \A i \in settled : stream[i] \in processed \cup Undecodable

\* An event is on record only when the handler took effect for it.
ProcessedIsHandled == \A e \in processed : handled[e] > 0

\* Message i exists and is meant for the handler.
Selected(i) == i <= Len(stream) /\ stream[i] \in Subscribed \ Undecodable

OnRecord(i) == i <= Len(stream) /\ stream[i] \in processed

\* Every attempt the broker makes at message i has been used up.
Abandoned(i) ==
  /\ delivered[i] = MaxDeliver
  /\ \A c \in Consumers : InHand(c, i) = 0

\* A selected event is given up without being on record only when each of
\* the MaxDeliver attempts failed in a loop or was lost before a loop had it.
\* An attempt that a loop has is worth its chance: a full buffer, a slow
\* handler whose ack wait passes, or a replica at work on the same event
\* takes none of them away.
AbandonedAfterFailures ==
  \A i \in Messages :
    Selected(i) /\ Abandoned(i) /\ ~OnRecord(i) => failed[i] = MaxDeliver

=============================================================================
