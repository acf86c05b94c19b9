------------------------- MODULE EventConsumerProofs -------------------------
(***************************************************************************)
(* Proofs about EventConsumer, for any number of messages and loops.       *)
(***************************************************************************)
EXTENDS EventConsumer, FiniteSetTheorems, TLAPS

(***************************************************************************)
(* The inductive invariant.  SettledIsProcessed and ProcessedIsHandled     *)
(* rest on what the loops hold: a loop that is about to record an event    *)
(* has seen its handler take effect, and everything in a buffer or in hand *)
(* is a message of the stream, whose event later messages never change.    *)
(***************************************************************************)
InboxIsStored == \A c \in Consumers : \A d \in inbox[c] : d[1] \in DOMAIN stream

JobIsStored == \A c \in Consumers : step[c] # "idle" => job[c] \in DOMAIN stream

MarkingIsHandled ==
  \A c \in Consumers : step[c] = "marking" => handled[JobEvent(c)] > 0

SettledIsStored == settled \subseteq DOMAIN stream

ConsumerInv ==
  /\ TypeOK
  /\ InboxIsStored
  /\ JobIsStored
  /\ MarkingIsHandled
  /\ SettledIsStored
  /\ SettledIsProcessed
  /\ ProcessedIsHandled

\* The stream grows at its end.
Grows ==
  /\ stream' \in Seq(Events)
  /\ Len(stream) <= Len(stream')
  /\ \A i \in DOMAIN stream : stream'[i] = stream[i]

-----------------------------------------------------------------------------
LEMMA ConsumerInvInit ==
  ASSUME stream \in Seq(Events), ConsumerInit
  PROVE  ConsumerInv
<1>1. TypeOK
  BY ConsumerAssumption DEF ConsumerInit, TypeOK
<1> QED
  BY <1>1 DEF ConsumerInv, ConsumerInit, InboxIsStored, JobIsStored, MarkingIsHandled,
       SettledIsStored, SettledIsProcessed, ProcessedIsHandled

\* New messages disturb nothing.
LEMMA GrowthPreservesInv ==
  ASSUME ConsumerInv, Grows, UNCHANGED consumerVars
  PROVE  ConsumerInv'
<1> USE DEF ConsumerInv, consumerVars, brokerVars, loopVars, recordVars
<1>1. /\ DOMAIN stream = 1 .. Len(stream) /\ DOMAIN stream' = 1 .. Len(stream')
      /\ Len(stream) \in Nat /\ Len(stream') \in Nat
  BY DEF Grows, TypeOK
<1>2. \A i \in DOMAIN stream : i \in DOMAIN stream' /\ stream'[i] = stream[i]
  BY <1>1 DEF Grows
<1>3. TypeOK'
  BY <1>1 DEF Grows, TypeOK
<1>4. InboxIsStored' /\ JobIsStored' /\ SettledIsStored'
  BY <1>2 DEF InboxIsStored, JobIsStored, SettledIsStored
<1>5. MarkingIsHandled'
  BY <1>2 DEF MarkingIsHandled, JobIsStored, JobEvent
<1>6. SettledIsProcessed'
  BY <1>2 DEF SettledIsProcessed, SettledIsStored
<1>7. ProcessedIsHandled'
  BY DEF ProcessedIsHandled
<1> QED BY <1>3, <1>4, <1>5, <1>6, <1>7

-----------------------------------------------------------------------------
LEMMA InHandType ==
  ASSUME TypeOK, NEW c \in Consumers, NEW i \in Messages
  PROVE  InHand(c, i) \in Nat
<1>1. IsFiniteSet(1 .. MaxMessages) /\ IsFiniteSet(1 .. MaxDeliver)
  BY ConsumerAssumption, FS_Interval
<1>2. IsFiniteSet(Deliveries)
  BY <1>1, FS_Product DEF Deliveries, Messages
<1>3. {d \in inbox[c] : d[1] = i} \subseteq Deliveries
  BY DEF TypeOK
<1>4. Cardinality({d \in inbox[c] : d[1] = i}) \in Nat
  BY <1>2, <1>3, FS_Subset, FS_CardinalityType
<1> QED BY <1>4 DEF InHand

\* What taking a delivery out of the buffer leaves in place.
LEMMA TakeEffect ==
  ASSUME ConsumerInv, NEW c \in Consumers, NEW d, Take(c, d)
  PROVE  /\ d \in Deliveries /\ d[1] \in Messages /\ d[1] \in DOMAIN stream
         /\ inbox' \in [Consumers -> SUBSET Deliveries]
         /\ InboxIsStored'
         /\ UNCHANGED <<stream, running>>
<1>1. d \in Deliveries /\ d[1] \in DOMAIN stream
  BY DEF Take, ConsumerInv, TypeOK, InboxIsStored
<1>2. d[1] \in Messages
  BY <1>1 DEF Deliveries
<1> QED BY <1>1, <1>2 DEF Take, ConsumerInv, TypeOK, InboxIsStored

LEMMA BrokerTypeStep == TypeOK /\ BrokerStep => TypeOK'
<1> SUFFICES ASSUME TypeOK, BrokerStep PROVE TypeOK'
  OBVIOUS
<1> USE ConsumerAssumption DEF TypeOK, Messages, Deliveries, loopVars, recordVars
<1>1. ASSUME NEW i \in Messages, AckTimeout(i) PROVE TypeOK'
  BY <1>1 DEF AckTimeout
<1>2. ASSUME NEW i \in Messages, NEW c \in Consumers, Deliver(c, i) PROVE TypeOK'
  <2>1. delivered[i] \in 0 .. MaxDeliver /\ delivered[i] < MaxDeliver
    BY <1>2 DEF Deliver, Due
  <2>2. delivered[i] + 1 \in 1 .. MaxDeliver
    BY <2>1
  <2>3. delivered' \in [Messages -> 0 .. MaxDeliver]
    BY <1>2, <2>2 DEF Deliver
  <2>4. inbox' \in [Consumers -> SUBSET Deliveries]
    BY <1>2, <2>2 DEF Deliver
  <2>5. /\ outstanding' = outstanding \cup {i}
        /\ UNCHANGED <<stream, floor, settled, step, job, running, recordVars>>
    BY <1>2 DEF Deliver
  <2> QED BY <2>3, <2>4, <2>5
<1>3. ASSUME NEW i \in Messages, LoseDelivery(i) PROVE TypeOK'
  <2>1. delivered[i] \in 0 .. MaxDeliver /\ delivered[i] < MaxDeliver /\ failed[i] \in Nat
    BY <1>3 DEF LoseDelivery, Due
  <2>2. delivered[i] + 1 \in 0 .. MaxDeliver /\ failed[i] + 1 \in Nat
    BY <2>1
  <2>3. /\ delivered' \in [Messages -> 0 .. MaxDeliver]
        /\ failed' \in [Messages -> Nat]
    BY <1>3, <2>2 DEF LoseDelivery
  <2>4. /\ outstanding' = outstanding \cup {i}
        /\ UNCHANGED <<stream, floor, settled, loopVars, processed, handled, interrupted>>
    BY <1>3 DEF LoseDelivery
  <2> QED BY <2>3, <2>4
<1>4. CASE Expire
  <2>1. /\ floor' = floor + 1 /\ floor < Len(stream) /\ Len(stream) \in Nat
        /\ UNCHANGED <<stream, delivered, outstanding, settled, loopVars, recordVars>>
    BY <1>4 DEF Expire
  <2>2. floor' \in Nat /\ floor' <= Len(stream)
    BY <2>1
  <2> QED BY <2>1, <2>2
<1> QED BY <1>1, <1>2, <1>3, <1>4 DEF BrokerStep

LEMMA HandleTypeStep ==
  ASSUME ConsumerInv, NEW c \in Consumers, HandleStep(c)
  PROVE  TypeOK'
<1> USE DEF ConsumerInv
<1>1. ASSUME NEW d \in inbox[c], Terminate(c, d) \/ AlreadyProcessed(c, d) PROVE TypeOK'
  <2>1. Take(c, d) /\ Settle(d[1]) /\ UNCHANGED <<step, job, recordVars>>
    BY <1>1 DEF Terminate, AlreadyProcessed
  <2>2. d[1] \in Messages /\ inbox' \in [Consumers -> SUBSET Deliveries]
    BY <2>1, TakeEffect
  <2> QED BY <2>1, <2>2 DEF Take, Settle, TypeOK, recordVars
<1>2. ASSUME NEW d \in inbox[c], CheckError(c, d) PROVE TypeOK'
  <2>1. Take(c, d) /\ Nak(d[1]) /\ UNCHANGED <<step, job, processed, handled, interrupted>>
    BY <1>2 DEF CheckError
  <2>2. d[1] \in Messages /\ inbox' \in [Consumers -> SUBSET Deliveries]
    BY <2>1, TakeEffect
  <2>3. failed' \in [Messages -> Nat]
    BY <2>1, <2>2 DEF Nak, TypeOK
  <2> QED BY <2>1, <2>2, <2>3 DEF Take, Nak, TypeOK
<1>3. ASSUME NEW d \in inbox[c], StartHandler(c, d) PROVE TypeOK'
  <2>1. /\ Take(c, d)
        /\ step' = [step EXCEPT ![c] = "handling"]
        /\ job' = [job EXCEPT ![c] = d[1]]
        /\ UNCHANGED <<brokerVars, recordVars>>
    BY <1>3 DEF StartHandler
  <2>2. d[1] \in Messages /\ inbox' \in [Consumers -> SUBSET Deliveries]
    BY <2>1, TakeEffect
  <2>3. \A b \in Consumers : step'[b] = "idle" <=> job'[b] = 0
    BY <2>1, <2>2, ConsumerAssumption DEF TypeOK, Messages
  <2> QED BY <2>1, <2>2, <2>3 DEF Take, TypeOK, brokerVars, recordVars
<1>4. step[c] # "idle" => job[c] \in Messages /\ JobEvent(c) \in Events
  BY DEF TypeOK, JobIsStored, JobEvent
<1>5. CASE HandlerReturns(c)
  BY <1>4, <1>5 DEF HandlerReturns, TypeOK, brokerVars
<1>6. CASE HandlerError(c) \/ MarkProcessed(c) \/ MarkError(c)
  <2>1. /\ step[c] # "idle" /\ Release(c) /\ UNCHANGED <<stream, inbox, running>>
        /\ Nak(job[c]) \/ (Settle(job[c]) /\ UNCHANGED failed)
    BY <1>6 DEF HandlerError, MarkProcessed, MarkError
  <2>2. /\ UNCHANGED <<floor, delivered>>
        /\ outstanding' \in SUBSET Messages
        /\ settled' \in SUBSET Messages
        /\ failed' \in [Messages -> Nat]
    <3>1. CASE Nak(job[c])
      BY <1>4, <2>1, <3>1 DEF Nak, TypeOK
    <3>2. CASE Settle(job[c]) /\ UNCHANGED failed
      BY <1>4, <2>1, <3>2 DEF Settle, TypeOK
    <3> QED BY <2>1, <3>1, <3>2
  <2>3. /\ processed' \in SUBSET Events
        /\ handled' \in [Events -> Nat]
        /\ interrupted' \in SUBSET Events
    <3>1. JobEvent(c) \in Events
      BY <1>4, <2>1
    <3>2. CASE HandlerError(c)
      <4>1. /\ processed' = processed
            /\ \/ UNCHANGED <<handled, interrupted>>
               \/ /\ handled' = [handled EXCEPT ![JobEvent(c)] = @ + 1]
                  /\ interrupted' = interrupted \cup {JobEvent(c)}
        BY <3>2 DEF HandlerError
      <4>2. CASE UNCHANGED <<handled, interrupted>>
        BY <4>1, <4>2 DEF TypeOK
      <4>3. CASE /\ handled' = [handled EXCEPT ![JobEvent(c)] = @ + 1]
                 /\ interrupted' = interrupted \cup {JobEvent(c)}
        BY <3>1, <4>1, <4>3 DEF TypeOK
      <4> QED BY <4>1, <4>2, <4>3
    <3>3. CASE MarkProcessed(c) \/ MarkError(c)
      <4>1. handled' = handled
        BY <3>3 DEF MarkProcessed, MarkError
      <4>2. processed' \in {processed, processed \cup {JobEvent(c)}}
        BY <3>3 DEF MarkProcessed, MarkError
      <4>3. interrupted' \in {interrupted, interrupted \cup {JobEvent(c)}}
        BY <3>3 DEF MarkProcessed, MarkError
      <4> QED BY <3>1, <4>1, <4>2, <4>3 DEF TypeOK
    <3> QED BY <1>6, <3>2, <3>3
  <2>4. /\ step' \in [Consumers -> {"idle", "handling", "marking"}]
        /\ job' \in [Consumers -> Messages \cup {0}]
        /\ \A b \in Consumers : step'[b] = "idle" <=> job'[b] = 0
    BY <2>1 DEF Release, TypeOK
  <2> QED BY <2>1, <2>2, <2>3, <2>4 DEF TypeOK
<1> QED BY <1>1, <1>2, <1>3, <1>5, <1>6 DEF HandleStep

LEMMA DropTypeStep ==
  ASSUME ConsumerInv, NEW c \in Consumers, RunReturns(c) \/ RestartConsumer(c)
  PROVE  TypeOK'
<1>1. /\ Drop(c) /\ UNCHANGED <<stream, brokerVars, processed, handled>>
      /\ running' \in [Consumers -> BOOLEAN]
  BY DEF RunReturns, RestartConsumer, ConsumerInv, TypeOK
<1>2. failed' \in [Messages -> Nat]
  BY <1>1, InHandType DEF Drop, ConsumerInv, TypeOK
<1>3. interrupted' \in SUBSET Events
  BY DEF RunReturns, RestartConsumer, ConsumerInv, TypeOK, JobIsStored, JobEvent
<1>4. /\ inbox' \in [Consumers -> SUBSET Deliveries]
      /\ step' \in [Consumers -> {"idle", "handling", "marking"}]
      /\ job' \in [Consumers -> Messages \cup {0}]
      /\ \A b \in Consumers : step'[b] = "idle" <=> job'[b] = 0
  BY <1>1 DEF Drop, Release, ConsumerInv, TypeOK
<1> QED BY <1>1, <1>2, <1>3, <1>4 DEF ConsumerInv, TypeOK, brokerVars

-----------------------------------------------------------------------------
\* Steps of the broker: what loops hold stays in the stream, and nothing is
\* settled or recorded.
LEMMA BrokerPreservesInv == ConsumerInv /\ BrokerStep => ConsumerInv'
<1> SUFFICES ASSUME ConsumerInv, BrokerStep PROVE ConsumerInv'
  OBVIOUS
<1>1. TypeOK'
  BY BrokerTypeStep DEF ConsumerInv
<1>2. UNCHANGED <<stream, settled, step, job, processed, handled, interrupted>>
  BY DEF BrokerStep, AckTimeout, Deliver, LoseDelivery, Expire, loopVars, recordVars
<1>3. InboxIsStored'
  <2>1. CASE UNCHANGED inbox
    BY <1>2, <2>1 DEF ConsumerInv, InboxIsStored
  <2>2. ASSUME NEW c \in Consumers, NEW i \in Messages, Deliver(c, i)
        PROVE  InboxIsStored'
    <3>1. i \in DOMAIN stream
      BY <2>2 DEF Deliver, Due, ConsumerInv, TypeOK
    <3>2. inbox' = [inbox EXCEPT ![c] = @ \cup {<<i, delivered[i] + 1>>}]
      BY <2>2 DEF Deliver
    <3> QED BY <1>2, <3>1, <3>2 DEF ConsumerInv, InboxIsStored, TypeOK
  <2>3. UNCHANGED inbox \/ \E i \in Messages, c \in Consumers : Deliver(c, i)
    BY DEF BrokerStep, AckTimeout, LoseDelivery, Expire, loopVars
  <2> QED BY <2>1, <2>2, <2>3
<1> QED
  BY <1>1, <1>2, <1>3 DEF ConsumerInv, JobIsStored, MarkingIsHandled, JobEvent,
       SettledIsStored, SettledIsProcessed, ProcessedIsHandled

\* Taking a delivery and answering it from the table or the decoder.
LEMMA TakePreservesInv ==
  ASSUME ConsumerInv, TypeOK', NEW c \in Consumers, NEW d \in inbox[c],
         \/ Terminate(c, d) \/ CheckError(c, d)
         \/ AlreadyProcessed(c, d) \/ StartHandler(c, d)
  PROVE  ConsumerInv'
<1> USE DEF ConsumerInv
<1>1. Take(c, d) /\ UNCHANGED <<stream, processed, handled, interrupted>>
  BY DEF Terminate, CheckError, AlreadyProcessed, StartHandler, Take, recordVars
<1>2. d[1] \in DOMAIN stream /\ InboxIsStored'
  BY <1>1, TakeEffect
<1>3. \/ settled' = settled
      \/ settled' = settled \cup {d[1]} /\ stream[d[1]] \in processed \cup Undecodable
  BY DEF Terminate, CheckError, AlreadyProcessed, StartHandler, Settle, Nak, brokerVars
<1>4. SettledIsStored'
  BY <1>1, <1>2, <1>3 DEF SettledIsStored
<1>5. SettledIsProcessed'
  BY <1>1, <1>3 DEF SettledIsProcessed
<1>6. ProcessedIsHandled'
  BY <1>1 DEF ProcessedIsHandled
<1>7. \/ UNCHANGED <<step, job>>
      \/ /\ step' = [step EXCEPT ![c] = "handling"]
         /\ job' = [job EXCEPT ![c] = d[1]]
  BY DEF Terminate, CheckError, AlreadyProcessed, StartHandler
<1>8. JobIsStored'
  BY <1>1, <1>2, <1>7 DEF JobIsStored, TypeOK
<1>9. MarkingIsHandled'
  BY <1>1, <1>7 DEF MarkingIsHandled, JobEvent, TypeOK
<1> QED BY <1>2, <1>4, <1>5, <1>6, <1>8, <1>9

\* The handler call and its record.
LEMMA JobPreservesInv ==
  ASSUME ConsumerInv, TypeOK', NEW c \in Consumers,
         HandlerReturns(c) \/ HandlerError(c) \/ MarkProcessed(c) \/ MarkError(c)
  PROVE  ConsumerInv'
<1> USE DEF ConsumerInv
<1>1. /\ step[c] # "idle" /\ job[c] \in DOMAIN stream
      /\ UNCHANGED <<stream, inbox>>
  BY DEF HandlerReturns, HandlerError, MarkProcessed, MarkError, JobIsStored
<1>2. JobEvent(c) \in Events
  BY <1>1 DEF JobEvent, TypeOK
<1>3. InboxIsStored'
  BY <1>1 DEF InboxIsStored
<1>4. \A e \in Events : handled[e] > 0 => handled'[e] > 0
  <2>1. handled' = handled \/ handled' = [handled EXCEPT ![JobEvent(c)] = @ + 1]
    BY DEF HandlerReturns, HandlerError, MarkProcessed, MarkError
  <2>2. CASE handled' = handled
    BY <2>2
  <2>3. CASE handled' = [handled EXCEPT ![JobEvent(c)] = @ + 1]
    BY <1>2, <2>3 DEF TypeOK
  <2> QED BY <2>1, <2>2, <2>3
<1>5. \/ job' = job /\ step' = [step EXCEPT ![c] = "marking"] /\ HandlerReturns(c)
      \/ Release(c)
  BY DEF HandlerReturns, HandlerError, MarkProcessed, MarkError
<1>6. JobIsStored'
  BY <1>1, <1>5 DEF JobIsStored, Release, TypeOK
<1>7. MarkingIsHandled'
  <2> SUFFICES ASSUME NEW b \in Consumers, step'[b] = "marking"
               PROVE  handled'[JobEvent(b)'] > 0
    BY DEF MarkingIsHandled
  <2>1. CASE b # c
    <3>1. step[b] = "marking" /\ JobEvent(b)' = JobEvent(b)
      BY <1>1, <1>5, <2>1 DEF Release, JobEvent, TypeOK
    <3>2. JobEvent(b) \in Events /\ handled[JobEvent(b)] > 0
      BY <3>1 DEF MarkingIsHandled, JobIsStored, JobEvent, TypeOK
    <3> QED BY <1>4, <3>1, <3>2
  <2>2. CASE b = c
    <3>1. HandlerReturns(c) /\ job' = job
      BY <1>5, <2>2 DEF Release, TypeOK
    <3>2. JobEvent(c)' = JobEvent(c) /\ handled'[JobEvent(c)] = handled[JobEvent(c)] + 1
      BY <1>1, <1>2, <3>1 DEF HandlerReturns, JobEvent, TypeOK
    <3> QED BY <1>2, <2>2, <3>2 DEF TypeOK
  <2> QED BY <2>1, <2>2
<1>8. /\ settled \subseteq settled' /\ processed \subseteq processed'
      /\ settled' \subseteq settled \cup {job[c]}
      /\ processed' \subseteq processed \cup {JobEvent(c)}
      /\ settled' # settled => processed' = processed \cup {JobEvent(c)}
      /\ processed' # processed => step[c] = "marking" /\ handled' = handled
  <2>1. CASE HandlerReturns(c)
    BY <2>1 DEF HandlerReturns, brokerVars
  <2>2. CASE HandlerError(c)
    BY <2>2 DEF HandlerError, Nak
  <2>3. CASE MarkProcessed(c)
    BY <2>3 DEF MarkProcessed, Settle
  <2>4. CASE MarkError(c)
    <3>1. processed' \in {processed, processed \cup {JobEvent(c)}}
      BY <2>4 DEF MarkError
    <3>2. step[c] = "marking" /\ settled' = settled /\ handled' = handled
      BY <2>4 DEF MarkError, Nak
    <3> QED BY <3>1, <3>2
  <2> QED BY <2>1, <2>2, <2>3, <2>4
<1>9. SettledIsStored' /\ SettledIsProcessed'
  BY <1>1, <1>8 DEF SettledIsStored, SettledIsProcessed, JobEvent
<1>10. ProcessedIsHandled'
  BY <1>4, <1>8 DEF ProcessedIsHandled, MarkingIsHandled, TypeOK
<1> QED BY <1>3, <1>6, <1>7, <1>9, <1>10

\* A loop that ends or dies gives back everything it held.
LEMMA DropPreservesInv ==
  ASSUME ConsumerInv, TypeOK', NEW c \in Consumers, RunReturns(c) \/ RestartConsumer(c)
  PROVE  ConsumerInv'
<1>1. Drop(c) /\ UNCHANGED <<stream, settled, processed, handled>>
  BY DEF RunReturns, RestartConsumer, brokerVars
<1>2. InboxIsStored' /\ JobIsStored' /\ MarkingIsHandled'
  BY <1>1 DEF Drop, Release, ConsumerInv, InboxIsStored, JobIsStored, MarkingIsHandled,
              JobEvent, TypeOK
<1> QED
  BY <1>1, <1>2 DEF ConsumerInv, SettledIsStored, SettledIsProcessed, ProcessedIsHandled

LEMMA ConsumerStepPreservesInv == ConsumerInv /\ ConsumerNext => ConsumerInv'
<1> SUFFICES ASSUME ConsumerInv, ConsumerNext PROVE ConsumerInv'
  OBVIOUS
<1>1. ASSUME NEW c \in Consumers, HandleStep(c) PROVE ConsumerInv'
  <2>1. TypeOK'
    BY <1>1, HandleTypeStep
  <2> QED BY <1>1, <2>1, TakePreservesInv, JobPreservesInv DEF HandleStep
<1>2. ASSUME NEW c \in Consumers, RunReturns(c) \/ RestartConsumer(c) PROVE ConsumerInv'
  BY <1>2, DropTypeStep, DropPreservesInv
<1> QED BY <1>1, <1>2, BrokerPreservesInv DEF ConsumerNext

LEMMA InvStep == ConsumerInv /\ [Next]_vars => ConsumerInv'
<1> SUFFICES ASSUME ConsumerInv, [Next]_vars PROVE ConsumerInv'
  OBVIOUS
<1>1. CASE Arrive
  <2>1. PICK e \in Events : stream' = Append(stream, e)
    BY <1>1 DEF Arrive
  <2>2. Grows
    BY <2>1 DEF Grows, ConsumerInv, TypeOK
  <2> QED BY <1>1, <2>2, GrowthPreservesInv DEF Arrive
<1>2. CASE UNCHANGED vars
  <2>1. Grows /\ UNCHANGED consumerVars
    BY <1>2 DEF vars, Grows, ConsumerInv, TypeOK
  <2> QED BY <2>1, GrowthPreservesInv
<1> QED BY <1>1, <1>2, ConsumerStepPreservesInv DEF Next

\* The inductive invariant holds however the stream grows.
THEOREM InvCorrect == Spec => []ConsumerInv
<1>1. Init => ConsumerInv
  BY ConsumerInvInit DEF Init
<1> QED BY <1>1, InvStep, PTL DEF Spec

\* No message is acknowledged before its event is on record (or is known to
\* be undecodable), for any number of loops, messages and attempts.
THEOREM NoEarlyAck == Spec => []SettledIsProcessed
BY InvCorrect, PTL DEF ConsumerInv

\* No event is put on record without an effect of its handler.
THEOREM NoEmptyRecord == Spec => []ProcessedIsHandled
BY InvCorrect, PTL DEF ConsumerInv

-----------------------------------------------------------------------------
(***************************************************************************)
(* Every attempt is accounted for.  AbandonedAfterFailures counts what the *)
(* loops hold, but Consumers may be any set, so nothing can be summed over *)
(* it; instead the attempts at message i that are still open are two sets, *)
(* the deliveries of i in anybody's buffer and the loops handling i.  That *)
(* their sizes add up needs attempts to differ: a delivery is in one       *)
(* buffer only, and a new one has a number never used before.              *)
(***************************************************************************)
Buffered(i) == {d \in Deliveries : d[1] = i /\ \E c \in Consumers : d \in inbox[c]}

Handling(i) == {c \in Consumers : job[c] = i}

\* Nothing can be lost any more with message i.
Excused(i) == i \in DOMAIN stream /\ stream[i] \in processed \cup Undecodable

OneHolder == \A b, c \in Consumers : \A d \in inbox[b] : d \in inbox[c] => b = c

AttemptIsMade == \A c \in Consumers : \A d \in inbox[c] : d[2] <= delivered[d[1]]

HandlingIsFinite == \A i \in Messages : IsFiniteSet(Handling(i))

Accounted(i) == delivered[i] = failed[i] + Cardinality(Buffered(i)) + Cardinality(Handling(i))

AttemptsInv ==
  /\ OneHolder
  /\ AttemptIsMade
  /\ HandlingIsFinite
  /\ \A i \in Messages : Excused(i) \/ Accounted(i)

LEMMA AttemptsInit == ConsumerInit => AttemptsInv
<1> SUFFICES ASSUME ConsumerInit PROVE AttemptsInv
  OBVIOUS
<1>1. OneHolder /\ AttemptIsMade
  BY DEF ConsumerInit, OneHolder, AttemptIsMade
<1>2. \A i \in Messages : Buffered(i) = {} /\ Handling(i) = {}
  BY ConsumerAssumption DEF ConsumerInit, Buffered, Handling, Messages
<1>3. HandlingIsFinite
  BY <1>2, FS_EmptySet DEF HandlingIsFinite
<1>4. \A i \in Messages : Accounted(i)
  BY <1>2, FS_EmptySet DEF ConsumerInit, Accounted
<1> QED BY <1>1, <1>3, <1>4 DEF AttemptsInv

LEMMA OpenAttemptsFinite ==
  ASSUME TypeOK, HandlingIsFinite, NEW i \in Messages
  PROVE  /\ IsFiniteSet(Buffered(i)) /\ Cardinality(Buffered(i)) \in Nat
         /\ IsFiniteSet(Handling(i)) /\ Cardinality(Handling(i)) \in Nat
         /\ delivered[i] \in Nat /\ failed[i] \in Nat
<1>1. IsFiniteSet(1 .. MaxMessages) /\ IsFiniteSet(1 .. MaxDeliver)
  BY ConsumerAssumption, FS_Interval
<1>2. IsFiniteSet(Deliveries)
  BY <1>1, FS_Product DEF Deliveries, Messages
<1>3. IsFiniteSet(Buffered(i))
  BY <1>2, FS_Subset DEF Buffered
<1> QED
  BY <1>3, FS_CardinalityType, ConsumerAssumption DEF HandlingIsFinite, TypeOK

\* New messages leave every attempt where it is.
LEMMA GrowthPreservesAttempts ==
  ASSUME ConsumerInv, AttemptsInv, Grows, UNCHANGED consumerVars
  PROVE  AttemptsInv'
<1> USE DEF consumerVars, brokerVars, loopVars, recordVars
<1>1. \A i \in Messages : Buffered(i)' = Buffered(i) /\ Handling(i)' = Handling(i)
  BY DEF Buffered, Handling
<1>2. \A i \in Messages : Excused(i) => Excused(i)'
  BY DEF Excused, Grows, ConsumerInv, TypeOK
<1>3. \A i \in Messages : Accounted(i) => Accounted(i)'
  BY <1>1 DEF Accounted
<1>4. OneHolder' /\ AttemptIsMade' /\ HandlingIsFinite'
  BY <1>1 DEF AttemptsInv, OneHolder, AttemptIsMade, HandlingIsFinite
<1> QED BY <1>2, <1>3, <1>4 DEF AttemptsInv

\* A step that takes nothing from anyone's buffer or hands.
LEMMA AttemptsUnchanged ==
  ASSUME ConsumerInv, AttemptsInv, processed \subseteq processed',
         UNCHANGED <<stream, inbox, job, delivered, failed>>
  PROVE  AttemptsInv'
<1>1. \A i \in Messages : Buffered(i)' = Buffered(i) /\ Handling(i)' = Handling(i)
  BY DEF Buffered, Handling
<1>2. \A i \in Messages : Excused(i) => Excused(i)'
  BY DEF Excused
<1>3. \A i \in Messages : Accounted(i) => Accounted(i)'
  BY <1>1 DEF Accounted
<1>4. OneHolder' /\ AttemptIsMade' /\ HandlingIsFinite'
  BY <1>1 DEF AttemptsInv, OneHolder, AttemptIsMade, HandlingIsFinite
<1> QED BY <1>2, <1>3, <1>4 DEF AttemptsInv

LEMMA DeliverPreservesAttempts ==
  ASSUME ConsumerInv, AttemptsInv, NEW c \in Consumers, NEW i \in Messages, Deliver(c, i)
  PROVE  AttemptsInv'
<1> DEFINE d == <<i, delivered[i] + 1>>
<1>1. /\ delivered' = [delivered EXCEPT ![i] = @ + 1]
      /\ inbox' = [inbox EXCEPT ![c] = @ \cup {d}]
      /\ UNCHANGED <<stream, job, processed, failed>>
      /\ delivered[i] < MaxDeliver
  BY DEF Deliver, Due, recordVars
<1>2. delivered[i] \in 0 .. MaxDeliver /\ d \in Deliveries
  BY <1>1, ConsumerAssumption DEF ConsumerInv, TypeOK, Deliveries
<1>3. \A b \in Consumers : d \notin inbox[b]
  <2> SUFFICES ASSUME NEW b \in Consumers, d \in inbox[b] PROVE FALSE
    OBVIOUS
  <2>1. d[2] <= delivered[d[1]]
    BY DEF AttemptsInv, AttemptIsMade
  <2> QED BY <1>2, <2>1
<1>4. \A b \in Consumers : inbox'[b] = IF b = c THEN inbox[b] \cup {d} ELSE inbox[b]
  BY <1>1 DEF ConsumerInv, TypeOK
<1>5. \A k \in Messages : Handling(k)' = Handling(k)
  BY <1>1 DEF Handling
<1>6. OneHolder'
  BY <1>3, <1>4 DEF AttemptsInv, OneHolder
<1>7. AttemptIsMade'
  <2> SUFFICES ASSUME NEW b \in Consumers, NEW x \in inbox'[b]
               PROVE  x[2] <= delivered'[x[1]]
    BY DEF AttemptIsMade
  <2>1. \A k \in Messages : delivered[k] \in Nat /\ delivered[k] <= delivered'[k]
    BY <1>1, ConsumerAssumption DEF ConsumerInv, TypeOK
  <2>2. CASE x \in inbox[b]
    <3>1. x \in Deliveries /\ x[2] <= delivered[x[1]]
      BY <2>2 DEF AttemptsInv, AttemptIsMade, ConsumerInv, TypeOK
    <3>2. x[1] \in Messages /\ x[2] \in Nat
      BY <3>1 DEF Deliveries
    <3> QED BY <1>1, <2>1, <3>1, <3>2, ConsumerAssumption DEF ConsumerInv, TypeOK
  <2>3. CASE x = d
    BY <1>1, <1>2, <2>3 DEF ConsumerInv, TypeOK
  <2> QED BY <1>4, <2>2, <2>3
<1>8. HandlingIsFinite'
  BY <1>5 DEF AttemptsInv, HandlingIsFinite
<1>9. ASSUME NEW k \in Messages PROVE Excused(k)' \/ Accounted(k)'
  <2>1. CASE Excused(k)
    BY <1>1, <2>1 DEF Excused
  <2>2. CASE Accounted(k) /\ k # i
    <3>1. Buffered(k)' = Buffered(k)
      <4>1. \A x : x[1] = k => x # d
        BY <2>2
      <4>2. \A x \in Deliveries : x[1] = k =>
              ((\E b \in Consumers : x \in inbox'[b]) <=> (\E b \in Consumers : x \in inbox[b]))
        BY <1>4, <4>1
      <4> QED BY <4>2 DEF Buffered, Deliveries, Messages
    <3>2. delivered'[k] = delivered[k]
      BY <1>1, <2>2 DEF ConsumerInv, TypeOK
    <3> QED BY <1>1, <1>5, <2>2, <3>1, <3>2 DEF Accounted
  <2>3. CASE Accounted(k) /\ k = i
    <3>1. Buffered(k)' = Buffered(k) \cup {d}
      <4>1. d[1] = k
        BY <2>3
      <4>2. \A x \in Deliveries :
              (\E b \in Consumers : x \in inbox'[b]) <=> x = d \/ \E b \in Consumers : x \in inbox[b]
        BY <1>4
      <4> HIDE DEF d
      <4> QED BY <1>2, <4>1, <4>2 DEF Buffered, Deliveries, Messages
    <3>2. d \notin Buffered(k)
      BY <1>3 DEF Buffered
    <3>3. Cardinality(Buffered(k)') = Cardinality(Buffered(k)) + 1
      BY <3>1, <3>2, OpenAttemptsFinite, FS_AddElement DEF ConsumerInv, AttemptsInv
    <3>4. delivered'[k] = delivered[k] + 1
      BY <1>1, <2>3 DEF ConsumerInv, TypeOK
    <3>5. Cardinality(Buffered(k)) \in Nat /\ Cardinality(Handling(k)) \in Nat /\ failed[k] \in Nat
      BY OpenAttemptsFinite DEF ConsumerInv, AttemptsInv
    <3>6. Accounted(k)' <=>
            delivered'[k] = failed'[k] + Cardinality(Buffered(k)') + Cardinality(Handling(k)')
      BY DEF Accounted
    <3> QED BY <1>1, <1>5, <2>3, <3>3, <3>4, <3>5, <3>6 DEF Accounted
  <2> QED BY <2>1, <2>2, <2>3 DEF AttemptsInv
<1> QED BY <1>6, <1>7, <1>8, <1>9 DEF AttemptsInv

\* An attempt that is lost on its way is made and spent in one step.
LEMMA LossPreservesAttempts ==
  ASSUME ConsumerInv, AttemptsInv, NEW i \in Messages, LoseDelivery(i)
  PROVE  AttemptsInv'
<1>1. /\ delivered' = [delivered EXCEPT ![i] = @ + 1]
      /\ failed' = [failed EXCEPT ![i] = @ + 1]
      /\ UNCHANGED <<stream, inbox, job, processed>>
  BY DEF LoseDelivery, loopVars
<1>2. \A k \in Messages : Buffered(k)' = Buffered(k) /\ Handling(k)' = Handling(k)
  BY <1>1 DEF Buffered, Handling
<1>3. \A k \in Messages :
        /\ delivered[k] \in Nat /\ failed[k] \in Nat
        /\ Cardinality(Buffered(k)) \in Nat /\ Cardinality(Handling(k)) \in Nat
        /\ delivered'[k] = IF k = i THEN delivered[k] + 1 ELSE delivered[k]
        /\ failed'[k] = IF k = i THEN failed[k] + 1 ELSE failed[k]
  BY <1>1, OpenAttemptsFinite DEF ConsumerInv, TypeOK, AttemptsInv
<1>4. AttemptIsMade'
  <2> SUFFICES ASSUME NEW b \in Consumers, NEW x \in inbox[b]
               PROVE  x[2] <= delivered'[x[1]]
    BY <1>1 DEF AttemptIsMade
  <2>1. x[1] \in Messages /\ x[2] \in Nat /\ x[2] <= delivered[x[1]]
    BY DEF AttemptsInv, AttemptIsMade, ConsumerInv, TypeOK, Deliveries
  <2> QED BY <1>3, <2>1
<1>5. \A k \in Messages : Excused(k) => Excused(k)'
  BY <1>1 DEF Excused
<1>6. \A k \in Messages : Accounted(k) => Accounted(k)'
  <2> SUFFICES ASSUME NEW k \in Messages, Accounted(k) PROVE Accounted(k)'
    OBVIOUS
  <2>1. delivered'[k] = failed'[k] + Cardinality(Buffered(k)) + Cardinality(Handling(k))
    BY <1>3 DEF Accounted
  <2> QED BY <1>2, <2>1 DEF Accounted
<1>7. OneHolder' /\ HandlingIsFinite'
  BY <1>1, <1>2 DEF AttemptsInv, OneHolder, HandlingIsFinite
<1> QED BY <1>4, <1>5, <1>6, <1>7 DEF AttemptsInv

\* c has taken delivery d out of its buffer: nobody else has it, and the
\* attempt it was is open no longer.
LEMMA TakenAttempt ==
  ASSUME ConsumerInv, AttemptsInv, NEW c \in Consumers, NEW d \in inbox[c], Take(c, d)
  PROVE  /\ d[1] \in Messages
         /\ Cardinality(Buffered(d[1])') = Cardinality(Buffered(d[1])) - 1
         /\ \A k \in Messages : k # d[1] => Buffered(k)' = Buffered(k)
         /\ OneHolder'
         /\ UNCHANGED delivered => AttemptIsMade'
<1>1. d \in Deliveries /\ d[1] \in Messages
  BY TakeEffect
<1>2. \A b \in Consumers : inbox'[b] = IF b = c THEN inbox[b] \ {d} ELSE inbox[b]
  BY DEF Take, ConsumerInv, TypeOK
<1>3. \A b \in Consumers : b # c => d \notin inbox[b]
  BY DEF AttemptsInv, OneHolder
<1>4. \A x : (\E b \in Consumers : x \in inbox'[b]) <=>
             x # d /\ \E b \in Consumers : x \in inbox[b]
  BY <1>2, <1>3
<1>5. Buffered(d[1])' = Buffered(d[1]) \ {d} /\ d \in Buffered(d[1])
  BY <1>1, <1>4 DEF Buffered, Deliveries, Messages
<1>6. \A k \in Messages : k # d[1] => Buffered(k)' = Buffered(k)
  BY <1>4 DEF Buffered, Deliveries, Messages
<1>7. Cardinality(Buffered(d[1])') = Cardinality(Buffered(d[1])) - 1
  <2>1. IsFiniteSet(Buffered(d[1]))
    BY <1>1, OpenAttemptsFinite DEF ConsumerInv, AttemptsInv
  <2> QED BY <1>5, <2>1, FS_RemoveElement
<1>8. OneHolder'
  BY <1>2 DEF AttemptsInv, OneHolder
<1>9. UNCHANGED delivered => AttemptIsMade'
  BY <1>2 DEF AttemptsInv, AttemptIsMade
<1> QED BY <1>1, <1>6, <1>7, <1>8, <1>9

\* Three answers end the attempt; a handler call keeps it open.
LEMMA TakePreservesAttempts ==
  ASSUME ConsumerInv, AttemptsInv, NEW c \in Consumers, NEW d \in inbox[c],
         \/ Terminate(c, d) \/ CheckError(c, d)
         \/ AlreadyProcessed(c, d) \/ StartHandler(c, d)
  PROVE  AttemptsInv'
<1> DEFINE m == d[1]
<1>1. Take(c, d) /\ UNCHANGED <<stream, delivered, processed>>
  BY DEF Terminate, CheckError, AlreadyProcessed, StartHandler, Take, Settle, Nak,
         brokerVars, recordVars
<1>2. /\ m \in Messages /\ m \in DOMAIN stream
      /\ Cardinality(Buffered(m)') = Cardinality(Buffered(m)) - 1
      /\ \A k \in Messages : k # m => Buffered(k)' = Buffered(k)
      /\ OneHolder' /\ AttemptIsMade'
  BY <1>1, TakenAttempt, TakeEffect
<1>3. \A k \in Messages : Excused(k) => Excused(k)'
  BY <1>1 DEF Excused
<1>4. \A k \in Messages :
        /\ Cardinality(Buffered(k)) \in Nat /\ Cardinality(Handling(k)) \in Nat
        /\ IsFiniteSet(Handling(k)) /\ failed[k] \in Nat
  BY OpenAttemptsFinite DEF ConsumerInv, AttemptsInv
<1>5. ASSUME Terminate(c, d) \/ AlreadyProcessed(c, d) PROVE AttemptsInv'
  <2>1. Excused(m)
    BY <1>2, <1>5 DEF Terminate, AlreadyProcessed, Excused
  <2>2. UNCHANGED <<job, failed>>
    BY <1>5 DEF Terminate, AlreadyProcessed, recordVars
  <2>3. \A k \in Messages : Handling(k)' = Handling(k)
    BY <2>2 DEF Handling
  <2>4. \A k \in Messages : k # m /\ Accounted(k) => Accounted(k)'
    BY <1>1, <1>2, <2>2, <2>3 DEF Accounted
  <2> QED
    BY <1>2, <1>3, <2>1, <2>3, <2>4 DEF AttemptsInv, HandlingIsFinite
<1>6. ASSUME CheckError(c, d) PROVE AttemptsInv'
  <2>1. UNCHANGED job /\ failed' = [failed EXCEPT ![m] = @ + 1]
    BY <1>6 DEF CheckError, Nak
  <2>2. \A k \in Messages : Handling(k)' = Handling(k)
    BY <2>1 DEF Handling
  <2>3. \A k \in Messages : failed'[k] = IF k = m THEN failed[k] + 1 ELSE failed[k]
    BY <2>1 DEF ConsumerInv, TypeOK
  <2>4. \A k \in Messages : Accounted(k) => Accounted(k)'
    <3> SUFFICES ASSUME NEW k \in Messages, Accounted(k) PROVE Accounted(k)'
      OBVIOUS
    <3>1. delivered'[k] = delivered[k] /\ Handling(k)' = Handling(k)
      BY <1>1, <2>2
    <3>2. failed'[k] + Cardinality(Buffered(k)') = failed[k] + Cardinality(Buffered(k))
      BY <1>2, <1>4, <2>3
    <3> QED BY <3>1, <3>2 DEF Accounted
  <2> QED BY <1>2, <1>3, <2>2, <2>4 DEF AttemptsInv, HandlingIsFinite
<1>7. ASSUME StartHandler(c, d) PROVE AttemptsInv'
  <2>1. job' = [job EXCEPT ![c] = m] /\ UNCHANGED failed /\ job[c] = 0
    BY <1>1, <1>7 DEF StartHandler, recordVars, Take, ConsumerInv, TypeOK
  <2>2. \A b \in Consumers : job'[b] = IF b = c THEN m ELSE job[b]
    BY <2>1 DEF ConsumerInv, TypeOK
  <2>3. 0 \notin Messages
    BY ConsumerAssumption DEF Messages
  <2>4. /\ Handling(m)' = Handling(m) \cup {c}
        /\ \A k \in Messages : k # m => Handling(k)' = Handling(k)
    BY <1>2, <2>1, <2>2, <2>3 DEF Handling
  <2>5. c \notin Handling(m)
    BY <1>2, <2>1, <2>3 DEF Handling
  <2>6. /\ IsFiniteSet(Handling(m)')
        /\ Cardinality(Handling(m)') = Cardinality(Handling(m)) + 1
    BY <1>2, <1>4, <2>4, <2>5, FS_AddElement
  <2>7. \A k \in Messages : Accounted(k) => Accounted(k)'
    <3> SUFFICES ASSUME NEW k \in Messages, Accounted(k) PROVE Accounted(k)'
      OBVIOUS
    <3>1. delivered'[k] = delivered[k] /\ failed'[k] = failed[k]
      BY <1>1, <2>1
    <3>2. failed[k] + Cardinality(Buffered(k)') + Cardinality(Handling(k)')
            = failed[k] + Cardinality(Buffered(k)) + Cardinality(Handling(k))
      <4>1. CASE k = m
        <5> HIDE DEF m
        <5> QED BY <1>2, <1>4, <2>6, <4>1
      <4>2. CASE k # m
        BY <1>2, <2>4, <4>2
      <4> QED BY <4>1, <4>2
    <3> QED BY <3>1, <3>2 DEF Accounted
  <2> QED BY <1>2, <1>3, <1>4, <2>4, <2>6, <2>7 DEF AttemptsInv, HandlingIsFinite
<1> QED BY <1>5, <1>6, <1>7

\* The end of a handler call, of whatever kind, ends its attempt.
LEMMA JobPreservesAttempts ==
  ASSUME ConsumerInv, AttemptsInv, NEW c \in Consumers,
         HandlerReturns(c) \/ HandlerError(c) \/ MarkProcessed(c) \/ MarkError(c)
  PROVE  AttemptsInv'
<1>1. PICK m \in Messages :
        /\ m = job[c] /\ m \in DOMAIN stream
        /\ UNCHANGED <<stream, inbox, delivered>>
        /\ processed \subseteq processed'
  <2>1. step[c] # "idle" /\ UNCHANGED <<stream, inbox, delivered>>
    BY DEF HandlerReturns, HandlerError, MarkProcessed, MarkError, Settle, Nak, brokerVars
  <2>2. processed \subseteq processed'
    BY DEF HandlerReturns, HandlerError, MarkProcessed, MarkError
  <2> QED BY <2>1, <2>2 DEF ConsumerInv, TypeOK, JobIsStored
<1>2. CASE HandlerReturns(c)
  BY <1>1, <1>2, AttemptsUnchanged DEF HandlerReturns
<1>3. ASSUME HandlerError(c) \/ MarkProcessed(c) \/ MarkError(c) PROVE AttemptsInv'
  <2>1. /\ job' = [job EXCEPT ![c] = 0]
        /\ \/ failed' = [failed EXCEPT ![m] = @ + 1]
           \/ UNCHANGED failed /\ stream[m] \in processed'
    BY <1>1, <1>3 DEF HandlerError, MarkProcessed, MarkError, Release, Nak, JobEvent
  <2>2. \A k \in Messages : Buffered(k)' = Buffered(k)
    BY <1>1 DEF Buffered
  <2>3. \A k \in Messages :
          /\ Cardinality(Buffered(k)) \in Nat /\ Cardinality(Handling(k)) \in Nat
          /\ IsFiniteSet(Handling(k)) /\ failed[k] \in Nat
    BY OpenAttemptsFinite DEF ConsumerInv, AttemptsInv
  <2>4. \A b \in Consumers : job'[b] = IF b = c THEN 0 ELSE job[b]
    BY <2>1 DEF ConsumerInv, TypeOK
  <2>5. /\ Handling(m)' = Handling(m) \ {c} /\ c \in Handling(m)
        /\ \A k \in Messages : k # m => Handling(k)' = Handling(k)
    BY <1>1, <2>4, ConsumerAssumption DEF Handling, Messages
  <2>6. /\ IsFiniteSet(Handling(m)')
        /\ Cardinality(Handling(m)') = Cardinality(Handling(m)) - 1
    BY <1>1, <2>3, <2>5, FS_RemoveElement
  <2>7. \A k \in Messages : Excused(k) => Excused(k)'
    BY <1>1 DEF Excused
  <2>8. \A k \in Messages : Accounted(k) => Accounted(k)' \/ Excused(k)'
    <3> SUFFICES ASSUME NEW k \in Messages, Accounted(k), ~ Excused(k)' PROVE Accounted(k)'
      OBVIOUS
    <3>1. k = m => stream[m] \notin processed'
      BY <1>1 DEF Excused
    <3>2. failed'[k] = IF k = m THEN failed[k] + 1 ELSE failed[k]
      BY <2>1, <3>1 DEF ConsumerInv, TypeOK
    <3>3. failed'[k] + Cardinality(Buffered(k)) + Cardinality(Handling(k)')
            = failed[k] + Cardinality(Buffered(k)) + Cardinality(Handling(k))
      <4>1. CASE k = m
        BY <2>3, <2>6, <3>2, <4>1
      <4>2. CASE k # m
        BY <2>5, <3>2, <4>2
      <4> QED BY <4>1, <4>2
    <3>4. delivered'[k] = delivered[k] /\ Buffered(k)' = Buffered(k)
      BY <1>1, <2>2
    <3> QED BY <3>3, <3>4 DEF Accounted
  <2>9. OneHolder' /\ AttemptIsMade'
    BY <1>1 DEF AttemptsInv, OneHolder, AttemptIsMade
  <2>10. HandlingIsFinite'
    BY <2>3, <2>5, <2>6 DEF HandlingIsFinite
  <2> QED BY <2>7, <2>8, <2>9, <2>10 DEF AttemptsInv
<1> QED BY <1>2, <1>3

\* A loop that ends counts what it held as failed attempts.
LEMMA DropPreservesAttempts ==
  ASSUME ConsumerInv, AttemptsInv, NEW c \in Consumers, RunReturns(c) \/ RestartConsumer(c)
  PROVE  AttemptsInv'
<1>1. /\ inbox' = [inbox EXCEPT ![c] = {}]
      /\ failed' = [i \in Messages |-> failed[i] + InHand(c, i)]
      /\ job' = [job EXCEPT ![c] = 0]
      /\ UNCHANGED <<stream, delivered, processed>>
  BY DEF RunReturns, RestartConsumer, Drop, Release, brokerVars
<1>2. \A b \in Consumers : /\ inbox'[b] = IF b = c THEN {} ELSE inbox[b]
                           /\ job'[b] = IF b = c THEN 0 ELSE job[b]
  BY <1>1 DEF ConsumerInv, TypeOK
<1>3. OneHolder' /\ AttemptIsMade'
  BY <1>1, <1>2 DEF AttemptsInv, OneHolder, AttemptIsMade
<1>4. ASSUME NEW i \in Messages
      PROVE  /\ IsFiniteSet(Handling(i)')
             /\ Accounted(i) => Accounted(i)'
  <2> DEFINE own == {d \in inbox[c] : d[1] = i}
  <2>1. /\ IsFiniteSet(Buffered(i)) /\ Cardinality(Buffered(i)) \in Nat
        /\ IsFiniteSet(Handling(i)) /\ Cardinality(Handling(i)) \in Nat
        /\ delivered[i] \in Nat /\ failed[i] \in Nat
    BY OpenAttemptsFinite DEF ConsumerInv, AttemptsInv
  <2>2. own \subseteq Buffered(i)
    BY DEF Buffered, ConsumerInv, TypeOK
  <2>3. Buffered(i)' = Buffered(i) \ own
    <3>1. \A x : x \in inbox[c] => \A b \in Consumers : b # c => x \notin inbox[b]
      BY DEF AttemptsInv, OneHolder
    <3>2. \A x : (\E b \in Consumers : x \in inbox'[b]) <=>
                 x \notin inbox[c] /\ \E b \in Consumers : x \in inbox[b]
      BY <1>2, <3>1
    <3> QED BY <3>2 DEF Buffered, Deliveries, Messages
  <2>4. /\ Cardinality(own) \in Nat
        /\ Cardinality(Buffered(i)') = Cardinality(Buffered(i)) - Cardinality(own)
    <3>1. Buffered(i) \cap own = own
      BY <2>2
    <3>2. IsFiniteSet(own)
      BY <2>1, <2>2, FS_Subset
    <3>3. Cardinality(Buffered(i) \ own)
            = Cardinality(Buffered(i)) - Cardinality(Buffered(i) \cap own)
      BY <2>1, FS_Difference
    <3> HIDE DEF own
    <3> QED BY <2>3, <3>1, <3>2, <3>3, FS_CardinalityType
  <2>5. /\ Handling(i)' = Handling(i) \ {c}
        /\ c \in Handling(i) <=> job[c] = i
    BY <1>2, ConsumerAssumption DEF Handling, Messages
  <2>6. /\ IsFiniteSet(Handling(i)')
        /\ Cardinality(Handling(i)')
             = Cardinality(Handling(i)) - (IF job[c] = i THEN 1 ELSE 0)
    BY <2>1, <2>5, FS_RemoveElement
  <2>7. failed'[i] = failed[i] + Cardinality(own) + (IF job[c] = i THEN 1 ELSE 0)
    BY <1>1, <2>1, <2>4 DEF InHand
  <2>8. failed'[i] + Cardinality(Buffered(i)') + Cardinality(Handling(i)')
          = failed[i] + Cardinality(Buffered(i)) + Cardinality(Handling(i))
    <3> HIDE DEF own
    <3> QED BY <2>1, <2>4, <2>6, <2>7
  <2> QED BY <1>1, <2>6, <2>8 DEF Accounted
<1>5. \A i \in Messages : Excused(i) => Excused(i)'
  BY <1>1 DEF Excused
<1> QED BY <1>3, <1>4, <1>5 DEF AttemptsInv, HandlingIsFinite

LEMMA ConsumerStepPreservesAttempts ==
  ASSUME ConsumerInv, AttemptsInv, ConsumerNext
  PROVE  AttemptsInv'
<1>1. ASSUME NEW c \in Consumers, HandleStep(c) PROVE AttemptsInv'
  BY <1>1, TakePreservesAttempts, JobPreservesAttempts DEF HandleStep
<1>2. ASSUME NEW i \in Messages, AckTimeout(i) PROVE AttemptsInv'
  BY <1>2, AttemptsUnchanged DEF AckTimeout, loopVars, recordVars
<1>3. CASE Expire
  BY <1>3, AttemptsUnchanged DEF Expire, loopVars, recordVars
<1> QED
  BY <1>1, <1>2, <1>3, DeliverPreservesAttempts, LossPreservesAttempts, DropPreservesAttempts
     DEF ConsumerNext, BrokerStep

LEMMA AttemptsStep == ConsumerInv /\ AttemptsInv /\ [Next]_vars => AttemptsInv'
<1> SUFFICES ASSUME ConsumerInv, AttemptsInv, [Next]_vars PROVE AttemptsInv'
  OBVIOUS
<1>1. CASE Arrive
  <2>1. PICK e \in Events : stream' = Append(stream, e)
    BY <1>1 DEF Arrive
  <2>2. Grows
    BY <2>1 DEF Grows, ConsumerInv, TypeOK
  <2> QED BY <1>1, <2>2, GrowthPreservesAttempts DEF Arrive
<1>2. CASE UNCHANGED vars
  <2>1. Grows /\ UNCHANGED consumerVars
    BY <1>2 DEF vars, Grows, ConsumerInv, TypeOK
  <2> QED BY <2>1, GrowthPreservesAttempts
<1> QED BY <1>1, <1>2, ConsumerStepPreservesAttempts DEF Next

\* A message nobody holds has failed or got lost as often as it was delivered.
LEMMA UnheldHasFailed ==
  ASSUME TypeOK, AttemptsInv, NEW i \in Messages, ~ Excused(i),
         \A c \in Consumers : InHand(c, i) = 0
  PROVE  failed[i] = delivered[i]
<1>1. /\ IsFiniteSet(Buffered(i)) /\ IsFiniteSet(Handling(i))
      /\ delivered[i] \in Nat /\ failed[i] \in Nat
  BY OpenAttemptsFinite DEF AttemptsInv
<1>2. ASSUME NEW c \in Consumers PROVE {d \in inbox[c] : d[1] = i} = {} /\ job[c] # i
  <2> DEFINE own == {d \in inbox[c] : d[1] = i}
  <2>1. own \subseteq Buffered(i)
    BY DEF Buffered, TypeOK
  <2>2. IsFiniteSet(own) /\ Cardinality(own) \in Nat
    BY <1>1, <2>1, FS_Subset, FS_CardinalityType
  <2>3. Cardinality(own) + (IF job[c] = i THEN 1 ELSE 0) = 0
    BY DEF InHand
  <2>4. Cardinality(own) = 0 /\ job[c] # i
    <3> HIDE DEF own
    <3> QED BY <2>2, <2>3
  <2> QED BY <2>2, <2>4, FS_EmptySet
<1>3. Buffered(i) = {} /\ Handling(i) = {}
  BY <1>2 DEF Buffered, Handling
<1> QED BY <1>1, <1>3, FS_EmptySet DEF AttemptsInv, Accounted

\* Every attempt of a delivered message is spent, open or excused.
THEOREM AttemptsCorrect == Spec => []AttemptsInv
<1>1. Init => AttemptsInv
  BY AttemptsInit DEF Init
<1> QED BY <1>1, AttemptsStep, InvCorrect, PTL DEF Spec

\* When an event is given up without a record, each of the broker's MaxDeliver
\* attempts failed in a loop or was lost on its way to one: slow handlers whose
\* ack wait passes, full buffers and other replicas use up none of them.
THEOREM AbandonedHaveFailed == Spec => []AbandonedAfterFailures
<1>1. ConsumerInv /\ AttemptsInv => AbandonedAfterFailures
  <2> SUFFICES ASSUME ConsumerInv, AttemptsInv, NEW i \in Messages,
                      Selected(i), Abandoned(i), ~ OnRecord(i)
               PROVE  failed[i] = MaxDeliver
    BY DEF AbandonedAfterFailures
  <2>1. ~ Excused(i)
    BY DEF Excused, Selected, OnRecord
  <2> QED BY <2>1, UnheldHasFailed DEF Abandoned, ConsumerInv
<1> QED BY <1>1, InvCorrect, AttemptsCorrect, PTL

\* The state of the broker, the loops and the table stays well formed.
THEOREM ConsumerTypeCorrect == Spec => []TypeOK
BY InvCorrect, PTL DEF ConsumerInv

-----------------------------------------------------------------------------
(***************************************************************************)
(* Repeated effects, when there is a single loop.  What the loop does not  *)
(* know of is an effect without a record, and that is either in its own    *)
(* hands (it is marking the event) or marked as interrupted; so the event  *)
(* of a handler call has had no effect yet, unless it was interrupted.     *)
(***************************************************************************)
OneLoop == \A b, c \in Consumers : b = c

EffectIsKnown ==
  \A e \in Events \ interrupted :
    /\ handled[e] <= 1
    /\ handled[e] = 1 =>
         e \in processed \/ \E c \in Consumers : step[c] = "marking" /\ JobEvent(c) = e

CallIsFirst ==
  \A c \in Consumers :
    step[c] = "handling" /\ JobEvent(c) \notin interrupted => handled[JobEvent(c)] = 0

RepeatInv == EffectIsKnown /\ CallIsFirst

LEMMA RepeatInit == ConsumerInit => RepeatInv
BY DEF ConsumerInit, RepeatInv, EffectIsKnown, CallIsFirst

LEMMA GrowthPreservesRepeat ==
  ASSUME ConsumerInv, RepeatInv, Grows, UNCHANGED consumerVars
  PROVE  RepeatInv'
<1>1. \A c \in Consumers : step[c] # "idle" => JobEvent(c)' = JobEvent(c)
  BY DEF consumerVars, loopVars, JobEvent, Grows, ConsumerInv, JobIsStored
<1> QED
  BY <1>1 DEF RepeatInv, EffectIsKnown, CallIsFirst, consumerVars, loopVars, recordVars

LEMMA TakePreservesRepeat ==
  ASSUME ConsumerInv, RepeatInv, OneLoop, NEW c \in Consumers, NEW d \in inbox[c],
         \/ Terminate(c, d) \/ CheckError(c, d)
         \/ AlreadyProcessed(c, d) \/ StartHandler(c, d)
  PROVE  RepeatInv'
<1>1. /\ UNCHANGED <<stream, processed, handled, interrupted>>
      /\ step[c] = "idle"
      /\ \/ UNCHANGED <<step, job>>
         \/ StartHandler(c, d)
  BY DEF Terminate, CheckError, AlreadyProcessed, StartHandler, Take, recordVars
<1>2. CASE UNCHANGED <<step, job>>
  BY <1>1, <1>2 DEF RepeatInv, EffectIsKnown, CallIsFirst, JobEvent
<1>3. ASSUME StartHandler(c, d) PROVE RepeatInv'
  <2>1. \A e \in Events \ interrupted :
          /\ handled[e] <= 1
          /\ handled[e] = 1 => e \in processed
    BY <1>1 DEF RepeatInv, EffectIsKnown, OneLoop
  <2>2. /\ step'[c] = "handling" /\ JobEvent(c)' = stream[d[1]]
        /\ stream[d[1]] \in Events \ processed
    BY <1>1, <1>3, TakeEffect DEF StartHandler, JobEvent, ConsumerInv, TypeOK
  <2>3. EffectIsKnown'
    BY <1>1, <2>1 DEF EffectIsKnown
  <2>4. CallIsFirst'
    <3> SUFFICES ASSUME NEW b \in Consumers, JobEvent(b)' \notin interrupted
                 PROVE  handled[JobEvent(b)'] = 0
      BY <1>1 DEF CallIsFirst
    <3>1. b = c
      BY DEF OneLoop
    <3>2. JobEvent(b)' \in Events \ interrupted /\ JobEvent(b)' \notin processed
      BY <2>2, <3>1
    <3> QED BY <2>1, <3>2 DEF ConsumerInv, TypeOK
  <2> QED BY <2>3, <2>4 DEF RepeatInv
<1> QED BY <1>1, <1>2, <1>3

LEMMA JobPreservesRepeat ==
  ASSUME ConsumerInv, RepeatInv, OneLoop, NEW c \in Consumers,
         HandlerReturns(c) \/ HandlerError(c) \/ MarkProcessed(c) \/ MarkError(c)
  PROVE  RepeatInv'
<1>1. PICK e \in Events : JobEvent(c) = e
  BY DEF HandlerReturns, HandlerError, MarkProcessed, MarkError, JobEvent,
         ConsumerInv, JobIsStored, TypeOK
<1>2. handled \in [Events -> Nat] /\ step \in [Consumers -> {"idle", "handling", "marking"}]
  BY DEF ConsumerInv, TypeOK
<1>3. ASSUME HandlerReturns(c) PROVE RepeatInv'
  <2>1. /\ step[c] = "handling" /\ step'[c] = "marking" /\ JobEvent(c)' = e
        /\ handled' = [handled EXCEPT ![e] = @ + 1]
        /\ UNCHANGED <<processed, interrupted>>
    BY <1>1, <1>2, <1>3 DEF HandlerReturns, JobEvent
  <2>2. \A f \in Events \ interrupted : handled[f] <= 1 /\ (handled[f] = 1 => f \in processed)
    BY <2>1 DEF RepeatInv, EffectIsKnown, OneLoop
  <2>3. e \notin interrupted => handled[e] = 0
    BY <1>1, <2>1 DEF RepeatInv, CallIsFirst
  <2>4. EffectIsKnown'
    BY <1>2, <2>1, <2>2, <2>3 DEF EffectIsKnown
  <2>5. CallIsFirst'
    BY <2>1 DEF CallIsFirst, OneLoop
  <2> QED BY <2>4, <2>5 DEF RepeatInv
<1>4. ASSUME HandlerError(c) \/ MarkProcessed(c) \/ MarkError(c) PROVE RepeatInv'
  <2>1. step'[c] = "idle"
    BY <1>2, <1>4 DEF HandlerError, MarkProcessed, MarkError, Release
  <2>2. CallIsFirst'
    BY <2>1 DEF CallIsFirst, OneLoop
  <2>3. /\ interrupted \subseteq interrupted' /\ processed \subseteq processed'
        /\ \/ handled' = handled
           \/ handled' = [handled EXCEPT ![e] = @ + 1] /\ e \in interrupted'
    BY <1>1, <1>4 DEF HandlerError, MarkProcessed, MarkError
  <2>4. step[c] = "marking" => e \in processed' \cup interrupted'
    BY <1>1, <1>4 DEF HandlerError, MarkProcessed, MarkError
  <2>5. ASSUME NEW f \in Events \ interrupted'
        PROVE  handled'[f] <= 1 /\ (handled'[f] = 1 => f \in processed')
    <3>1. f \in Events \ interrupted /\ handled'[f] = handled[f]
      BY <1>2, <2>3
    <3>2. handled[f] <= 1 /\ (handled[f] = 1 =>
            f \in processed \/ (step[c] = "marking" /\ JobEvent(c) = f))
      BY <3>1 DEF RepeatInv, EffectIsKnown, OneLoop
    <3> QED BY <1>1, <2>3, <2>4, <3>1, <3>2
  <2>6. EffectIsKnown'
    BY <2>5 DEF EffectIsKnown
  <2> QED BY <2>2, <2>6 DEF RepeatInv
<1> QED BY <1>3, <1>4

LEMMA DropPreservesRepeat ==
  ASSUME ConsumerInv, RepeatInv, OneLoop, NEW c \in Consumers,
         RunReturns(c) \/ RestartConsumer(c)
  PROVE  RepeatInv'
<1>1. /\ step'[c] = "idle" /\ UNCHANGED <<processed, handled>>
      /\ interrupted \subseteq interrupted'
      /\ step[c] = "marking" => JobEvent(c) \in interrupted'
  BY DEF RunReturns, RestartConsumer, Drop, Release, ConsumerInv, TypeOK
<1>2. CallIsFirst'
  BY <1>1 DEF CallIsFirst, OneLoop
<1>3. EffectIsKnown'
  <2> SUFFICES ASSUME NEW e \in Events \ interrupted'
               PROVE  handled[e] <= 1 /\ (handled[e] = 1 => e \in processed)
    BY <1>1 DEF EffectIsKnown
  <2>1. /\ handled[e] <= 1
        /\ handled[e] = 1 => e \in processed \/ (step[c] = "marking" /\ JobEvent(c) = e)
    BY <1>1 DEF RepeatInv, EffectIsKnown, OneLoop
  <2> QED BY <1>1, <2>1
<1> QED BY <1>2, <1>3 DEF RepeatInv

LEMMA ConsumerStepPreservesRepeat ==
  ASSUME ConsumerInv, RepeatInv, OneLoop, ConsumerNext
  PROVE  RepeatInv'
<1>1. ASSUME NEW c \in Consumers, HandleStep(c) PROVE RepeatInv'
  BY <1>1, TakePreservesRepeat, JobPreservesRepeat DEF HandleStep
<1>2. CASE BrokerStep
  <2>1. UNCHANGED <<stream, step, job, processed, handled, interrupted>>
    BY <1>2 DEF BrokerStep, AckTimeout, Deliver, LoseDelivery, Expire, loopVars, recordVars
  <2> QED BY <2>1 DEF RepeatInv, EffectIsKnown, CallIsFirst, JobEvent
<1> QED BY <1>1, <1>2, DropPreservesRepeat DEF ConsumerNext

=============================================================================
