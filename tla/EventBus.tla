------------------------------ MODULE EventBus ------------------------------
(***************************************************************************)
(* The event bus end to end: the outbox and its publishers (Outbox) and    *)
(* one durable consumer (EventConsumer), joined by the stream.             *)
(***************************************************************************)
EXTENDS Outbox

CONSTANTS Consumers, Subscribed, Undecodable, MaxDeliver, MaxAckPending, MaxPull

ASSUME BusAssumption ==
  /\ IsFiniteSet(Consumers)
  /\ Subscribed \subseteq Events
  /\ Undecodable \subseteq Events
  /\ MaxDeliver \in Nat \ {0}
  /\ MaxAckPending \in Nat \ {0}
  /\ MaxPull \in Nat \ {0}

VARIABLES
  floor, delivered, outstanding, settled, inbox, step, job, running,
  processed, handled, interrupted, failed

\* Deduplication bounds the stream: see DuplicatesAreExplained.
StreamBound == Cardinality(Events) * (MaxExpiries + 1)

C == INSTANCE EventConsumer
       WITH MaxMessages <- StreamBound

consumerState ==
  <<floor, delivered, outstanding, settled, inbox, step, job, running,
    processed, handled, interrupted, failed>>

busVars == <<vars, consumerState>>

BusInit == Init /\ C!ConsumerInit

\* Producers and publishers see nothing of the consumer ...
ProducerSide == Next /\ UNCHANGED consumerState

\* ... and the consumer shares only the stream with them.
ConsumerSide == C!ConsumerNext /\ UNCHANGED vars

BusNext == ProducerSide \/ ConsumerSide

BusSpec == BusInit /\ [][BusNext]_busVars

FairBusSpec == BusSpec /\ Fairness /\ C!ConsumerFairness

-----------------------------------------------------------------------------
\* The promise of the bus, seen in the tables.
Promise ==
  INSTANCE EventDelivery
    WITH accepted <- {e \in Events : Committed(e)},
         relayed  <- {e \in Events : row[e] = "published"},
         effected <- {e \in Events : handled[e] > 0},
         recorded <- processed

\* The bus keeps it: no event is handled that was not committed, none is
\* recorded that was not handled, and nothing accepted is taken back.
KeepsPromise == Promise!Spec

\* Between the commit and the handler a row is never both marked published
\* and absent from every place that still leads to its handler, unless the
\* broker used up its attempts or dropped it for age.
NothingFallsBetween ==
  \A e \in Events :
    row[e] = "published" /\ e \in Subscribed \ Undecodable /\ e \notin processed =>
      \E i \in DOMAIN stream :
        /\ stream[i] = e
        /\ i \notin settled
        /\ \/ i <= floor
           \/ failed[i] = MaxDeliver
           \/ delivered[i] < MaxDeliver
           \/ \E c \in Consumers : C!InHand(c, i) > 0

\* With a single loop, republication and redelivery repeat the effect
\* of an event only after a failure between the effect and its record.
RepeatIsExplained ==
  Cardinality(Consumers) = 1 =>
    \A e \in Events : handled[e] > 1 => e \in interrupted

\* A committed event ends up on record, or was abandoned or expired, while
\* some publisher keeps its connection and some consumer loop runs.
CommittedIsProcessed ==
  ((\E p \in Publishers : <>[](conn[p] # "closed")) /\ (\E c \in Consumers : []<>running[c]))
  => \A e \in (Events \cap Subscribed) \ (Poison \cup Undecodable) :
       row[e] = "pending" ~>
         \/ e \in processed
         \/ \E i \in DOMAIN stream :
              stream[i] = e /\ (C!Abandoned(i) \/ i <= floor)

=============================================================================
