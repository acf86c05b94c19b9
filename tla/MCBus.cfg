SPECIFICATION FairBusSpec
CONSTANTS
  Events = {e1, e2}
  Publishers = {p1}
  Poison = {e2}
  BatchSize = 2
  MaxClock = 2
  MaxExpiries = 0
  NoEvent = NoEvent
  Consumers = {c1}
  Subscribed = {e1}
  Undecodable = {}
  MaxDeliver = 2
  MaxAckPending = 1
  MaxPull = 1
INVARIANTS
  NothingFallsBetween
  RepeatIsExplained
PROPERTIES
  KeepsPromise
  CommittedIsProcessed
