SPECIFICATION Spec
CONSTANTS
  Events = {e1, e2}
  Consumers = {c1, c2}
  Subscribed = {e1, e2}
  Undecodable = {e2}
  MaxDeliver = 2
  MaxAckPending = 2
  MaxPull = 1
  MaxMessages = 2
SYMMETRY ConsumerSymmetry
INVARIANTS
  TypeOK
  SettledIsProcessed
  ProcessedIsHandled
  AbandonedAfterFailures
