SPECIFICATION Spec
CONSTANTS
  Events = {e1, e2}
  Publishers = {p1, p2}
  Poison = {}
  BatchSize = 1
  MaxClock = 3
  MaxExpiries = 1
  NoEvent = NoEvent
SYMMETRY PublisherSymmetry
INVARIANTS
  PublishedIsStored
  StoredIsCommitted
  DuplicatesAreExplained
PROPERTY FinishedForGood
