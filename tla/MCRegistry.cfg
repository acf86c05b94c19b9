SPECIFICATION Spec
CONSTANTS
  Models = {m1}
  Definitions = {d1, d2}
  NoEntry = NoEntry
  Txs = {t1, t2, t3}
  NoModel = NoModel
  Removal = Removal
  MaxEvents = 5
SYMMETRY symmetry_Txs
INVARIANTS
  LifeIsCoherent
  LastEventIsRow
PROPERTIES
  KeepsPromise
CHECK_DEADLOCK FALSE
