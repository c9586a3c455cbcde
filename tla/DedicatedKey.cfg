SPECIFICATION Spec
CONSTANTS
  Worker = {w1, w2}
  NoWorker = NoWorker
  KeyId = {k1, k2, k3}
  Foreign = Foreign
  NoKey = NoKey
  MaxFaults = 3
  MaxLapses = 1
INVARIANTS TypeOK OneKey SavedKeyLives
PROPERTY ForeignKeySafe
