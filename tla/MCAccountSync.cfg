SPECIFICATION Spec
CONSTANTS
  Worker = {w1, w2}
  NoWorker = NoWorker
  NoMemory = NoMemory
  Credential = {c1, c2}
  Window = {"weekly"}
  MaxSnapshots = 2
  MaxLapses = 1
SYMMETRY Symmetry
INVARIANTS TypeOK LastWordStands RecoveryConfirmed StatusIsCurrent
PROPERTY SnapshotsAdvance
