SPECIFICATION Spec
CONSTANTS
  Worker = {w1, w2}
  NoWorker = NoWorker
  NoMemory = NoMemory
  Credential = {c1, c2}
  Window = {}
  MaxSnapshots = 1
  MaxLapses = 1
SYMMETRY Symmetry
INVARIANT CookieIsCredential
