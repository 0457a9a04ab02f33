SPECIFICATION Spec
CONSTANTS
  Pages = {p1}
  Slots = {c1}
  Writers = {w1}
  Flushers = {f1,f2}
  Hinters = {h1}
  Bgwriters = {b1}
  MainBgwriter = b1
  Checkpointer = ck
  None = None
  LogHints = TRUE
  Fullpage = TRUE
  MaxLsn = 3
  MaxImage = 0
  MaxCrashes = 0
SYMMETRY Symmetry
INVARIANTS NoFuturePage EvictionSafe CopiesOwned
PROPERTY StorageKeepsChanges
