SPECIFICATION FairSpec
CONSTANTS
  Pages = {p1, p2}
  Slots = {c1}
  Writers = {w1}
  Flushers = {f1}
  Hinters = {}
  Bgwriters = {b1}
  MainBgwriter = b1
  Checkpointer = ck
  None = None
  LogHints = FALSE
  Fullpage = FALSE
  MaxLsn = 3
  MaxImage = 0
  MaxCrashes = 0
INVARIANTS NeverPanics NoFuturePage
PROPERTY CheckpointCompletes
