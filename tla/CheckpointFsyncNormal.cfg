SPECIFICATION Spec
CONSTANTS
  Pages = {p1, p2}
  Kinds = {"normal", "incremental"}
  MaxLsn = 4
INVARIANT RedoDurable
