CONSTANTS
  NoId = NoId
  Serial = FALSE
  Distinct = TRUE
  Minted = TRUE
  Shippers = {s1}
  Batch = 2
  MaxOps = 2
  MaxSeq = 3
  MaxClock = 1
  MaxFails = 0
  MaxTrims = 0
SPECIFICATION Spec
INVARIANT NothingSkipped
