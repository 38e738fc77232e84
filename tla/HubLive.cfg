CONSTANTS
  NoId = NoId
  Serial = TRUE
  Distinct = TRUE
  Minted = FALSE
  Shippers = {s1}
  Batch = 1
  MaxOps = 3
  MaxSeq = 2
  MaxClock = 2
  MaxFails = 1
  MaxTrims = 1
SPECIFICATION FairSpec
INVARIANTS NothingSkipped HubAgrees ChangesHaveHeaders
PROPERTIES Drains UndosArrive
