CONSTANTS
  parent = parent
  child = child
  Absent = Absent
  NoSlot = NoSlot
  NoSession = NoSession
  Slots = {parent, child}
  Vals = {a, b}
  Parent <- Family
  OnDelete = "cascade"
  Sessions = {alice}
  External = TRUE
  MaxRows = 2
  MaxOps = 3
  MaxSeq = 3
SPECIFICATION Spec
SYMMETRY Interchangeable
INVARIANTS LogTruth HistoryChains CaptureIsAllOrCapped
PROPERTIES UndoKnowsItAll UndoRestores ServesFeed
