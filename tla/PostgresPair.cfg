CONSTANTS
  parent = parent
  child = child
  Absent = Absent
  NoSlot = NoSlot
  Slots = {parent, child}
  Vals = {a, b}
  Parent <- Family
  Table <- OneTable
  Sessions = {alice}
  Outsiders = {carol}
  Limits = {1, 3}
  MaxOps = 3
  MaxSeq = 2
SPECIFICATION Spec
SYMMETRY Interchangeable
INVARIANTS LogTruth UndoneWasWhole UndoFindsAnOrder
PROPERTIES OperationsAreTransactions UndoSparesOthers UndoRestores ServesFeed
