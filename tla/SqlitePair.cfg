CONSTANTS
  parent = parent
  child = child
  Absent = Absent
  NoSlot = NoSlot
  NoSession = NoSession
  Slots = {parent, child}
  Vals = {a, b}
  Parent <- Family
  OnDelete = "refuse"
  Sessions = {alice, bob}
  External = FALSE
  MaxRows = 1
  MaxOps = 3
  MaxSeq = 2
SPECIFICATION FairSpec
PROPERTIES UndoSparesOthers UndoEnds
