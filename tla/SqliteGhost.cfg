CONSTANTS
  parent = parent
  child = child
  Absent = Absent
  NoSlot = NoSlot
  NoSession = NoSession
  Slots = {parent, child}
  Vals = {a, b}
  Parent <- Family
  OnDelete = "cascade"
  Sessions = {alice}
  External = FALSE
  MaxRows = 2
  MaxOps = 3
  MaxSeq = 3
SPECIFICATION Spec
SYMMETRY Interchangeable
PROPERTIES EveryUndoRestores
