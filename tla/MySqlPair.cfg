CONSTANTS
  parent = parent
  child = child
  Absent = Absent
  NoSlot = NoSlot
  Slots = {parent, child}
  Vals = {a, b}
  Parent <- Family
  Table <- OneTable
  Actions = {"cascade", "refuse"}
  Sessions = {alice}
  Outsiders = {carol}
  Limits = {1, 3}
  MaxOps = 3
  MaxSeq = 2
SPECIFICATION Spec
SYMMETRY Interchangeable
INVARIANTS TypeOK CountedIsStored
PROPERTIES CtrlzOperationsAreClosed CascadesAreNeverUndone UndoSparesOthers
