CONSTANTS
  parent = parent
  child = child
  Absent = Absent
  NoSlot = NoSlot
  Slots = {parent, child}
  Vals = {a}
  Parent <- Family
  Table <- OneTable
  Actions = {"cascade"}
  Sessions = {alice}
  Outsiders = {carol}
  Limits = {3}
  MaxOps = 3
  MaxSeq = 2
SPECIFICATION Spec
PROPERTIES UndosLoseNothing
