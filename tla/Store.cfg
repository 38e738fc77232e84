CONSTANTS
  p1 = p1
  p2 = p2
  t1 = t1
  t2 = t2
  NoTable = NoTable
  Tables = {t1, t2}
  Procs = {p1, p2}
  Engines = {"sqlite", "mysql"}
  Undisturbed = TRUE
  MaxDeaths = 1
SPECIFICATION Spec
SYMMETRY Interchangeable
INVARIANTS VersionIsTrue InitRebuilds
PROPERTIES InitBreaksNoWrites
CHECK_DEADLOCK FALSE
