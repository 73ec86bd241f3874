\* Two requests overlap: one puts a process, the other a group into a group.
CONSTANTS
  Clients = {c1, c2}
  Procs = {p1}
  Groups = {g1, g2}
  Unmade = Unmade
  Deleted = Deleted
  None = None
SPECIFICATION HistorySpec
SYMMETRY Symmetric
INVARIANTS Exclusive
CHECK_DEADLOCK FALSE
