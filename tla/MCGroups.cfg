\* Two requests overlap; a group fits a process and a group, and can be moved.
CONSTANTS
  Clients = {c1, c2}
  Procs = {p1}
  Groups = {g1, g2, g3}
  Unmade = Unmade
  Deleted = Deleted
  None = None
SPECIFICATION HistorySpec
SYMMETRY Symmetric
INVARIANTS TypeOK MixedByOverlap
CHECK_DEADLOCK FALSE
