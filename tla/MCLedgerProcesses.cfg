\* Transport and work in processes, with custody handed over and a resource packed
\* and unpacked meanwhile.
CONSTANTS
  Agents = {a, b}
  Specs = {s}
  Units = {u}
  Processes = {p1, p2}
  Locations = {l}
  Stages = {st}
  BasedOn <- MCBasedOn
  Nil = Nil
  Quantities = {1}
  ActionIds = {"raise", "pickup", "dropoff", "accept", "modify", "transferCustody"}
  Packable = {2}
  MaxEvents = 5
  MaxResources = 2
  p1 = p1
  p2 = p2
  st = st
SPECIFICATION HistorySpec
SYMMETRY Symmetric
INVARIANTS NothingLostInProcess PairsAreOneToOne  
PROPERTIES KeepsJournal
CHECK_DEADLOCK FALSE
