\* Raising, lowering, using, citing and the transfer family, with a resource
\* that is packed and unpacked.
CONSTANTS
  Agents = {a, b}
  Specs = {s1, s2}
  Units = {u}
  Processes = {p1}
  Locations = {}
  Stages = {st}
  BasedOn <- MCBasedOn
  Nil = Nil
  Quantities = {1}
  ActionIds = {"raise", "lower", "work", "use", "cite", "move", "transferCustody", "transferAllRights", "transfer"}
  Packable = {2}
  MaxEvents = 4
  MaxResources = 3
  p1 = p1
  p2 = p2
  st = st
SPECIFICATION HistorySpec
SYMMETRY Symmetric
INVARIANTS TypeOK QuantitiesFollowEvents ConservedPerSpecification PreviousChain HoldersFollowEvents HandedOnByHolder
PROPERTIES KeepsJournal
CHECK_DEADLOCK FALSE
