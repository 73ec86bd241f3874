\* Custody of a container.
CONSTANTS
  Agents = {a, b}
  Specs = {s1}
  Units = {u}
  Processes = {}
  Locations = {}
  Stages = {st}
  BasedOn <- MCBasedOn
  Nil = Nil
  Quantities = {1}
  ActionIds = {"raise", "transferCustody"}
  Packable = {2}
  MaxEvents = 3
  MaxResources = 3
  p1 = p1
  p2 = p2
  st = st
SPECIFICATION HistorySpec
CHECK_DEADLOCK FALSE
PROPERTY ContentsHandedOver
