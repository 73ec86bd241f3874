\* Two pickups of one process.
CONSTANTS
  Clients = {c1, c2}
  Resources = {r1}
  Processes = {p}
  Agents = {a, b}
  Actions = {"pickup"}
  Quantities = {1}
  InitialOnhand = 1
  None = None
  MaxEvents = 2
SPECIFICATION Spec
CHECK_DEADLOCK FALSE
INVARIANT OnePickupPerProcess
