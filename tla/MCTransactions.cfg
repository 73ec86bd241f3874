\* Two transactions that overlap, on two resources.  No property tells agents
\* apart, and a check of the custodian only refuses requests that may as well be
\* lost: so one agent shows all that several can do.
CONSTANTS
  Clients = {c1, c2}
  Resources = {r1, r2}
  Processes = {p}
  Agents = {a}
  Actions = {"pickup", "dropoff", "accept", "modify", "transferCustody"}
  Quantities = {1}
  InitialOnhand = 1
  None = None
  MaxEvents = 3
SPECIFICATION FairSpec
INVARIANTS TypeOK QuantitiesFollowCommits LinksGoBack
PROPERTY RequestsEnd
CHECK_DEADLOCK FALSE
