\* Two requests that overlap, on two persons and two files.
CONSTANTS
  Clients = {c1, c2}
  Persons = {o1, o2}
  NoOne = NoOne
  Hashes = {h1, h2}
  Operations = {"create", "update", "verify", "delete", "upload"}
  Lists <- MCLists
  MaxRequests = 2
SPECIFICATION Spec
CONSTRAINT TokensUsed
SYMMETRY Symmetric
INVARIANTS TypeOK ImagesOfLastUpdate VerifiedByVerification
PROPERTIES ContentKept
CHECK_DEADLOCK FALSE
