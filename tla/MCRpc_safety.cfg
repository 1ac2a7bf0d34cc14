CONSTANTS
  Requests = {r1, r2, r3}
  NoRequest = NoRequest
  Workers = {"proc", "fs"}
  Cap = 1
  MaxMisses = 1
  MaxDowns = 1
SPECIFICATION Spec
CHECK_DEADLOCK FALSE
SYMMETRY Symmetry
INVARIANTS
  TypeOK
  OwnAnswer
  OwnListing
  NoCircularWait
