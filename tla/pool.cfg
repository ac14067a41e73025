\* A pool of 3 and 3 calls: nested lookups can wedge it, and one call is cancelled.
SPECIFICATION Spec
CONSTANTS
  Nil = Nil
  Calls = {c1, c2, c3}
  Customers = {u1}
  Identifiers = {i1}
  PoolSize = 3
  MaxCancels = 1
INVARIANTS
  Accounted
  WedgeNeedsHoard
  FoundIsCurrent
PROPERTIES
  Served
CHECK_DEADLOCK FALSE
