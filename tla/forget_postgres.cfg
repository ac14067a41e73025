\* Rows on Postgres: a write, then a forget.
SPECIFICATION Spec
CONSTANTS
  Nil = Nil
  refund = refund
  replacement = replacement
  note = note
  Writers = {w1}
  Readers = {}
  Searchers = {}
  Forgetters = {f1}
  Sweepers = {}
  Customers = {u1}
  Facts <- MCFacts
  Opposed <- MCOpposed
  Kind <- MCKind
  Salience <- MCSalience
  Batches <- Opposites
  MaxFacts = 1
  Refused <- Nothing
  Filters <- NoFilter
  Floors <- NoFloor
  Expiring = {w1}
  Strategy = "latest_wins"
  ListLimit = 3
  SearchLimit = 3
  Redis = FALSE
  Postgres = TRUE
  Qdrant = FALSE
  RemoteModels = TRUE
  Faults = FALSE
INVARIANT
  ForgetTotal
