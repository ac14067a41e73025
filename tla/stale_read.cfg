\* One instance on Redis: two reads beside a write.
SPECIFICATION Spec
CONSTANTS
  Nil = Nil
  refund = refund
  replacement = replacement
  note = note
  Writers = {w1}
  Readers = {r1, r2}
  Searchers = {}
  Forgetters = {}
  Sweepers = {}
  Customers = {u1}
  Facts <- MCFacts
  Opposed <- MCOpposed
  Kind <- MCKind
  Salience <- MCSalience
  Batches <- Opposites
  MaxFacts = 1
  Refused <- Nothing
  Filters <- NoFilter
  Floors <- OneFloor
  Expiring = {w1}
  Strategy = "latest_wins"
  ListLimit = 3
  SearchLimit = 3
  Redis = TRUE
  Postgres = FALSE
  Qdrant = FALSE
  RemoteModels = FALSE
  Faults = FALSE
INVARIANT
  ReadAfterWrite
