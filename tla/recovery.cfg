\* The production deployment, every store remote, crashing and losing Redis.
SPECIFICATION RecoverySpec
CONSTANTS
  Nil = Nil
  refund = refund
  replacement = replacement
  note = note
  Writers = {w1, w2}
  Readers = {}
  Searchers = {q1}
  Forgetters = {}
  Sweepers = {s1}
  Customers = {u1}
  Facts <- MCFacts
  Opposed <- MCOpposed
  Kind <- MCKind
  Salience <- MCSalience
  Batches <- Mixed
  MaxFacts = 2
  Refused <- NoteRefused
  Filters <- NoFilter
  Floors <- NoFloor
  Expiring = {w1}
  Strategy = "latest_wins"
  ListLimit = 3
  SearchLimit = 3
  Redis = TRUE
  Postgres = TRUE
  Qdrant = TRUE
  RemoteModels = FALSE
  Faults = TRUE
INVARIANTS
  RowsAreSearchable
  SearchAfterWrite
