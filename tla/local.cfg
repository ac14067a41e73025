\* Everything in process but the language-model and embedding providers.
SPECIFICATION Spec
CONSTANTS
  Nil = Nil
  refund = refund
  replacement = replacement
  note = note
  Writers = {w1, w2}
  Readers = {r1, r2}
  Searchers = {}
  Forgetters = {f1}
  Sweepers = {}
  Customers = {u1}
  Facts <- MCFacts
  Opposed <- MCOpposed
  Kind <- MCKind
  Salience <- MCSalience
  Batches <- Opposites
  MaxFacts = 1
  Refused <- Nothing
  Filters <- NoFilter
  Floors <- OneFloor
  Expiring = {w1}
  Strategy = "latest_wins"
  ListLimit = 3
  SearchLimit = 3
  Redis = FALSE
  Postgres = FALSE
  Qdrant = FALSE
  RemoteModels = TRUE
  Faults = FALSE
INVARIANTS
  LedgerInVersionOrder
  ReadAfterWrite
  SerialConflictsResolved
  ForgottenNotCached
SYMMETRY ReaderSymmetry
