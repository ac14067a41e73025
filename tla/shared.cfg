\* Redis, Qdrant remote, rows and providers in process; remote calls may raise.
SPECIFICATION CompactingSpec
CONSTANTS
  Nil = Nil
  refund = refund
  replacement = replacement
  note = note
  Writers = {w1, w2}
  Readers = {}
  Searchers = {}
  Forgetters = {f1}
  Sweepers = {}
  Customers = {u1, u2}
  Facts <- MCFacts
  Faded <- MCFaded
  Near <- MCNear
  Opposed <- MCOpposed
  Kind <- MCKind
  Salience <- MCSalience
  Batches <- Pairs
  MaxFacts = 2
  Refused <- Nothing
  Filters <- NoFilter
  Floors <- NoFloor
  Expiring = {}
  Strategy = "latest_wins"
  ListLimit = 3
  SearchLimit = 3
  Redis = TRUE
  Postgres = FALSE
  Qdrant = TRUE
  RemoteModels = FALSE
  Faults = TRUE
INVARIANTS
  TypeOK
  UniqueVersions
  LedgerFirst
  DurableOnReturn
  ForgottenGone
SYMMETRY WriterSymmetry
PROPERTIES
  CompactionKeepsFacts
  LifecycleSpec
