\* A write, a read, a search and a forget on Redis and Qdrant, whose calls may raise.
SPECIFICATION FairSpec
CONSTANTS
  Nil = Nil
  refund = refund
  replacement = replacement
  note = note
  Writers = {w1}
  Readers = {r1}
  Searchers = {q1}
  Forgetters = {f1}
  Sweepers = {}
  Customers = {u1}
  Facts <- MCFacts
  Opposed <- MCOpposed
  Kind <- MCKind
  Salience <- MCSalience
  Batches <- Opposites
  MaxFacts = 1
  Refused <- Nothing
  Filters <- NoFilter
  Floors <- TwoFloors
  Expiring = {w1}
  Strategy = "latest_wins"
  ListLimit = 3
  SearchLimit = 3
  Redis = TRUE
  Postgres = FALSE
  Qdrant = TRUE
  RemoteModels = FALSE
  Faults = TRUE
PROPERTY
  RequestsReturn
