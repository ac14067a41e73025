\* In-memory warm store with the cache on Redis; one of the resolves may fail.
SPECIFICATION Spec
CONSTANTS
  Nil = Nil
  Resolvers = {r1, r2, r3}
  Writers = {r1}
  Lookups = {r3}
  Operators = {o1, o2}
  Identifiers = {voice, web}
  Redis = TRUE
  Postgres = FALSE
  Qdrant = FALSE
  RemoteModels = TRUE
  Faulty = {r2}
INVARIANTS
  TypeOK
  SameCustomer
  SerialLinksHold
  FoundAgain
  ForgottenUnresolved
SYMMETRY Symmetry
