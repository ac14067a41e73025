\* Five memories, of which four are listed; budgets in which they do and do not fit.
SPECIFICATION Spec
CONSTANTS
  Nil = Nil
  parcel = parcel
  came = came
  wants = wants
  refund = refund
  today = today
  late = late
  again = again
  box = box
  n1 = n1
  n2 = n2
  Catalog <- MCCatalog
  Opposed <- MCOpposed
  Words = {parcel, came, wants, refund, today, late, again, box}
  Budgets = {0, 4, 14}
  Filters = {Nil, "intent"}
  DefaultBudget = 15
  ListLimit = 4
  Nonces = {n1, n2}
  RenderMinTrust = 2
  UserContent = 1
  Lines = 2
  PerType = 1
  MinPhrase = 3
  Fillers = {{hello, sorry, will, check}}
  MaxChanges = 2
INVARIANTS
  TypeOK
  BudgetKept
  ShowsTheTop
  UntrustedWrapped
  NoFalseAlarm
CHECK_DEADLOCK FALSE
