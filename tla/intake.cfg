\* Every route a write takes before it is stored, over lists of up to 3 items.
SPECIFICATION Spec
CONSTANTS
  Nil = Nil
  Empty = Empty
  Calls <- MCCalls
  Configs <- MCConfigs
  Replies <- MCReplies
  MinTrust <- MCMinTrust
  MaxItems = 2
  MaxFacts = 2
  DropThreshold = 4900
  FuzzyThreshold = 82
  MaxDecodeDepth = 3
  Placeholder = 3
INVARIANTS
  TypeOK
  KeepsTheRightFacts
  EveryItemExtracted
  
  
  MaskedExactly
CHECK_DEADLOCK FALSE
