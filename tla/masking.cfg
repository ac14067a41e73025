\* Overlapping identifiers, each call a single fact.
SPECIFICATION Spec
CONSTANTS
  Nil = Nil
  Empty = Empty
  Calls <- CardCalls
  Configs <- MCConfigs
  Replies <- MCReplies
  MinTrust <- MCMinTrust
  MaxItems = 2
  MaxFacts = 2
  DropThreshold = 4900
  FuzzyThreshold = 82
  MaxDecodeDepth = 3
  Placeholder = 4
INVARIANT
  MaskedWhole
CHECK_DEADLOCK FALSE
