CONSTANTS
  MaxTokens = 3
  MaxSaves = 3
SPECIFICATION FairSpec
INVARIANTS
  ConnectBounded
  SavedBeforeUse
  RetryUsesNewToken
  NoSpin
PROPERTIES
  ConnectEnds
