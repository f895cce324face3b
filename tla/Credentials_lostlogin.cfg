CONSTANTS
  MaxTokens = 2
  MaxSaves = 2
SPECIFICATION FairSpec
PROPERTIES
  LoginNoticed
