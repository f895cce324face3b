CONSTANTS
  MaxTokens = 2
  MaxSaves = 2
SPECIFICATION Spec
PROPERTIES
  HintWorks
