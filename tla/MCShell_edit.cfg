SPECIFICATION Spec
CONSTANTS
  VGAWidth = 4
  VGAHeight = 2
  SHELL_BUFFER_SIZE = 4
  HISTORY_SIZE = 2
  ka = ka
  kb = kb
  Typed <- MCTyped
  Outputs <- MCOutputs
  FirstName <- MCFirst
  PromptNames <- MCNames
  PromptRest <- MCRest
  EarlyKeys = 1
SYMMETRY MCLetters
INVARIANTS TypeOK ScreenShowsLine HistoryIsRecent
