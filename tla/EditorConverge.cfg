SPECIFICATION Spec
CONSTANTS
  Browser = {1, 2}  Char = {1, 2}  MaxEdits <- TwoAndOne  Settings <- MCSettings
INVARIANT EditorsConverge
CHECK_DEADLOCK FALSE
