\* The browsers have made all their edits, and all are committed: they may stop.
SPECIFICATION Spec
CONSTANTS
  Browser = {1, 2}  Char = {1, 2}  MaxEdits <- TwoAndOne  Settings <- MCSettings
INVARIANTS InflightIsFront TextTrue NoneForgotten
CHECK_DEADLOCK FALSE
