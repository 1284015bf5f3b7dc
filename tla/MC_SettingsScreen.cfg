\* Every order of edits, removals, undo and restarts.
CONSTANTS
  NumberOf <- MCNumberOf
  DefaultSettings <- MCDefaultSettings
  DefaultUi <- MCDefaultUi
  Names <- MCNames
  Hosts <- MCHosts
  PortTexts <- MCPortTexts
  IntervalTexts <- MCIntervalTexts
  GbOf <- MCGbOf
  GbTexts <- MCGbTexts
  GbTextOf <- MCGbTextOf
  Blank = ""
  UiChanges <- MCUiChanges
  ThemeFlag = "dark"
  MaxTargets = 3
  MaxEdits = 4
  MaxRestarts = 1
SPECIFICATION Spec
INVARIANTS ShownIsUsed UndoIsInverse CommittedIsReadBack UndoLastsItsTenSeconds
CHECK_DEADLOCK FALSE
